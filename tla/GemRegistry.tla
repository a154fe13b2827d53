---------------------------- MODULE GemRegistry -----------------------------
(***************************************************************************)
(* What a client may rely on of a private gem registry until a yank comes: *)
(* a gem's file is stored first, then its version is published, once, with *)
(* the checksum of a content that was really delivered for it, and what    *)
(* was published stays published.                                          *)
(***************************************************************************)
CONSTANTS Gems,    \* every name, number and platform
          Builds   \* the contents (checksums) a gem can be built with

VARIABLES delivered,   \* every file ever stored, as gem and checksum
          catalogue    \* the published versions, as gem and checksum

registryVars == <<delivered, catalogue>>

Row == [gem : Gems, checksum : Builds]

Init ==
    /\ delivered = {}
    /\ catalogue = {}

(* A gem's file reaches the store; delivering the same one again is legal. *)
Deliver(row) ==
    /\ delivered' = delivered \cup {row}
    /\ UNCHANGED catalogue

(* A delivered gem is published unless its version already is. *)
Publish(row) ==
    /\ row \in delivered
    /\ \A r \in catalogue : r.gem # row.gem
    /\ catalogue' = catalogue \cup {row}
    /\ UNCHANGED delivered

Next == \E row \in Row : Deliver(row) \/ Publish(row)

Spec == Init /\ [][Next]_registryVars
=============================================================================
