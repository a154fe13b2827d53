---------------------------- MODULE RubyMarshal -----------------------------
(***************************************************************************)
(* What a Ruby client gets of a stream (Marshal.load), for the types that  *)
(* Marshal writes: outside the repository, and the reason for its format.  *)
(***************************************************************************)
EXTENDS Marshal

(* A reader is where it is, whether the stream is well formed so far, the   *)
(* symbols met, the objects met (numbered from 0), for each text the pairs  *)
(* that should say its encoding, and the value read last.                  *)
RubyReader == [at |-> 3, ok |-> TRUE, symbols |-> <<>>, objects |-> <<>>,
               encodings |-> <<>>, value |-> <<>>]

Fail(r) == [r EXCEPT !.ok = FALSE]
Number(s, r) ==
    LET i == ReadInt(s, r.at) IN [r EXCEPT !.at = i.at, !.value = i.n]
Enter(r, kind) == [r EXCEPT !.objects = Append(@, kind)]

(* A text of as many bytes as it was said to have.                          *)
Sized(s, size) ==
    LET token == At(s, size.at) IN
    IF token[1] = "text" /\ token[2].length = size.value
    THEN [size EXCEPT !.at = @ + 1, !.value = token[2].of]
    ELSE Fail(size)
Bytes(s, r) == Sized(s, Number(s, r))

NewSymbol(text) == [text EXCEPT !.symbols = Append(@, text.value)]
OldSymbol(link) ==
    IF link.value + 1 \in DOMAIN link.symbols
    THEN [link EXCEPT !.value = link.symbols[@ + 1]] ELSE Fail(link)

Symbol(s, r) ==
    CASE At(s, r.at) = Sign(":") -> NewSymbol(Bytes(s, Skip(r, 1)))
      [] At(s, r.at) = Sign(";") -> OldSymbol(Number(s, Skip(r, 1)))
      [] OTHER -> Fail(r)

RECURSIVE Value(_, _), Values(_, _, _), Pairs(_, _, _, _)

(* n values, as a sequence.                                                *)
Values(s, r, n) ==
    IF n = 0 \/ ~r.ok THEN [r EXCEPT !.value = <<>>]
    ELSE LET first == Value(s, r)
             rest == Values(s, first, n - 1)
         IN  [rest EXCEPT !.value = <<first.value>> \o @]

(* n pairs: a symbol and a value each.                                     *)
Pairs(s, r, n, read) ==
    IF n = 0 \/ ~r.ok THEN [r EXCEPT !.value = read]
    ELSE LET key == Symbol(s, r)
             val == Value(s, key)
         IN  Pairs(s, val, n - 1, Append(read, <<key.value, val.value>>))

Value(s, r) ==
    LET sign == At(s, r.at)
        next == Skip(r, 1)
        size(q) == Number(s, q)
    IN  CASE ~r.ok -> r
          [] sign = Sign("T") -> [next EXCEPT !.value = TRUE]
          [] sign = Sign("F") -> [next EXCEPT !.value = FALSE]
          [] sign = Sign("i") -> size(next)
          [] sign \in {Sign(":"), Sign(";")} -> Symbol(s, r)
          [] sign = Sign("\"") ->
                LET text == Bytes(s, next) IN Enter(text, text.value)
          [] sign = Sign("I") ->
                LET string == Value(s, next)
                    count == size(string)
                    pairs == Pairs(s, count, count.value, <<>>)
                IN  [pairs EXCEPT !.encodings = Append(@, pairs.value),
                                  !.value = string.value]
          [] sign = Sign("[") ->
                LET count == size(Enter(next, "array"))
                IN  Values(s, count, count.value)
          [] sign = Sign("{") ->
                LET count == size(Enter(next, "hash"))
                IN  Pairs(s, count, count.value, <<>>)
          [] sign = Sign("U") ->
                LET class == Symbol(s, Enter(next, "user class"))
                    data == Value(s, class)
                IN  [data EXCEPT !.value = <<class.value, data.value>>]
          [] sign = Sign("o") ->
                LET class == Symbol(s, Enter(next, "object"))
                    count == size(class)
                    ivars == Pairs(s, count, count.value, <<>>)
                IN  [ivars EXCEPT !.value = <<class.value, ivars.value>>]
          [] sign = Sign("@") ->
                LET link == size(next) IN
                IF link.value + 1 \in DOMAIN r.objects
                THEN [link EXCEPT !.value = r.objects[@ + 1]] ELSE Fail(link)
          [] OTHER -> Fail(r)

MarshalLoad(s) == Value(s, RubyReader)
=============================================================================
