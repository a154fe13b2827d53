# Verification of gemfast

TLA+ models of the gemfast server (a private RubyGems registry and mirror,
`src/`), TLC configurations that check them on small instances, and TLAPS proofs
for every instance.

## 1. The system

| Component | State it keeps | Operations | Hard part |
|---|---|---|---|
| Private repository (`internal/api/rubygems.go`, `internal/indexer`) | gem files, quick gemspecs, six index files (specs, latest, prerelease, each plain and `.gz`), one process-wide mutex, a temporary directory | upload, geminabox upload, yank, index generation at start | handlers run concurrently and hold the mutex for a part of their work only; files change one by one; the process can be killed between any two |
| Version database (`internal/db/gem.go`, bbolt) | per namespace and name a JSON list of versions with checksum, info checksum and dependencies | `SaveGem`, `DeleteGemVersion`, reads for `/versions`, `/info`, `/names`, dependencies | read and write are separate transactions; only `SaveGem` runs under the mutex |
| Spec lists (`internal/spec/spec.go`, `updateSpecsIndex`) | none | `PartitionSpecs`, `FindIndexOf`, merge of an index with new specs | binary search over the order of a directory walk; string comparison of versions; ids run together |
| Mirror cache (`mirroredGemHandler`, `mirroredGemspecRzHandler`) | downloaded gems and gemspecs | download on demand, serve from disk | concurrent downloads into one file, cut connections, kills |
| Users and tokens (`internal/db/user.go`, `internal/middleware`, `internal/api/v1.go`) | users with role, password hash, token, type | login, token creation, role change, deletion, rewrite at start | read-modify-write over two transactions; roles cached in JWT claims |
| GitHub login (`internal/middleware/github.go`) | users with access tokens | OAuth code exchange, team and organization checks | outside service |
| Advisory cache (`internal/cve`) | advisories per gem | `Refresh` at start and daily, `GetCVEs` | cleared and refilled while it is read; severity bands |
| Filter (`internal/filter`) | none | `IsAllowed` | regular expressions |
| Marshal formats (`internal/marshal`) | none | dump and load of Ruby objects | link tables, integer encoding |
| Gem reader (`internal/spec`) | a temporary directory | untar, gunzip, YAML | none outside one call |
| HTTP routing, UI, configuration, CLI, packaging | none of their own | | |

How they interact: `api` handlers call `indexer` and `db` directly; `indexer`
calls `db.SaveGemVersions` and `spec`; the mirror calls `indexer.AddGemToIndex`
too, so mirror and private uploads share the mutex and the index files. Requests
are goroutines. Nothing is passed by message except three completion messages
from the `updateSpecsIndex` goroutines. `start` opens the database, generates
the indexes, refreshes the advisories, and listens.

What makes each correct: what is listed can be fetched; what was acknowledged is
published, indexed, and stays; a yank removes its gem from what clients get and
nothing else; the latest index never goes back; every request is answered; a
restart repairs what a kill left. For users: a token or role that was
acknowledged holds until it is changed. For the mirror: what is served is what
upstream sent. For advisories: a gem with an unacceptable advisory is refused.

## 2. Modules

| Module | Contents |
|---|---|
| `SpecList` | gems, their order, `PartitionSpecs`, `FindIndexOf`, `MergeSpecs` and `MergeLatest` (`updateSpecsIndex`) |
| `SpecListProofs` | lemmas about the functions of `SpecList`, for every set of specs |
| `GemRepository` | the private repository: the core model |
| `GemRegistry` | abstract specification: deliver a file, publish its version once |
| `GemRepositoryInvariants` | inductive invariants of `GemRepository`, in named parts |
| `GemRepositoryProofs` | theorems about `GemRepository`, proved with TLAPS |
| `GemRepositoryIndexProofs` | more of them, about the latest index, the compressed ones, and the gemspecs of what they list |
| `MirrorCache` | the mirror's cache of one gem and its gemspec |
| `MirrorCacheProofs` | inductive invariants of `MirrorCache` and theorems about it |
| `UserStore` | users, their roles and tokens, sessions, and the start that rewrites them |
| `UserStoreProofs` | inductive invariants of `UserStore` and theorems about it |
| `CompactIndex` | the list of versions under one name of the private namespace, and what `/info` and `/versions` say of it |
| `CompactIndexProofs` | inductive invariants of `CompactIndex` and theorems about it |
| `AdvisoryCache` | the advisories, the severity check and the filter before the mirror's handlers |
| `AdvisoryCacheProofs` | inductive invariants of `AdvisoryCache` and theorems about it |
| `Marshal` | what `internal/marshal` writes and reads, as streams of tokens |
| `RubyMarshal` | what Ruby's `Marshal.load` makes of such a stream (outside the repository) |
| `MCGemRepository`, `MCCompactIndex`, `MCMirrorCache`, `MCUserStore`, `MCAdvisoryCache` | instances for TLC |
| `FunctionInputs` | the functions of `SpecList`, and the integers and index files of `Marshal`, against their reference definitions: a state is one input |
| `FunctionProofs` | theorems about `FunctionInputs`, and the lemmas about streams they rest on |
| `MCFunctions` | instances of `FunctionInputs` for TLC, and the properties of what Ruby makes of a stream |

How the modules meet: `GemRepository` uses the functions of `SpecList`, and its
database is `GemRegistry` (checked by TLC, proved). `CompactIndex` is the same
transactions as the four of `GemRepository` (`ReadVersions`, `PutVersions`,
`ReadForDelete`, `PutRemaining`), seen closer: one name, a list instead of a
set, and the bytes between a transaction and their decoding. It implements
`GemRegistry` too (proved), under the one condition that `GemRepository` takes for
granted: no upload decodes what it has read after two other write
transactions. `AdvisoryCache`
ends where `MirrorCache` begins: a request that it allows is one of
`MirrorCache`'s. `Marshal` is what an index file holds: `GemRepository` needs
of it that `LoadSpecs` reads back what `DumpSpecs` wrote (`SpecsAreRead`) and that
it refuses a truncated file (`TornIsRefused`); both are proved, for the list that
any finite set of gem files is written as.

### GemRepository: state and actions

| Variable | Code |
|---|---|
| `files` | gem files below `GemDir/private`, with their content; a path is in the directory of the first letter or at the root |
| `rows` | the bbolt bucket of the private namespace, all names together |
| `gemspecs` | `quick/Marshal.4.8/*.gemspec.rz`: absent, created and empty, whole |
| `dest`, `tmp` | the index files in the server's directory and those built in `indexer.dir` |
| `at`, `place` | where the loop over `indexer.files` (or the three `buildModernIndex` calls of a yank) stands, and whether the file there was removed or truncated and not yet replaced |
| `lock` | `var lock sync.Mutex` |
| `server` | down, generating the index (three stages), or listening |
| `pc`, `gem`, `build`, `seen`, `listed` | each handler's position and local variables |
| `delivered`, `acked`, `withdrawn`, `yanked`, `crashes` | history, read by properties (and `crashes` by its bound) |

A step of a handler is what runs between two file system calls or database
transactions that another handler, a client or a restart can observe. Upload:
`SaveUpload` (rename, before the mutex), `BeginUpdate` (lock, open the gem
again), `ReadVersions` and `PutVersions` (the two transactions of `SaveGem`),
`CreateGemspec` and `WriteGemspec` (`os.WriteFile`), `UpdateSpecsIndexes` (the
three goroutines and the compression, all inside the temporary directory), then
for each file `RemoveOldIndex` and `MoveNewIndex`, or `SkipIndex`, and
`FinishUpdate`. Yank: `ReceiveYank`, `BeginRemove`, `FindInIndex` (a directory
walk is not atomic: it may or may not meet files stored meanwhile),
`TruncateIndex` and `RewriteIndex` three times, `FinishRemove` (unlock), then
without the mutex `RemoveGemFile`, `RemoveGemspec`, `ReadForDelete` and
`PutRemaining`. Start: `GenerateIndex`, `ClearGemspecs`, `InstallGemspecs`, the
same moves, `FinishInstall`. `Crash` kills the process anywhere;
`PanicOnTruncated` is the panic of `LoadSpecs` in a goroutine, which nothing
recovers.

The model follows the code where one may expect something else: `FindIndexOf`
misses a version of a name that is not the last of it (the binary search stops at
any of them and the scan goes forward only, `spec.go:356-369`), so that such a
version cannot be yanked; the merge tells specs apart by name, version and platform
run together (`indexer.go:377`), so that of foo 11.0 and foo1 1.0 the later one
is not added to the index, and an entry it has read that has the id of a new one is
dropped; `SaveGem` tells the versions of a name apart in the same way
(`gem.go:102-106`), by number and platform (`SameId`, and the constant `Alike`
has the pairs that run together); a yank of one version beside an upload of another
overwrites the uploaded row (`gem.go:160`); and a kill between `RemoveAll` and
`Rename` of a plain index (`indexer.go:511-516`) leaves it missing for good,
because `GenerateIndex` looks for the compressed ones only (112-118).

Abstractions: a gem is the ranks of its name, version string and platform in
byte order; a content is a model value and is its own checksum; an index is the
set of its entries; a bbolt transaction is atomic and, once committed, survives a
kill; a rename is atomic. Uploaded files are valid gems. File system and database
errors other than a missing file are not modelled. The mirror is disabled
(`MirrorCache` models it).
Requests are bounded by the constants `Uploads` and `Yanks`, kills by
`MaxCrashes`; no other bound exists. `SaveGem` decodes a bbolt value after its
transaction has ended; here the value is as it was in the transaction, and
`CompactIndex` has the rest.

### MirrorCache: state and actions

| Variable | Code |
|---|---|
| `inode`, `data` | the files at the paths of one gem and of its gemspec; an inode is named after the request that made it and is a set of written parts |
| `row` | the gem's row in the mirror's namespace: the bytes whose checksum it has |
| `lock` | `var lock sync.Mutex` of the indexer |
| `pc`, `fd`, `sum`, `pos` | each handler's position, open descriptor, hashed bytes, and offset |
| `sent`, `warm`, `refusals`, `breaks`, `kills` | history, read by properties and by the bounds |

Both handlers: `Stat`, `CreateFile` (before the upstream is asked),
`UpstreamAnswers`, `UpstreamRefuses` (the gemspec's file is removed, the gem's
stays) or `ConnectionBreaks`, `CopyPart` for each write of `io.Copy`, `EndCopy`,
`Serve`. A gem is then added: `BeginIndex` (lock and stat), `HashGem` and
`ParseGem` (`untar` reads the file twice through one descriptor), `SaveRow`,
`CreateSpec` and `WriteSpec`, `EndIndex` (unlock), or after an error the
unlocked `RemoveGem`. `Kill` ends the process anywhere; requests made later find
what it left.

`os.Create` truncates the inode that is at the path, and a writer goes on at its
own offset in the inode it opened, even after that was truncated or unlinked:
this is what lets overlapping downloads leave holes. A hole reads as zeros and is
a part that is missing. The first part stands for the metadata, without which
`FromFile` fails; a file that lacks another part may or may not be read to its
end. Reading a file is one step. Left out: requests that the filter or the
advisories refuse (they change nothing), the index files that `AddGemToIndex`
rewrites (the same code as an upload's, in `GemRepository`), the mirrored
handlers that only redirect to the upstream, and file system errors.

### UserStore: state and actions

| Variable | Code |
|---|---|
| `store` | the bbolt bucket of users: password, gem token, role, GitHub access token |
| `config` | the authentication part of the configuration of the last start |
| `server` | down, the two stages of start-up that write users, up |
| `pc`, `req`, `copy` | each request's position, what it asks for and as whom, and the user it has read |
| `session` | the claims of the JWT that a login issued; it survives restarts, as the key does |
| `ledger` | history: the users if every request were one transaction |
| `overlaps` | history: the users on whom two requests overlapped since the start |
| `granted` | history: the roles a configuration, an admin or the default ever gave a user |
| `starts` | counts starts, for the bound `MaxStarts` |

`Start` chooses a configuration and with it one of the three modes of
authentication; with local users `CreateAdminUserIfNotExists` and
`CreateLocalUsers` follow, one transaction each. A request comes in by
`AskLocal` (the JWT middleware, which believes the claims), `AskGitHub` (the
GitHub middleware, which asks GitHub about the access token in the claims and then
runs `authenticateGitHubUser`: `ReadGitHubUser`, then `CreateGitHubUser`,
`UpdateGitHubUser` or neither) or `AskAnyone` (no authentication). It then opens
the page of tokens (`OpenTokensPage`; in GitHub mode and without authentication),
reads a user (`ReadUser`) and writes him
back whole (`WriteUser`; `CreateUserToken` and `setUserRole` differ in the
field they change and in the check of the role), or deletes him (`DeleteUser`).
`LoginLocal` and `GitHubCallback` issue sessions. `Stop` ends the process
anywhere, in start-up too; requests under way are lost.

The model follows the code where one may expect something else: every start
with local users takes the gem tokens of all configured users away; a change that
overlaps another is lost, and a deleted user comes back with the write of
whoever read him before; in GitHub mode a deleted user whose session goes on is
created again by his next request; a JWT issued in GitHub mode is accepted under
local users, claims and all; the page of tokens takes its user from the cookie of a
GitHub login and not from who was authenticated (`ui.go:246-271`), so that a
request makes a token for any user whose cookie it has, without authentication
too (`CookieUsers`). Such outcomes are admitted, `LossNeedsOverlap` and
`NothingIsAnothers` say where they end.

Abstractions: a hash of a password is the password; a gem token is named after
the request that generated it, an access token after the callback that obtained it
(both are fresh). A configured role, and the default role, are assumed to be
valid: `CreateLocalUsers` does not check them. A session never expires. GitHub
answers with the user the access token was issued to, or the request ends and
changes nothing. `GetUser` decodes a bbolt value after its transaction; the
model takes it as it was in the transaction.

### CompactIndex: state and actions

| Variable | Code |
|---|---|
| `value` | what the bucket of the private namespace has under one name: nothing, or the list of its versions, in the order they were added, each with the info checksum it was added with |
| `lock` | `var lock sync.Mutex` of the indexer |
| `pc`, `version`, `build`, `seen` | each handler's position, the version and content it is about, and the list it has read |
| `others` | write transactions since an upload's read transaction ended, up to two |
| `stored`, `acked`, `asked`, `withdrawn`, `exposed`, `gone` | history, read by properties only (`exposed` and `gone` are where a version may be lost, and where it may not come back) |

An upload is `BeginUpdate` (the mutex), `View` (the transaction that reads),
`Decode`, `Store` (the transaction that writes, or none when the version is
there) and `FinishUpdate`. A yank is `RemoveGemFromIndex`, `GetGemVersions`
and `PutRemaining`. `OtherWrite` is any other write transaction, `Kill` the end of
the process.

A checksum is the text it is made of: the lines of the versions, which
`CompactIndexInfo` sorts, and the newlines at the end. `Decode` after two write
transactions may find other bytes at the place: bbolt frees the page of a value
that the first replaces and may fill it in the second. What is then there
does not parse as a list of versions, which the code takes for an empty one; that
it parses as another name's list is left out, and so is a memory map that
was moved meanwhile, which kills the process (`Kill`). Two versions of which
number and platform run together to one string are one to `SaveGem`: `Alike` has
them, and `AckedIsListed` says nothing of a version that has such another.

The code leaves more than the properties speak of: `/versions` and the
dependency answers do not name the platform (`fetchGemVersions` drops it); a yank
of a name that has no versions writes `null` under it, so that it is in `/names`;
after the last yank the name stays with an empty list; the checksum of a version
stays as it was when one before it is yanked.

### AdvisoryCache: state and actions

| Variable | Code |
|---|---|
| `config` | the configuration of the filter and of the check |
| `closeReturns` | whether the cache library's `Close` returns a second time, which gemfast leaves to it: `Close` sends on a channel that nobody receives from any more, and in the version that `go.mod` pins (akyoto/cache v1.0.6) it then blocks for ever. A library whose `Close` may be repeated is the other case, in which the rest of the module's behaviour is seen |
| `repo` | the files of the clone of ruby-advisory-db |
| `cache` | the advisories of each gem, as places in the order of the walk |
| `phase`, `place` | where `Refresh` is, and its walk |
| `up`, `closed`, `ticks` | whether the server listens, whether the cache was closed, days |
| `pc`, `ask`, `first`, `found` | each request's position, what it asks for, and what `isPatched` and `GetCVEs` returned |
| `walked`, `known`, `whole`, `calm` | history, read by properties only |

`Refresh` is `UpdateAdvisoryRepo` (the clone becomes anything, or stays as it is
when the pull fails, which is only logged; it may also never return, since go-git is
called without a context or a timeout), and then `Fill`: `CloseCache`, `CacheFile`
for each file, and `EndWalk` or `WalkFails`. `Tick` starts it every day. A request is
`Ask` (the filter), `CheckPatched` and `CheckUnaffected` (the two reads of
`GetCVEs`). A score is an integer of tenths; which versions an advisory calls
patched or unaffected, and which names a regular expression matches, is input.

The model follows the code where one may expect something else: the severity of
the first advisory that does not call the version patched decides alone, so that a
critical one after a minor one lets the gem through; that a version is unaffected
is not looked at when the first is refused; gems with a platform in their name
are never checked, since the platform is taken for the version; low scores of
CVSS v2 count as none, and a maximum of `low` refuses low too; during `Refresh`
the cache is empty or partial, and after a walk that failed it stays so for a day.

### Marshal and RubyMarshal

A stream is a sequence of tokens: signs, bytes of integers, and texts with their
length. Each function of `marshal.go` is an operator on a writer (what is
written, and the table of symbols) or on a reader. The table of objects of the
writers is left out: it never holds what is looked up in it. `RubyMarshal` numbers
symbols and objects as Ruby does, so that a link, which `DumpGemspecGemfast`
writes as a constant, gets what it points to or nothing. Its reader keeps the pairs
that follow a text and should say its encoding (`encodings`); no property is about
them.

What the model shows besides the properties: every text of a gemspec after the
first links the symbol of its encoding to symbol 0, which is `Gem::Specification`
and not `E`, because `encSymbol` (`marshal.go:117-127`) does not count the symbols
that are spelled by hand (231-250); `@version_requirements` of each
dependency links to object 21, which is the text `3.3.3`, though the code calls the
constant `EMPTY_STRING` (36, 461); `DependenciesAreRead` is about the four fields
before it; the last pair's symbol
lacks its `@`; the required versions of Ruby and RubyGems are always `2.6.0` and
`3.3.3`, whatever the gem says; `encInt` has no case from -0x100000 to -0x10001; an
index file cut before the end of its count of specs, so one that is empty too, may
load as an empty one (the count of 123 specs or more takes several bytes).

## 3. Runs

| Run | Instance | What it shows |
|---|---|---|
| `RepositoryYanks` | 2 uploads, 1 yank, 1 name, 3 versions, 2 platforms, no kill, fairness | `AckedIsIndexed`, `IndexedHasGemspec`, `LatestIsNoOlder`, and `EveryRequestIsAnswered` |
| `RepositoryCrashes` | 2 uploads, 1 yank, 2 names, 3 numbers (one prerelease), 1 platform, 2 contents, 2 gems that run together (foo 11.0 and foo1 1.0), 2 kills, symmetric requests | `TypeOK`, `ListedIsServable`, `AckedIsPublished`; `CompressedAgrees` while nothing was killed; `CompressedIsWhole` after any kill; `IsRegistry`, the refinement of `GemRegistry` until the first yank |
| `CompactIndex` | 2 uploads, 2 yanks, 1 name, 2 versions, kills and other transactions anywhere | `TypeOK`, `EachVersionOnce`, `ChecksumCoversInfo`, `AckedIsListed`, `YankedStaysOut` |
| `Advisories` | 1 request, 12 gem files of 2 gems, 3 advisories, 4 configurations, 2 days, fairness | `TypeOK`, `RefusedForCause`, `AdvisedIsRefused`, `WorseIsNotAccepted`, `RefreshEnds` |
| `Functions` | every set of at most 4 of 12 gem files; every metadata with up to 2 dependencies and any optional fields missing; 17 integers | `FindsNothingElse`, `FindsTheLastOfAName`, `MergeIsLatest`, `IntsAreRead`, `SpecsAreRead`, `TornIsRefused`, `ClientsReadLists` (indexes and dependency answers), `DependenciesAreRead` |
| `MirrorDownloads` | 3 requests for the gem, 1 for the gemspec, 3 parts, 1 refusal, 1 broken connection, 1 kill, symmetric requests | `TypeOK`, `GemRestsWhole`, `SpecRestsFilled`, `WholeIsIndexed`, `WarmIsServedWhole` |
| `Users` | 3 requests of any kind, 3 users (one of them `admin`), 4 configurations, 2 starts, symmetric requests | `TypeOK`, `OnlyConfigured`, `NothingIsAnothers`, `LossNeedsOverlap` |
| `YankedListed` | 1 upload, 1 yank | violated: a yanked gem stays in the compressed indexes |
| `GemspecFields` | metadata with up to 1 dependency | violated: a gemspec that lacks a field says it has fewer pairs than it has, and a client misses the last ones |
| `AdvisoryUpdater` | as `Advisories` | violated: after the first refresh no other one ends, since the second `Close` never returns |
| `InfoChecksum` | 2 uploads of 2 versions | violated: the checksum in `/versions` is not that of the answer to `/info` |
| `PartialGem` | 2 requests for the gem, no failure of any kind | violated: a request during a download gets the part that is there |

Why the bounds are enough: the mutex admits one handler, so two uploads and a
yank give every pair of handlers that can meet, in and out of the mutex; the
properties speak of one gem at a time, or of two versions of a name; three
versions give a greater, a smaller and a prerelease one, and in `RepositoryYanks` two
platforms give the one with and the one without a suffix. Two gems that run
together give an upload that is acknowledged and not added to its index; two names
let a yank be of another name than an upload. Two kills give a kill during the
repair of a kill. Symmetry is used over requests
of one kind, in runs where no action and no property names a particular one. Deadlock is not
checked: when all requests of an instance have been made the system rests.

For the mirror three requests give a writer, one that truncates its file, and one
that comes later; three parts give a first one, one in the middle to lose, and a
last one. A refusal is the one failure after which `GemRestsWhole`,
`SpecRestsFilled` and `WholeIsIndexed` still hold. A connection that breaks
during the copy leaves a part of the gem that every later request is served, and
one that breaks before it leaves an empty gemspec; a kill does both, or leaves a
whole gem that is in no index. So these three say `breaks = 0 /\ kills = 0`, and
they are not about the row's checksum: of two overlapping downloads one may hash
what the other has truncated.

For the users three requests give a login and two requests of its session that
overlap, three GitHub logins of one user at a time, and, without authentication,
two changes and a deletion that overlap. The configurations give a local user;
then no local user but another password of the admin; GitHub users, whose default
role lets them change others; and no authentication. Two starts give each mode
after each other one, with the users and the sessions that it left. With two
users, four requests were checked too.

For the list of versions two uploads and two yanks give each pair that overlaps
and a third request that does harm with what the first left (an upload that
decodes after two writes needs two others to write). The mutex keeps a third upload
from overlapping; three uploads and one yank were checked too.

For the advisories one request is enough: requests write nothing that another
reads. The three files give two advisories of one gem of which the second is worse
and patched earlier, and one that has a score of CVSS v2 only. Two days give a
second `Close`, and a clone that lost files.

For the functions the lengths 122, 123 and 256 of names, versions and platforms
are those where the encoding of a length changes, and the integers are those
around each bound of `encInt` that a length or a count can have, and the negative
ones outside its gap. The texts of a gem are told apart by its ranks and have those
lengths. Four files give a list with three versions of a name
beside another name. A state is one input, so a property is a statement about
all of them.

The properties with `crashes = 0` say what holds as long as the process is not
killed. A kill does break them, and the model shows how: an index removed and not
replaced, a plain index newer than its compressed one, a gemspec file created
and never written, which later uploads skip. Over kills `ListedIsServable` says that
an index has nothing too many, and `CompressedIsWhole` that it is there. Of a gem
that runs together with another `AckedIsIndexed` and `AckedIsPublished` say nothing
(`Unlike`, `UnlikeVersion`).

Two properties also depend on yanks. `CompressedAgrees` needs that none came: a
yank rewrites the plain indexes only. `IndexedHasGemspec` says less of a state
with yanks, for two reasons that the model shows. A yank walks the gem files and
lists all it meets, so that it publishes a gem whose upload has stored its file
and still waits for the mutex: that gem has no gemspec yet. And a yank removes
the gemspec of the name and version without the platform (`rubygems.go:195`),
so that yanking a java gem takes the gemspec of the ruby one. So with yanks
the property is about acknowledged gems that are `Spared`.

### Fairness

`WF` on the file moves and on the start: a process that runs gets on. For each
request weak fairness on its handler once it is called, and strong fairness on
the step that takes the mutex: the mutex becomes free again and again while
others use it, and Go's `sync.Mutex` in its starvation mode hands over to the
waiter that has waited longest (over a millisecond), so no waiter is passed over
for ever. No fairness on the arrival of requests, nor on kills.

In `AdvisoryCache` weak fairness on `Fill`: it runs in the start of the server,
and then in a goroutine of its own, and waits for nothing outside. None on
the clone or pull, which may hang, nor on the ticker or on requests. So
`RefreshEnds` is about a walk that has begun; that one begins after each pull is
`UpdaterUpdates`, which is violated. The other modules have no liveness property.

## 4. Proofs

`GemRepositoryProofs`, for every value of the constants that satisfies
`SpecListAssumption` and `RepositoryAssumption`:

| Theorem | Statement | Argument |
|---|---|---|
| `TypeCorrect` | `Spec => []TypeOK` | `TypeOK` with one more conjunct (`Labels`, the positions at which `at` moves) is inductive except for the content that `BeginUpdate` reads, which is guarded |
| `ListedServable` | `Spec => []ListedIsServable` | `TypeOK /\ MutexInv /\ StorageInv`: no gem file of the letter directories is ever removed (the path a yank removes is never one an upload stores at), so everything read from or built of stored gems stays within them wherever it waits: rows read, the list of a walk, temporary indexes |
| `AckedPublished` | `Spec => []AckedIsPublished` | adds `PublishInv`: under a name nobody yanks from, the rows an upload has read are the current ones until it writes, because only the holder of the mutex writes rows of such a name; what an upload finds there for its own version is that version, if it is `UnlikeVersion` |
| `AckedIndexed` | `Spec => []AckedIsIndexed` | adds `IndexInv`, two conjuncts: `WholeInv` (an index file that is removed or truncated at this moment is the one `at` points to) and `KeptInv` (every acknowledged and not withdrawn gem is in each whole index file, in the indexes built to replace them, if no other gem runs together with it (`Lasting`); and every one is in the list a yank is about to write back). A merge drops of what it read only what has the id of another gem (`UpdatedIndexKeeps`); a rewrite drops the entry of its own yank only, which `FindIndexOfFinds` identifies; `NoPanic` says no upload meets a truncated index. Needs that the process is not killed |
| `RepositoryIsRegistry` | `Spec => IsRegistry` | `IsRegistry` says that the first state is one of the registry and that each step is one of its steps, or a stutter, until the first yank is asked for: a yank removes rows, which the registry never does. Adds `RegistryInv`: the content an upload holds was delivered; `SaveUpload` maps to `Deliver`, `PutVersions` to `Publish` or a stutter, all else to a stutter |

`GemRepositoryIndexProofs`, for the same constants:

| Theorem | Statement | Argument |
|---|---|---|
| `LatestNoOlder` | `Spec => []LatestIsNoOlder` | `NewestInv`: `WholeInv`; `ListedInv` (a yank's walk, and the list it writes back, miss no acknowledged gem that is kept); `LatestInv` (the whole latest indexes, and the one built to replace them, match every acknowledged release). `MergeMatches`: a merge drops an entry only for one of the same name that is greater. A yank partitions what it listed: `LatestMatches` says that the latest of finitely many gems matches each of them, from `BoundInv` (the numbers of the stored gems are bounded, which each step keeps) by taking the greatest number |
| `CompressedAgree` | `Spec => []CompressedAgrees` | `AgreeInv`: of each index the compressed file says what the plain one does, but between the plain file's removal and the compressed one's move, when the plain file says what the temporary index does |
| `CompressedFound` | `Spec => []CompressedIsWhole` | `CompressedInv`: in a server that serves, a compressed index is missing only between its removal and the move of the new one; none is ever truncated, so a start that finds none missing finds all whole; a start that builds them has each that it has passed in place. Holds over kills anywhere, in the start too |
| `IndexedDescribed` | `Spec => []IndexedHasGemspec` | without yanks `GemspecInv`: an empty gemspec has an upload about to write it, and all that is in an index, or in a temporary one, has a whole gemspec. With yanks `SparedInv`: the same of each spared gem's gemspec, which is whole from its upload's `WriteGemspec` on, so when it is acknowledged. Needs `WholeInv`, since a panic would lose the upload that is about to write |

`MutexInv` says that a handler is at a step between `Lock` and `Unlock` exactly if
it holds the mutex, and that none runs while the server is down. The invariants
are in `GemRepositoryInvariants`, and TLC found them to hold on the instances of
the runs.

`MirrorCacheProofs`, for every value of the constants that satisfies
`MirrorAssumption`:

| Theorem | Statement | Argument |
|---|---|---|
| `MirrorTypeCorrect` | `Spec => []TypeOK` | needs `OpenInv`: a handler writes and reads only through a descriptor it has opened |
| `WarmServed` | `Spec => []WarmIsServedWhole` | `WarmInv`: from the first warm request on, the gem is whole and no request is fetching it, so none will; holds through refusals, broken connections and kills |
| `GemSettles`, `CachedIsIndexed` | `Spec => []GemRestsWhole`, `Spec => []WholeIsIndexed` | `GemInv`: a file with a first part is whole or has a writer whose earlier parts are all there; a file without one has a writer or a handler past its download that will fail to read it and remove it; a file without a row has somebody before `SaveRow`. At rest there is nobody, so only the empty and the whole file are left |
| `SpecSettles` | `Spec => []SpecRestsFilled` | `SpecInv`: an empty gemspec has somebody who has written nothing to it yet |

`UserStoreProofs`, for every value of the constants that satisfies
`UsersAssumption`:

| Theorem | Statement | Argument |
|---|---|---|
| `UsersTypeCorrect` | `Spec => []TypeOK` | needs `HandlerInv`: what a handler holds at each step (a request that writes a user has read one; the page, read and write steps have asked for a token or a role), that handlers run in a server that is up only, and that the GitHub steps run in GitHub mode |
| `UsersAreConfigured` | `Spec => []OnlyConfigured` | adds `ConfiguredInv`: in a server with configured local users the copies that wait to be written back are proper users too, because a restart loses every request that read before it; and between the two writes of start-up the admin has the configured password already |
| `LossesOverlap` | `Spec => []LossNeedsOverlap` | adds `LossInv`: on a user outside `overlaps` at most one request is between its read and its write, and it holds the user as store and ledger do. One lemma, `StaysAlone`, says which steps keep this; every handler's step is one of its three kinds |
| `UsersAreNotMixed` | `Spec => []NothingIsAnothers` | adds `OwnInv`: the user in the store, each copy, each session and the access token of each request are all one user's own, and `LoginInv`: the claims of a session stay, and who is asked to get a gem token has logged in. `OwnStep` reduces a step to what it writes, reads or issues, since what was asked for and what was granted only grows |

`CompactIndexProofs`, for every value of the constants that satisfies
`CompactAssumption` and `AbsentAssumption`:

| Theorem | Statement | Argument |
|---|---|---|
| `CompactTypeCorrect` | `Spec => []TypeOK` | inductive with `RoleInv`: uploads are at the steps of uploads, yanks at those of yanks |
| `VersionsAreOnce` | `Spec => []EachVersionOnce` | `ListInv`: neither the stored list nor one that a handler has read has a version twice, so a deletion removes the one match and an addition is of a version not there |
| `ChecksumsCover` | `Spec => []ChecksumCoversInfo` | `StoredInv`, of the stored list and of those read: each row's checksum covers the rows before it, and what it covers besides was asked to be yanked |
| `AckedAreListed` | `Spec => []AckedIsListed` | `LockInv` (one upload between its steps at a time) and `KeptInv`: a version that is stored, and neither withdrawn nor exposed, is in the stored list and in every list that is about to be written back |
| `YankedStayOut` | `Spec => []YankedStaysOut` | `YankInv` and `GoneInv`: a version that is gone is in no list that is about to be written back either |
| `NameIsRegistry` | `Yanks = {}` implies `Spec /\ []NoneReused => Registry!Spec` | `FreshInv`: what an upload has read is what is stored, until it writes. `BeginUpdate` maps to `Deliver`, `Store` to `Publish` or a stutter, all else to a stutter. Without `NoneReused` it is false: an upload that decodes reused bytes takes the list for empty and drops what was published |

`AdvisoryCacheProofs`, for every value of the constants that satisfies
`AdvisoryAssumption`:

| Theorem | Statement | Argument |
|---|---|---|
| `AdvisoriesTypeCorrect` | `Spec => []TypeOK` | inductive; that the first of the unpatched advisories is one needs that a nonempty set of places has a least one |
| `RefusalsHaveCause` | `Spec => []RefusedForCause` | `KnownInv` (what the cache has of a gem are files of the clone, now or earlier, about that gem) and `CauseInv` (what `isPatched` returned is one of them, whatever the cache is by now) |
| `WorseIsRefused` | `Spec => []WorseIsNotAccepted` | `BandsMeet`: in both versions of CVSS the band of a score one tenth higher is the same or the next one that the function returns (in v2 medium follows none); `Accepted` is monotonic in the bands |
| `AdvisedAreRefused` | `Spec => []AdvisedIsRefused` | `FillInv` (the cache holds the files of the walk so far, and all of them once it is whole) and `CalmInv`: a request that began on a whole cache, which was not closed since, has read from the same one |

`FunctionProofs`, for every value of the constants that satisfies
`SpecListAssumption`, `EncodedAssumption` and `SymbolAssumption`; that an input is
a finite set of at most `MaxSpecs` gem files, or an integer that `encInt` encodes,
is the invariant `InputInv`:

| Theorem | Statement | Argument |
|---|---|---|
| `FindsNoOther` | `Spec => []FindsNothingElse` | the scan answers only with a place where it saw the spec (`FindsOnly`) |
| `FindsLastOfName` | `Spec => []FindsTheLastOfAName` | `SearchAnswers`: in a list sorted by name the binary search answers with a place of the name if there is one. A part that fails would have a smaller part that fails, so there would be a shortest one (`LeastNumber`), and of its two halves the search goes into the one that has the name. The walk is sorted by name (`WalkByName`); from any place of the name the scan reaches its last spec (`FindsLast`) |
| `MergeEqualsPartition` | `Spec => []MergeIsLatest` | the latest index of a finite set has of each released name the greatest number and no other (`LatestIsGreatest`, `OneLatest`), and a merge keeps the greater of two (`MergeAgrees`) |
| `IndexReloaded` | `Spec => []SpecsAreRead` | `DumpReads`: after each spec the reader stands where that spec's writer stopped, with the specs so far. For one spec, `TupleReads`, from `IntHeld` (an integer anywhere in a stream), `StringReads` and `VersionReads`; the writer's table of symbols is in one of three states (`Table`), which say which symbols are spelled and which are links, and the reader takes both forms where they can occur |
| `TornRefused` | `Spec => []TornIsRefused` | the cut stream is read beside the whole one: as long as nothing lies past the cut the two readers are the same (`Goes`, one lemma for each part of a spec), and a spec that reaches past it ends in a reader that has failed (`TupleRefused`: its last sign is not there). A stream cut in its head has a count that is not negative (`TornCount`), and no spec behind its end (`NoTupleAfter`): read without error, it counted none |
| `IntsRead` | `Spec => []IntsAreRead` | `Counts`: how many bytes an integer takes, by the tables of `encInt`; `Digits`: the bytes are its digits to the base 256 in two's complement; `SumsUp`: what `readInt` adds up, for one to four bytes; the sign comes back because the bytes not written would be zeros, or ones |

`EncodedAssumption` says that only integers are written that `encInt` has a
case for (`Encodes`); the callers give it lengths and counts. Of -0x100000 to
-0x10001 it writes nothing. Of the lengths of texts and of the number of specs
it says that they are below 2^30 (`Countable`), beyond which `encInt` writes
nothing either. `SymbolAssumption` is the lengths of the two symbols of an index:
true of the strings they are, but the provers know nothing of the length of a
string; TLC evaluates it.

What a recursive function returns cannot be proved by induction here, since the
library's induction rules take an operator. Where it mattered (the binary search,
the order of the walk, the greatest version, the sum of bytes, the specs of an
index) the proof takes a least counterexample (`LeastNumber`: a set of naturals
has a least one, by the library's theorem that `<` is well-founded on them), or
unfolds the at most four steps there are. `OverNumbers` is the same once and for
all, for the set of numbers up to which something holds. That there is a function
as `DumpSpecs` and `LoadSpecs` define theirs (`DumpExists`, `LoadExists`), which a
proof needs before it may speak of the value of one, is shown in the same way.

Only model-checked: `EveryRequestIsAnswered` and `RefreshEnds` (liveness under
fairness is out of the prover's reach), and `ClientsReadLists` and
`DependenciesAreRead` of `MCFunctions`, which are about `RubyMarshal`: it reads
values within values by recursive operators, which the provers do not accept.

## 5. Not modelled

- Gzip, tar, YAML and JSON: conversions of one value, with no state of their own.
  The gem reader keeps a temporary directory during one call; its two reads of
  the file are in `MirrorCache`. A gem without a name, a version or an author
  makes `DumpGemspecGemfast` panic after its row is stored; uploaded gems are valid here.
- Routing, response texts, redirects, the UI (but its page of tokens, in
  `UserStore`), searches and listings: they read the state of the other
  components and keep none.
- Configuration, command line, license, Caddyfile, packaging: read once, or build
  files. `Reindex` has no caller.
- The OAuth exchanges and GitHub's answers, git, bbolt and the cache library: outside
  the repository, modelled by how it uses them.
- In `UserStore`, the check of a gem token or of the rights of a request, unless it
  decides what is changed; expiry and refresh of a JWT.

## 6. Plan

1. Core (done): `SpecList`, `GemRepository`, `GemRegistry`, their runs and
   their theorems.
2. `MirrorCache`, `UserStore`, `CompactIndex`, `AdvisoryCache`, `Marshal` with
   `RubyMarshal` (done), their runs and their theorems.
3. The indexes of `GemRepository` and the functions of `SpecList` and `Marshal`
   proved (done).
4. `CompactIndex` shown to implement the same registry as `GemRepository` (done).
   `LoadSpecs` shown to read what `DumpSpecs` wrote and to refuse what is cut
   short (done). No proof is left of a safety property within the provers' reach.
5. Models left: tokens that expire in `UserStore`.
