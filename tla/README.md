# abstraction-cas in TLA+

A verification development for `abstraction-cas`: a library in Go, Python and
C++ that keeps one small shared file correct while threads, processes and
languages read it, write it against a base and change it. The modules here are
translated from the code in `src/`; TLC checks small instances of them, and
TLAPS checks proofs that hold for every instance.

    tlc -config FileCasFaults.cfg MCFileCas      # one run
    tlapm FileCasProofs.tla                      # the proofs about FileCas

## Inventory

| part | source | state | operations |
|---|---|---|---|
| Go provider | `go/cas.go` | none of its own: the data file, the lock file, the staging directory | Read, ReadLimit, ReadContext; Write; Change, ChangeLimit, ChangeLimitContext; Sweep |
| POSIX backend | `go/platform_other.go` | the lock on the open lock file | flock, tryFlock, syncDir |
| Windows backend | `go/platform_windows.go` | the same | LockFileEx, transient errors |
| Placement | `go/placement.go` | the absolute root and side directories | NewPlacement; the four calls on `<root>/<rel>` |
| Bounded and file stores | `go/api/*.go` | a limit | Read, Write, WriteContext |
| Python provider | `python/abstraction_cas.py` | the set of targets each thread holds | read, write, change, sweep, Placement |
| C++ provider | `cpp/src/cas.cpp`, headers | none | read, write, change, sweep, Placement |
| Generated codecs | `rec.go`, `_codec.py`, `rec.h` | none | encode and decode a Value, in text and binary |
| Packaging, CI, tests | `scripts/`, `.github/`, `mixed.py`, `*_test*` | - | not part of the program |

Callers meet in the file system only. A writer opens and locks the lock file,
reads the value, computes the next one (for a Change, by calling back into the
caller's edit while it holds the lock), stages it in a temporary file, syncs
it, renames it over the data file, syncs the directory and closes the lock
file. A sweep lists the staging directory under the same lock and removes the
staged files in it. A read takes no lock: it opens the name and reads what it
has opened.

What is hard: edits that run between the read and the rename; readers and
sweeps at the same time as a writer; writers killed at any step; the error and
cancellation paths, each with its own cleanup; contexts that end between the
last check and the rename; errors that come after the value is in place;
waiting for a lock whose holder does not let go. `PROJECT.json` lists each of
these at its line with the property that covers it, or with the reason why none
does.

What makes each part correct:

- *provider*: it is a linearizable register with compare-and-set and
  change-under-lock; no reader, edit or path ever sees half a file; writers
  leave no staged file unless they are killed; sweeps take nothing from the
  living; nothing is deleted; every call returns, and a deadline bounds the
  wait for the lock;
- *placement*: two records never share a file, whatever their names, and the
  root holds data files only;
- *nesting*: changes nested in one order never deadlock, and a thread that
  would block on itself is told;
- *durability*: an acknowledged value survives a power cut;
- *retries*: every loop ends, but for a rename that does not return;
- *codecs*: decoding gives back what was encoded and refuses the rest, and
  keeps missing apart from empty.

## Modules

| module | models | |
|---|---|---|
| `CasRegister` | what the library promises for one path, with no files in it | abstract specification |
| `FileCas` | the protocol of `go/cas.go` on one path on POSIX, with `platform_other.go` and `api/bounded.go` | implements `CasRegister` |
| `Denials` | `FileCas` where opens and renames are denied, with `platform_windows.go` | extends `FileCas`, and implements it |
| `Durability` | `FileCas` over a disk that a power cut takes back to what has reached it | extends `FileCas` |
| `Names` | the names of a record's files, beside it and through a Placement (`placement.go`) | operators |
| `Records` | many records in one tree of directories, and the inodes under their names | extends `Names` |
| `Nesting` | edits that make calls, and Python's list of the files a thread is inside of | |
| `Text` | the strings of a document: escapes and UTF-8 (`rec.go`) | operators |
| `Base64` | the bytes of a value as text (`rec.go`) | operators |
| `Documents` | the reader of a Value document, token by token, and what Encode writes | extends `Base64` |
| `...Proofs` | theorems about the module of that name; `CodecProofs` has those of `MCCodec` | TLAPS |
| `MC...` | small instances of the module of that name; `MCCodec` is that of the last three, with the standards they are held against | TLC |

`FileCas` is the middle: `Denials` and `Durability` are the same protocol under
an operating system that refuses and a machine that fails. `Records` and
`Nesting` take from it that a call locks, reads once and replaces what it has
read, and ask what happens between calls on several records, by name and by
edit. The three codec modules stand apart: the library never looks into a
value; `Value` is what travels in the schema's `Store` messages.

### CasRegister

One value, and for each caller the phase of its call: waiting, observed (a read
has its value), applied (a write has put its value in place), answered. `Apply`
is the instant of a write or change, `Observe` that of a read, and `Answer`
that of a call that changes nothing; `Answers` says, for each answer, what must
be true of the value at that instant (for instance that `moved` is only given
when the base differs, and `ok` without a write only when the edit left the
value as it is). The one answer that tells nothing is `oserror`: after `Apply`
it may still be given, as the code does when only the directory sync fails.

### FileCas

A caller is one call in progress; `pc[p]` is the point it has reached.

| `pc` | code (`go/cas.go` unless named) | actions |
|---|---|---|
| enter | `lockAtContext`: first check, directories, open | Enter |
| lock, wait | `flock`; `tryFlock` and the `select` | Acquire, LockFails, TryAgainLater, Retry, GiveUp |
| current | read under the lock | ReadCurrent |
| edit | the caller's edit, and the checks on its answer | Edit |
| compare | `writeReadAtContext` up to `ErrMoved` | Compare |
| stage, fill | `stageIn` | Stage, Fill |
| staged | the checks after staging | Recheck |
| rename, sync | the rename, `syncDir` | Rename, SyncParent |
| list, remove | `sweepAt` | List, RemoveStaged, Swept |
| open, load | `readFileLimit` | Open, Load |
| return | the deferred unlock, and the answer to the caller | Return |

The disk is `target` (the inode under the data file's name), `temps` (the
inodes under staged names) and `file` (what each inode holds, `Torn` while it
is being written). An unlinked inode lives on as long as a reader's handle is
on it. `Faults` names the system calls that may fail; `"kill"` in it lets any
caller end at any step, which closes its handles and releases its lock. A
process with several callers dies as several kills in a row.

Change, ChangeLimit and ChangeLimitContext are one kind of call with a limit and
a deadline that may be absent, and so are Read, ReadLimit, ReadContext and
ReadLimitContext. `Write` has neither. The write of the bounded store is the
change whose edit answers `moved` unless it is shown the base (`Over`). Edits
are arbitrary functions; the proofs quantify over all of them.

Left out: the calls that are refused for what they are given before they look at
any file, which are those with an invalid limit (go/cas.go:27, 47 and 84) and a
write of nil through the bounded store (go/api/bounded.go:27-29; `Write` and
Change refuse nil under the lock, which is modelled); the count that a sweep returns, the text of errors, file modes, the
regular-file test of a bounded read, and the retries of transient errors, which
`platform_other.go` never reports: they are in `Denials`.

Beside the actions stand a few definitions "as a slip would have it": plausible
bugs of the same code, which no action uses. Putting one in the place of the
definition that follows it makes TLC find the property it would break; the
pairs are listed in `PROJECT.json` under `mutants`.

### Durability

Beside what callers see (`FileCas`) it keeps what the platter holds: `onDisk`,
the inode its directory has under the data file's name, and `inked`, the inodes
whose bytes are there. `f.Sync` in `stageIn` inks a staged file before it can
be renamed; `syncDir` writes the directory before a write answers ok; the
kernel may write either earlier. A rename reaches the platter whole or not at
all. A power cut ends every call; the name then holds what the platter had, of
the staged names any may be left, and files that were not synced are torn. The
history variable `since` holds the inodes the name has had since a write or
change was last answered ok: `AcknowledgedSurvives` says the platter has one of
them. It assumes a file system that syncs directories: on one that answers
`EINVAL` or `ENOTSUP`, `syncDir` reports success and promises nothing. The
directories themselves exist beforehand.

### Denials

Windows answers access denied, or a sharing violation, to an open or a rename,
and the code tries again (`readFileLimit`, `retry`; in Python `_read_native` and
`_rename_over`, in C++ `open_for_read` and `replace`). Any try may be denied, and
over SMB a rename always is while a reader of ours has the file open (`OverSMB`,
`Held`). `DeniedOpen` and `DeniedRename` are one denied try: again while there
are tries left, and for an open while the context lasts; after that an error like
any other, the rename's with its staged file removed. `Granted` is a try that is
not denied, and every step of `FileCas` that is no try: each is possible on
Windows too (its `syncDir` does nothing, which is a sync that succeeds). The
constants stand for 2000 and 1000 tries. A call in `Hasty` has a deadline so
short that its tries never run out before it.

README.md:204-207 of the repository reports that over SMB the rename of Go's
`os.Root`, denied, does not return: a call killed after 90 s, its staged file
left behind, and others under a polling reader that never returned, where
Python's and C++'s answered the denial. `Stall` is that try, for the callers in
`Stalling`: the call stays where it is, with its lock and its staged file, and
neither its tries nor its context are looked at. It may be killed; whether such
a try ever comes back is left open (`Recover`, which no fairness asks for).

### Names and Records

A path is the sequence of its names and a name the sequence of its words, split
at its dots, because that is what tells `n.lock`, `n.x.tmp` and
`n.lock.x.tmp` apart and nothing finer is needed: the unique part of a staged
name has no dot. `Beside` and `InSide` are `beside` and `place`; `Accepted` is
what `NewPlacement` checks, `Covers` what `place` refuses, `StagedName` the test
of a sweep, and `CommonDir` the directory that `rename` opens as its root.

`Records` gives each name an inode. A lock is held on the inode its name had
when it was opened; a rename takes whatever has the staged name; a sweep, which
is one step under its lock, takes whatever looks staged; `MkdirAll` makes the
directories above the target and above the lock, and stops at a file. Each
write puts a new inode in place, so that the inode stands for the value.
`Apart` says what names must be for the records to be independent; it is not an
invariant but a condition on the calls that are made.

### Nesting

`stack[t]` is the edits thread t is inside of, with what each was shown;
`want[t]` the file whose lock it waits for; `holder` the locks, which belong to
handles, so that a thread waits for itself as for any other. `listed` is the
set `_held.paths` of Python's `_locked_at`. A step of `Nesting` is several of
`FileCas`: the lock is taken and the file is read (`Get`), the edit runs, and
the replacement is made or not before the lock goes (`End`). What the inside of
such a step does is `FileCas`'s subject. `Nests` says which file an edit of
which file may call on.

### Text, Base64, Documents

These are `Encode` and `Decode` of a Value. A string is read in pieces: a byte,
a backslash and a character, or `\u` and four digits; `Str` is `str`, with
`escape`, `hex4`, `appendRune` and `validUTF8`. `Binary` and `EncodeBinary` are
`binary` and `encodeBinary` on digits in the place of characters. `Documents` is
`decodeValue` and `Decode` as a machine that takes one token at a time; the
document is whatever tokens it meets. Of `Encode` the white space is left out,
which the reader passes anywhere.

## Runs

| run | instance | shows |
|---|---|---|
| `FileCasFaults` | 2 callers, 3 inodes, 12 calls, every fault | TypeOK, WholeOrNothing, LiveStageSurvives, NothingLeftBehind, NeverDeleted, and ActsAsRegister: FileCas implements CasRegister |
| `FileCasContend` | 3 callers, 4 inodes, one call of each kind, kills | EditSeesTruth, SweepIsComplete |
| `FileCasQuiet` | 3 callers, polling and blocking, failing renames, kills | CallsReturn |
| `FileCasDeadline` | 2 callers, edits that may hang | DeadlineBoundsTheWait |
| `DurabilityWriting` | 2 callers, power cuts, kills, failing renames and syncs, calls that write when they answer ok | AcknowledgedSurvives, WholeAfterPowerCut |
| `DurabilitySettling` | the same, with a change that may leave the value as it is | a violation of AcknowledgedSurvives, below |
| `Denials` | 2 callers over SMB, one whose renames may stall (Go) and one whose do not (Python, C++); reads with and without a deadline, a change with one and a sweep; denials that come and go or never end, every fault of a try, kills | KeepsToTheProtocol (Denials implements FileCas), OnlyStallsKeepCalls, DeadlineEndsDeniedOpens |
| `Records` | 2 callers, a side directory inside the root, records `n`, `n.lock`, `n.x.tmp` and `n/n`, and a path in the side directory | StagedFilesStay, RootHoldsOnlyData, EveryFileIsServed, RecordsChangeByTheirWriters, LocksStay |
| `RecordsLockName` | 2 callers, records `n` and `n.lock` without a placement | a violation of LocksStay, below |
| `Nesting` | 3 threads, one in Python, 3 files called on in one order, kills | NoStandstill, PythonIsTold, NestedEditsSeeTruth, NestedCallsEnd |
| `NestingCrosswise` | 2 Python threads, two files in opposite orders | a violation of NoStandstill, below |
| `Codec` | documents of up to 12 tokens with 5 strings; strings of up to 4 of 28 bytes, or of 23 pieces; base64 of up to 8 of 5 characters, values of up to 7 of 4 bytes | AcceptsOnlyDocuments, RefusesNoDocument, EncodedSurvives, TakesWellFormedText, EscapedTextReadsBack, ReadsStringsOfJSON, ReadsTheStandard, BytesSurvive |

### Where the code and its documentation part

1. *Acknowledged, and taken back.* README.md:214 of the repository says that
   every writer flushes the directory after the rename, since a power cut may
   otherwise take back what was acknowledged. `DurabilitySettling` shows how it
   still may: a writer renames its file and is killed before `syncDir`; a Change
   then finds the value already as its edit wants it and answers nil
   (`go/cas.go:158`), flushing nothing; the power is cut, and the previous value
   is back.
2. *A lock file replaced.* README.md:144-146 says that a lock file is never
   written, truncated or deleted. Without a placement a record may itself be
   called `n.lock`, and its writers rename over the lock file of `n`
   (`RecordsLockName`).
3. *Nesting that does not end.* README.md:256 says that nesting on a different
   file is fine. Two callers that nest in opposite orders wait for each other,
   in Python too, where Reentrant is raised for a thread's own files only
   (`NestingCrosswise`).

The second has two relatives, which no run shows. Without a placement a record
called `n.x.tmp` is removed by a sweep of `n`, although go/cas.go:234-236 says
that every staged file a sweep finds is a dead writer's. Under a Placement the
lock of `n` and the side directory of `n.lock/n` have one name, and whichever is
made second fails, although go/placement.go:20-24 speaks of every file under the
root. A Placement has neither the second divergence nor the first relative: that
is the theorem `PlacementKeepsApart`.

*Bounds of the protocol.* Nothing counts: the state graphs are finite by
themselves, and calls go on for ever. Two values are enough to tell a stale base
from a current one and a record within the limit from one over it. Three inodes
hold the data file, an orphan and a staged file; the fourth lets a reader keep a
replaced file open meanwhile. When no inode is free, creating a file fails, as
on a full disk. Two callers race every pair of steps; the third lets two wait
for the lock of one. Callers and inodes are interchangeable, so the safety runs
use symmetry; the runs with liveness do not.

*Bounds of the rest.* `ReadTries` and `RenameTries` are small: the loops look at
the count for its end only. In `Records` five inodes hold two lock files, two
data files and a staged one at once, and two callers of any two records meet in
every order; when none is free, whoever would create a file waits, which cuts
off runs in which three records are busy at once. One unique part is enough for
a dead writer's name to be met again. In `Nesting` three threads and three files
let all of them wait in a ring. The run of `Text` takes its bytes from both
sides of every range that UTF-8 and the code distinguish, and every byte that has
a short escape; four of them are the longest code point, and four pieces are two
pairs of surrogates, or one with something around it. `Base64` has two groups, so
that padding and stray characters may stand in one that is not the last, digits
with and without the bits that padding leaves unused, and values that end at each
place in a group of the second and of the third. `Documents` has 12 tokens (`MaxTokens`) where the
longest document without white space has five and its end, and strings for each
thing that the reader can make of one; the proofs need none of these bounds.

*Fairness.* `FairSpec` asks that each caller take its next step if it can:
goroutines and threads are scheduled, system calls end, edits answer. It does
not ask flock to be fair, and with it alone a waiter can be overtaken for ever,
by new calls. `QuietSpec` adds that calls stop coming; then every call returns.
`PatientSpec` asks nothing of edits: contexts end, and the `select` of
`lockAtContext`, which chooses at random between its timer and an ended
context, does not choose the timer every time (strong fairness of GiveUp).
`QuietDenials` is `QuietSpec` where a denied try is a step too, and where contexts
end and the `select` is as in `PatientSpec`; that anyone ever stops denying, or
that a stalled rename returns, is not assumed. So not every call ends there:
OnlyStallsKeepCalls says that a call that does not is stalled, or waits without a
deadline for the lock of one that is.
`Nesting`'s `QuietSpec` lets each waiter take a lock that stays free, and an
edit return some time if it comes back from its calls again and again: without
strong fairness an edit that calls for ever would be fair. It too stops the
calls that threads make of their own, since a waiter may be overtaken.

## Proofs

`FileCasProofs` proves, for any callers, disk, values, edits, calls and faults
that satisfy the named assumptions of `FileCas`, every safety property that the
runs check. The assumptions only say that the sentinels are not values, that
edits answer contents or errors, and that the calls are calls.

The inductive invariant is built in layers, each proved from the one before:

1. `Control`: types; the shape of a call at each step (which kind of call may
   be there and what it carries); and mutual exclusion: whoever is between
   acquiring and releasing is the holder. The type invariant is not inductive
   alone: what `Fill` writes is a value only because `Compare` has refused nil.
2. `Files`: the staged file of a writer has its name and, once filled, its
   data; the data file and every reader's handle are on inodes without a
   staged name, which nobody writes.
3. `Decisions`: a caller about to write holds the answer of its call to the
   value that is still there. It needs exclusion and that only a rename moves
   the value (`OnlyRenamesMoveIt`).

From these follow NoUpdateIsLost, NothingIsTorn, LiveStageIsSafe,
NothingIsDeleted, LeftoversAreOrphans and SweepsAreComplete (the last two with an
induction of their own), and FileCasIsARegister: with the mapping of the
INSTANCE `Register`, each step of FileCas is a step of CasRegister or none.

`DurabilityProofs` carries these invariants through power cuts (`PlatterHolds`):
what a cut leaves is a disk on which the protocol can start again, because
`Platter` says that what the platter names, what the name holds and what is
about to be renamed are all synced and finished. NameIsNeverTorn and
NoUpdateIsLostToPowerCuts follow. AcknowledgedIsDurable assumes
`EditsAlwaysWrite`, that no edit answers with the value it was shown, without
which the divergence above refutes it; its invariant `Acknowledged` says that a
writer about to answer ok still holds the lock, so that what it has synced is
what the name holds.

`DenialsProofs` proves that `Denials` implements `FileCas`, for any number of
tries: a denied try that is made again is a stutter, and the last denial is a
step of `FileCas` in which that open or rename fails, which is why
`DenialsAssumption` asks that these be among the `Faults`. What is proved of
`FileCas` then holds among denials: DeniedWritersLoseNothing,
DeniedWritersCleanUp, DeniedCallsActAsRegister. A stall changes nothing either,
and StalledCallsHoldTheLock says what it keeps: the call is at its rename, and the
lock is its own.

`RecordsProofs` has two halves. The first assumes `Apart` and proves the records
independent: `Inv` says that whoever is between acquiring and releasing holds
the inode that its lock's name still has, so that two callers of one record, or
of two that could stage one name, exclude each other; that what a live writer
has staged is under its name; and that what a caller has read is still the
record. From it follow NoNeighbourTouchesARecord, LocksAreForEver and
StagedFilesAreSafe. The second, PlacementKeepsApart, proves `Apart` for every
set of calls that all go through one accepted Placement, by the structure of
the names: a target lies in the root and outside the side directory, and the
lock and staged names of two records, which end in different words, determine
their records. RootIsClean joins the two. The calls must all go through the
placement, as placement.go:22-24 demands. Without a placement it is the records'
own names that must not look like their neighbours' files:
OrdinaryNamesKeepApart has `Apart` for names whose last word is neither `lock`
nor `tmp`, which `RecordsLockName` shows to be needed.

A third part is about room: `OutOfTheWay` says that where a file of one record
has the name of a directory above a file of another, it is because the one
record lies under the other. EveryRecordIsServed proves from it, and from
`Apart`, that a call fails only where two records cannot coexist. Its invariant
(`Known`, `Grown`, `Answered`) says that every name in use is a name of some
record's files and every directory one above them, that what is made stays made,
and that a failed call found one of these in its way; that the rename's
opened directory holds both of its names is a lemma about `CommonDir`
(CommonDirHoldsBoth). PlacementLeavesRoom has `OutOfTheWay` for every accepted
Placement whose records lie in directories with ordinary names and are not
called as a directory above the side directory, and PlacementServesItsFiles puts
the parts together. A directory called `n.lock` must be excluded: it is the
second relative above, and there a call does fail.

`NestingProofs`: a thread holds exactly the locks of the edits it is inside of,
each file once, and in Python its list is these files and the one it waits for
(`Inv`). OrderedEditsNeverStandStill assumes a rank of the files that `Nests`
only goes down, but for Python's own files; of a set of threads that wait for
one another, the one whose wanted file ranks lowest waits for a holder that
wants one ranked lower still.

`Base64Proofs` proves ValuesReadBack, for bytes of any number: group by group,
the four digits of three bytes are divided back into them. OneTextForAValue is
its companion: what is read is written as it was spelled.

`CodecProofs` proves, for inputs of any length, the five properties that hold
the codec of a string and of base64 against their standards. They are about
loops over the input, which the model writes as recursive functions, and an
induction is done by hand: of the places where two loops differ the least is
taken (`Least`), and the step before it shows that there is none. That a
recursive function exists at all is `Iterates`, for loops that stay in a set.
Each property of the run is one of these for the input of the moment; the theorems
that hold for every input whatever are ValidIsWellFormed, EveryStringIsEscaped,
StringsAreThoseOfJSON, BinaryIsTheStandard and ValuesReadBack. What the pieces of
a string mean has the letters of JSON's own grammar, but takes the bytes of a code
point from `AppendRune`, the reader's: RunesAreTabled proves that these are, for
every code point but a surrogate, a row of the standard's table and spell that
code point.

- ValidIsWellFormed, for WellFormedTextIsTaken: one code point as `validUTF8` takes it (`Taken`) is one
  row of the Unicode table (`Tabled`), for each length by the arithmetic of its
  bits (TwoBytes, ThreeBytes, FourBytes); since both loops then take the same
  step everywhere, they are one.
- EveryStringIsEscaped, for EveryStringReadsBack: after k pieces of what `esc`
  wrote the reader holds the first k bytes (OneByteReadsBack). The writer and the
  reader have a table of short escapes each, in the code as in `Text` (`Shorts`,
  `Letters`); that they agree is TablesAgree.
- StringsAreThoseOfJSON, for EveryJSONStringIsRead: after k pieces that may follow one another (`Follows`)
  the reader waits for a second half just where the last piece was a first one,
  and holds what they mean (OnePieceFollows, PiecesFollow, ReadMeans);
  WellSpelledFollows joins this with the grammar, which looks both ways.
- BinaryIsTheStandard, for EveryTextIsOfTheStandard: the standard counts bits, the code divides numbers
  of 24. Eight bits of the text are a byte of its group (EightIsAByte), and
  writing the bytes again gives back the text just where the bits that no byte
  takes are zeros (GroupWrittenAgain, BitsLeftOver).
- EveryValueSurvives: ValuesReadBack, as a property of the run.

`DocumentsProofs` carries `ReaderInv`: what has been taken so far is, for each
phase, a named beginning of a document, and key, seen and data are those of it.
ReaderTakesDocuments, ReaderRefusesTheRest and ReaderReadsEncoded follow, the
last with ValuesReadBack: together they say that the reader accepts the
documents and nothing else, whatever their strings and their length, and that
every value that Encode writes comes back.

## Only model-checked

- Liveness: CallsReturn, DeadlineBoundsTheWait, OnlyStallsKeepCalls,
  DeadlineEndsDeniedOpens and NestedCallsEnd, which the prover does not reach.
  Every invariant, and every action property, of a passing run is a theorem.
- The divergences, which are instances.

## Not modelled

- Readers of numbers, lists, maps and raw text in `rec.go`, and the writers
  beside them: the generator emits them for any schema, and nothing in a Value
  reaches them. The Python and C++ codecs are generated from the same
  schema for the same documents, and are not modelled a second time.
- Conversions at the edges of Python and C++ (bytes and str, UTF-16 paths,
  `\\?\` prefixes), file modes, and the wording of errors.
- Case folding and short names of Windows, links and mounts: `filepath.Abs` does
  not resolve them either, and one file under two names is outside the contract
  (placement.go:22-24).
- The clock: polls, sleeps and deadlines are steps that happen some time.
- Programs that write the file without its lock, and `flock` over network file
  systems that do not keep it: README.md states both as limits.
- New directories after a power cut: no call promises them.
- Packaging, CI, the schema's declarations, and tests.
