--------------------------- MODULE StateDownload ----------------------------
(***************************************************************************)
(* The download of a persistent state in parts                             *)
(* (src/full_node/state_helper.rs, with the client and the service of the  *)
(* overlay): a peer that has the state is looked for, three tasks fetch    *)
(* every third part of it without knowing its length, and the parts are    *)
(* put together.                                                           *)
(***************************************************************************)
EXTENDS Integers, FiniteSets, FiniteSetsExt

CONSTANTS
  StatePeers,     \* the peers of the overlay
  Holders,        \* those that have the state
  Lengths,        \* the lengths the state may have
  PartSize,       \* max_size
  Fetchers,       \* threads, numbered from 0
  MaxPartErrors,  \* the failed attempts at a part that are allowed
  MaxChecks,      \* the attempts to find a peer
  MaxDownloads    \* the attempts of download_persistent_state

ASSUME PartSizeAssumption == PartSize \in Nat \ {0}
ASSUME FetchersAssumption == Cardinality(Fetchers) \in Nat \ {0} /\ Fetchers = 0 .. Cardinality(Fetchers) - 1
ASSUME LengthsAssumption == Lengths \subseteq Nat

VARIABLES
  length,       \* the length of the state
  active,       \* active_peers
  source,       \* the peer the parts come from
  checks,       \* the checks made
  fetcher,      \* what each of the tasks is doing
  parts,        \* the lengths of the parts that have come, by their offsets
  total,        \* total_size
  joined,       \* state_bytes: the next offset to append and the length so far
  download      \* how the download goes, and its attempts

downloadVars == <<length, active, source, checks, fetcher, parts, total, joined, download>>

Unknown == -1
NoPeer == "no peer"

NewFetcher(t) == [step |-> "check", offset |-> t * PartSize, errors |-> 0]

\* load_shard_state_persistent_slice: the length
\* of the slice at an offset, none beyond the end.
Slice(offset) == IF offset > length THEN {} ELSE {Min({PartSize, length - offset})}

\* What a peer answers to preparePersistentState and downloadPersistentStateSlice.
Prepared(p) == p \in Holders
DownloadSlice(p, offset) == IF p \in Holders THEN Slice(offset) ELSE {}

-----------------------------------------------------------------------------
\* check_persistent_state, of a peer that no other check has kept.  A peer that
\* has the state is kept, and the check is made again.
CheckPersistentState ==
  /\ download.step = "find" /\ checks < MaxChecks
  /\ checks' = checks + 1
  /\ \/ \E p \in StatePeers \ active : Prepared(p) /\ active' = active \cup {p} /\ source' = p
     \/ UNCHANGED <<active, source>>
  /\ UNCHANGED <<length, fetcher, parts, total, joined, download>>

\* The attempt has failed: the next one, or the end.
Failed ==
  download' = IF download.attempt < MaxDownloads THEN [step |-> "find", attempt |-> download.attempt + 1]
              ELSE [download EXCEPT !.step = "failed"]

NoPeerFound ==
  /\ download.step = "find" /\ checks = MaxChecks /\ source = NoPeer
  /\ checks' = 0 /\ Failed
  /\ UNCHANGED <<length, active, source, fetcher, parts, total, joined>>

StartDownload ==
  /\ download.step = "find" /\ checks = MaxChecks /\ source # NoPeer
  /\ download' = [download EXCEPT !.step = "fetch"]
  /\ fetcher' = [t \in Fetchers |-> NewFetcher(t)]
  /\ parts' = [o \in {} |-> o] /\ total' = Unknown
  /\ UNCHANGED <<length, active, source, checks, joined>>

\* A task ends at the end of the state, when it is known, or asks for its part.
AskPart(t) ==
  /\ download.step = "fetch" /\ fetcher[t].step = "check"
  /\ fetcher' = [fetcher EXCEPT ![t].step = IF total # Unknown /\ fetcher[t].offset >= total THEN "done" ELSE "asked"]
  /\ UNCHANGED <<length, active, source, checks, parts, total, joined, download>>

\* Mutant of NextOffset: the next part but one.
MutNextOffset(offset) == offset + PartSize * (Cardinality(Fetchers) + 1)

NextOffset(offset) == offset + PartSize * Cardinality(Fetchers)

GotPart(t) ==
  /\ download.step = "fetch" /\ fetcher[t].step = "asked"
  /\ \E len \in DownloadSlice(source, fetcher[t].offset) :
       /\ parts' = [o \in DOMAIN parts \cup {fetcher[t].offset} |-> IF o = fetcher[t].offset THEN len ELSE parts[o]]
       /\ \/ /\ len < PartSize
             /\ total' = fetcher[t].offset + len
             /\ fetcher' = [fetcher EXCEPT ![t].step = "done", ![t].errors = 0]
          \/ /\ len = PartSize
             /\ fetcher' = [fetcher EXCEPT ![t] = [step |-> "check", offset |-> NextOffset(@.offset), errors |-> 0]]
             /\ UNCHANGED total
  /\ UNCHANGED <<length, active, source, checks, joined, download>>

\* No answer, or one that says that there is no such part.
PartError(t) ==
  /\ download.step = "fetch" /\ fetcher[t].step = "asked"
  /\ fetcher' = [fetcher EXCEPT ![t].step = IF fetcher[t].errors < MaxPartErrors THEN "check" ELSE "failed",
                                ![t].errors = @ + 1]
  /\ UNCHANGED <<length, active, source, checks, parts, total, joined, download>>

Ended == download.step = "fetch" /\ \A t \in Fetchers : fetcher[t].step \in {"done", "failed"}

\* All tasks have ended: the peer of the parts is free again.
JoinDownload ==
  /\ Ended
  /\ active' = active \ {source} /\ source' = NoPeer /\ checks' = 0
  /\ IF \E t \in Fetchers : fetcher[t].step = "failed" THEN Failed
     ELSE download' = [download EXCEPT !.step = "assemble"]
  /\ joined' = [at |-> 0, size |-> 0]
  /\ UNCHANGED <<length, fetcher, parts, total>>

\* The parts are appended in their order, up to the first one that is missing.
AppendPart ==
  /\ download.step = "assemble" /\ joined.at \in DOMAIN parts
  /\ joined' = [at |-> joined.at + PartSize, size |-> joined.size + parts[joined.at]]
  /\ UNCHANGED <<length, active, source, checks, fetcher, parts, total, download>>

EndOfParts ==
  /\ download.step = "assemble" /\ joined.at \notin DOMAIN parts
  /\ download' = [download EXCEPT !.step = "assembled"]
  /\ UNCHANGED <<length, active, source, checks, fetcher, parts, total, joined>>

-----------------------------------------------------------------------------
DownloadInit ==
  /\ length \in Lengths /\ active = {} /\ source = NoPeer /\ checks = 0
  /\ fetcher = [t \in Fetchers |-> NewFetcher(t)]
  /\ parts = [o \in {} |-> o] /\ total = Unknown /\ joined = [at |-> 0, size |-> 0]
  /\ download = [step |-> "find", attempt |-> 1]

DownloadNext ==
  \/ CheckPersistentState \/ NoPeerFound \/ StartDownload \/ JoinDownload \/ AppendPart \/ EndOfParts
  \/ \E t \in Fetchers : AskPart(t) \/ GotPart(t) \/ PartError(t)

DownloadSpec == DownloadInit /\ [][DownloadNext]_downloadVars

-----------------------------------------------------------------------------
(* Properties                                                              *)

\* A state that is put together is the whole state: when all tasks have ended
\* well, in whatever order the parts came and whoever met the end, every part
\* is appended at its own offset, nothing is missing and the assertion on
\* total_size holds.
DownloadedIsWhole ==
  /\ download.step = "assemble" /\ joined.at \in DOMAIN parts => joined.size = joined.at
  /\ download.step = "assembled" => total = joined.size /\ joined.size = length
=============================================================================
