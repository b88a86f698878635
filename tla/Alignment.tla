----------------------------- MODULE Alignment -----------------------------
(***************************************************************************)
(* session/archiver.py, `_overlap` and `_align`: where a replayed window   *)
(* of a conversation continues what the archiver has already stored.       *)
(*                                                                         *)
(* `confirmed` is a sequence of fingerprints, `entries` the window as a    *)
(* sequence of records with a `role` and a fingerprint `fp`, `pending` a   *)
(* sequence of such records: messages stored in a form that no later       *)
(* window repeats.  Positions are 1-based here: `start` is the first entry *)
(* not yet archived, so the code's start is `start - 1`.                   *)
(***************************************************************************)
EXTENDS Naturals, Sequences, FiniteSets

Fps(entries) == [i \in DOMAIN entries |-> entries[i].fp]

\* The lengths k for which confirmed[i .. i+k-1] repeats window[1 .. k].
RunsFrom(confirmed, window, i) ==
    {k \in 0 .. Len(window) :
        /\ i + k - 1 <= Len(confirmed)
        /\ \A j \in 1 .. k : confirmed[i + j - 1] = window[j]}

Longest(S) == CHOOSE k \in S : \A other \in S : other <= k

\* The runs the code accepts: the longest from each occurrence of the window's
\* first message, provided it reaches the end of one side or the other.
AcceptedRuns(confirmed, window) ==
    {k \in 1 .. Len(window) :
        \E i \in DOMAIN confirmed :
            /\ k = Longest(RunsFrom(confirmed, window, i))
            /\ i + k - 1 = Len(confirmed) \/ k = Len(window)}

Overlap(confirmed, window) ==
    Longest(AcceptedRuns(confirmed, window) \cup {0})

\* A plausible slip: the last entry may be consumed by its role as well.
ReplaysByRole(item, entries, i) ==
    entries[i].fp = item.fp \/ entries[i].role = item.role

\* The window's last entry is freshly appended, so only its own fingerprint
\* makes it a pending item seen again; an earlier one may have been rewritten
\* since, and its role is enough.
Replays(item, entries, i) ==
    \/ entries[i].fp = item.fp
    \/ i # Len(entries) /\ entries[i].role = item.role

\* How many pending items the window repeats, in order, right after the overlap.
PendingRun(pending, entries, overlap) ==
    Longest({n \in 0 .. Len(pending) :
                /\ overlap + n <= Len(entries)
                /\ \A p \in 1 .. n : Replays(pending[p], entries, overlap + p)})

\* _Alignment.  An adopted entry is a pending message whose fingerprint later
\* windows will repeat; a kept item is one this window shows unreplayed again.
Align(confirmed, pending, entries, midTurn) ==
    LET overlap == Overlap(confirmed, Fps(entries))
        run     == PendingRun(pending, entries, overlap)
        stay(p) == midTurn \/ overlap + p = Len(entries)
        fresh   == /\ overlap + run = 0
                   /\ confirmed # <<>> \/ (pending # <<>> /\ ~midTurn)
        adopted == {p \in 1 .. run : ~stay(p)}
    IN  [start   |-> overlap + run + 1,
         adopted |-> [p \in 1 .. Cardinality(adopted) |-> entries[overlap + p].fp],
         keep    |-> SubSeq(pending, Cardinality(adopted) + 1, run),
         isNew   |-> fresh]
=============================================================================
