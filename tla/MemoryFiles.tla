---------------------------- MODULE MemoryFiles ----------------------------
(***************************************************************************)
(* One slot of long-term memory (MEMORY.md, USER.md or SOUL.md) and the    *)
(* memory_patch actions on it.  Chats edit the same file on one event      *)
(* loop; only consolidation awaits, between its read and its write.        *)
(* nanobot's own Dream / Consolidator (external) writes the file as well,  *)
(* and skips the budget on purpose (budgets.py:4-7).                       *)
(*                                                                         *)
(* The file is a sequence of paragraphs (text between blank lines), each a *)
(* sequence of lines, because that is what decides how split_entries cuts  *)
(* it.  A line is an entry; the lines of one element of Meanings say the   *)
(* same thing.  Budget counts lines where the code counts tokens.          *)
(***************************************************************************)
EXTENDS Integers, Sequences, FiniteSets, SequencesExt

CONSTANTS
  Meanings, Chats, Budget,
  Drafts     \* texts that nanobot's background writer may put in the file's place

ASSUME MemoryAssumption == Budget \in Nat /\ \A M, N \in Meanings : M # N => M \cap N = {}
ASSUME DraftsAssumption == \A text \in Drafts : text \in Seq(Seq(UNION Meanings))

VARIABLES
  file,     \* the slot's file on disk
  held,     \* the file as each chat's consolidation read it, <<>> when there is none
  overtaken, \* history: the chats whose held copy the file has left behind
  patched   \* history: memory_patch wrote what the file holds

memoryVars == <<file, held, overtaken, patched>>

Lines == UNION Meanings
LinesOf(text) == FlattenSeq(text)
Has(text) == ToSet(LinesOf(text))
Fits(text) == Len(LinesOf(text)) <= Budget

MemoryInit ==
  /\ file = <<>> /\ patched = TRUE
  /\ held = [c \in Chats |-> <<>>] /\ overtaken = {}

\* What a change of the file does to the consolidations that wait.
LeavesBehind(text) == {c \in Chats : held[c] # <<>> /\ text # file}

\* A plausible slip: the budget is not looked at.
WriteUnchecked(text) ==
  /\ file' = text /\ patched' = TRUE
  /\ overtaken' = overtaken \cup LeavesBehind(text)

\* BudgetedMemory.write: refused over budget, else one atomic replacement.
WriteFile(text) ==
  /\ Fits(text)
  /\ file' = text /\ patched' = TRUE
  /\ overtaken' = overtaken \cup LeavesBehind(text)

\* Dream / Consolidator: any text, whatever its size.
BackgroundWrite(text) ==
  /\ file' = text /\ patched' = FALSE
  /\ overtaken' = overtaken \cup LeavesBehind(text)
  /\ UNCHANGED held

\* One line below the last: no blank line, so it joins the last paragraph.
AddEntry(e) ==
  /\ e \notin Has(file)
  /\ WriteFile(IF file = <<>> THEN <<<<e>>>>
               ELSE [file EXCEPT ![Len(file)] = Append(@, e)])
  /\ UNCHANGED held

\* _locate: the needle names exactly one line.
Named(e, p, i) ==
  /\ p \in DOMAIN file /\ i \in DOMAIN file[p] /\ file[p][i] = e
  /\ Cardinality({j \in DOMAIN LinesOf(file) : LinesOf(file)[j] = e}) = 1

ReplaceEntry(e, new) ==
  /\ \E p \in DOMAIN file : \E i \in DOMAIN file[p] :
       Named(e, p, i) /\ WriteFile([file EXCEPT ![p][i] = new])
  /\ UNCHANGED held

Paragraph(lines) == IF lines = <<>> THEN <<>> ELSE <<lines>>

\* The line break around a removed line stays: taken from inside a paragraph it
\* leaves a blank line and splits it, taken from an end it leaves nothing.
RemoveEntry(e) ==
  /\ \E p \in DOMAIN file : \E i \in DOMAIN file[p] :
       /\ Named(e, p, i)
       /\ WriteFile(SubSeq(file, 1, p - 1)
                      \o Paragraph(SubSeq(file[p], 1, i - 1))
                      \o Paragraph(SubSeq(file[p], i + 1, Len(file[p])))
                      \o SubSeq(file, p + 1, Len(file)))
  /\ UNCHANGED held

-----------------------------------------------------------------------------
(* memory_patch(action="consolidate")                                      *)

\* split_entries: paragraphs if there are several, lines otherwise.
Split(text) ==
  IF Len(text) > 1 THEN text ELSE [i \in DOMAIN LinesOf(text) |-> <<LinesOf(text)[i]>>]

StartConsolidation(c) ==
  /\ held[c] = <<>> /\ Len(Split(file)) > 1
  /\ held' = [held EXCEPT ![c] = file]
  /\ UNCHANGED <<file, overtaken, patched>>

\* Two entries are near each other when they say the same things.
Says(entry) == {M \in Meanings : M \cap ToSet(entry) # {}}

Longest(entries, i) ==
  \A j \in DOMAIN entries : Says(entries[j]) = Says(entries[i]) => Len(entries[j]) <= Len(entries[i])

\* The entries that open a cluster, and the k-th number of a set.
Begins(entries, i) == \A j \in 1 .. i - 1 : Says(entries[j]) # Says(entries[i])

Firsts(entries) == {i \in DOMAIN entries : Begins(entries, i)}
Nth(S, k) == CHOOSE i \in S : Cardinality({j \in S : j < i}) = k - 1

\* A plausible slip: an entry that resembles no other is not carried over.
MergesOfPairs(text) ==
  LET entries == Split(text)
      firsts == {i \in Firsts(entries) :
                   \E j \in DOMAIN entries : j # i /\ Says(entries[j]) = Says(entries[i])}
  IN {survivors \in [1 .. Cardinality(firsts) -> Range(entries)] :
        \A k \in DOMAIN survivors : \E i \in DOMAIN entries :
          survivors[k] = entries[i] /\ Says(entries[i]) = Says(entries[Nth(firsts, k)])}

\* consolidate_entries: a longest entry of each cluster survives (lines differ
\* in length, so any of those with most lines), in the order the clusters began.
Merges(text) ==
  LET entries == Split(text)
      firsts == Firsts(entries)
  IN {survivors \in [1 .. Cardinality(firsts) -> Range(entries)] :
        \A k \in DOMAIN survivors : \E i \in DOMAIN entries :
          /\ survivors[k] = entries[i] /\ Longest(entries, i)
          /\ Says(entries[i]) = Says(entries[Nth(firsts, k)])}

\* The vectors arrive: what was read is merged and written over what is there.
Consolidate(c) ==
  /\ held[c] # <<>>
  /\ \E text \in Merges(held[c]) :
       IF Len(text) < Len(Split(held[c])) /\ Fits(text)
       THEN /\ file' = text /\ patched' = TRUE
            /\ overtaken' = (overtaken \cup LeavesBehind(text)) \ {c}
       ELSE overtaken' = overtaken \ {c} /\ UNCHANGED <<file, patched>>
  /\ held' = [held EXCEPT ![c] = <<>>]

\* The providers are down, or the process ends.
AbandonConsolidation(c) ==
  /\ held[c] # <<>>
  /\ held' = [held EXCEPT ![c] = <<>>]
  /\ overtaken' = overtaken \ {c}
  /\ UNCHANGED <<file, patched>>

MemoryNext ==
  \/ \E e \in Lines : AddEntry(e) \/ RemoveEntry(e) \/ \E new \in Lines : ReplaceEntry(e, new)
  \/ \E text \in Drafts : BackgroundWrite(text)
  \/ \E c \in Chats : StartConsolidation(c) \/ Consolidate(c) \/ AbandonConsolidation(c)

-----------------------------------------------------------------------------
\* What memory_patch wrote is within the budget; held copies are files.
MemoryTypeOK ==
  /\ file \in Seq(Seq(Lines)) /\ patched \in BOOLEAN
  /\ patched => Fits(file)
  /\ held \in [Chats -> Seq(Seq(Lines))] /\ overtaken \subseteq Chats

SaysAtAll(text) == {M \in Meanings : M \cap Has(text) # {}}

\* Consolidation shortens a memory and loses nothing of what it read, whatever
\* happened while it waited for embeddings: what it writes says what its copy
\* said, and while nobody changed the file that is what the file said.  Only what
\* another chat or nanobot wrote during the wait may be lost, overwritten by the
\* merged old text.
NothingForgotten ==
  [][\A c \in Chats : held[c] # <<>> /\ held'[c] = <<>> =>
       /\ c \notin overtaken => SaysAtAll(file) = SaysAtAll(file')
       /\ file' # file => SaysAtAll(file') = SaysAtAll(held[c])]_memoryVars

MemorySpec == MemoryInit /\ [][MemoryNext]_memoryVars
=============================================================================
