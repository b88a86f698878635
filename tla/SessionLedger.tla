--------------------------- MODULE SessionLedger ---------------------------
(***************************************************************************)
(* What session/archiver.py promises about `sessions` rows, messages left  *)
(* out: which conversation opened a row, whether `ended_at` is stamped,    *)
(* and which row a conversation key writes to now.                         *)
(*                                                                         *)
(* SessionArchiver implements this module, SessionBoundary builds on it.   *)
(* A conversation is a session key or, for a keyless caller, the id() of   *)
(* its list of messages.                                                   *)
(***************************************************************************)
EXTENDS Naturals, Sequences

CONSTANTS
    Keys,        \* session keys (`channel:chat`)
    Lists        \* id(messages) of keyless conversations

ASSUME KeysAssumption == Keys \cap Lists = {}

Conversations == Keys \cup Lists

VARIABLES
    owner,       \* sessions rows by id: the conversation that opened each
    ended,       \* ids whose ended_at is set
    mapped       \* _session_ids

ledger == <<owner, ended, mapped>>

NoSession == 0

Ledger == [owner |-> owner, ended |-> ended, mapped |-> mapped]

Become(l) == owner' = l.owner /\ ended' = l.ended /\ mapped' = l.mapped

-----------------------------------------------------------------------------
(* The operations, on a record of the three variables.                     *)

\* The conversations in C let go of their sessions; `stamped` are the ids
\* whose UPDATE of ended_at went through, for _end_session swallows an error.
LetGo(l, C, stamped) ==
    [owner  |-> l.owner,
     ended  |-> l.ended \cup (stamped \cap {l.mapped[c] : c \in C}),
     mapped |-> [c \in Conversations |-> IF c \in C THEN NoSession ELSE l.mapped[c]]]

\* A plausible slip: what an earlier process left open under the key stays open.
OpenBeside(l, c) ==
    [owner  |-> Append(l.owner, c),
     ended  |-> l.ended,
     mapped |-> [l.mapped EXCEPT ![c] = Len(l.owner) + 1]]

\* _start_session.  Under a session key it first ends the rows still open there.
Open(l, c) ==
    [owner  |-> Append(l.owner, c),
     ended  |-> l.ended \cup {s \in DOMAIN l.owner : c \in Keys /\ l.owner[s] = c},
     mapped |-> [l.mapped EXCEPT ![c] = Len(l.owner) + 1]]

\* An archive pass of c: it may evict idle conversations, and it continues its
\* session, or (a new conversation, or an unmapped one) opens another.  When
\* opening raises the conversation is left without a session.
Passed(l, c, idle, stamped, case) ==
    LET rest  == LetGo(l, idle, stamped)
        freed == LetGo(rest, {c}, stamped)
    IN  CASE case = "continue" -> rest
          [] case = "release"  -> freed
          [] case = "open"     -> Open(freed, c)

Cases(c) == IF mapped[c] = NoSession THEN {"release", "open"}
                                     ELSE {"continue", "release", "open"}

-----------------------------------------------------------------------------
Pass(c) ==
    \E idle \in SUBSET (Conversations \ {c}), stamped \in SUBSET DOMAIN owner,
       case \in Cases(c) :
        Become(Passed(Ledger, c, idle, stamped, case))

\* The mapping is in memory only.
Forget ==
    /\ mapped' = [c \in Conversations |-> NoSession]
    /\ UNCHANGED <<owner, ended>>

Init ==
    /\ owner = <<>>
    /\ ended = {}
    /\ mapped = [c \in Conversations |-> NoSession]

Next == (\E c \in Conversations : Pass(c)) \/ Forget

Spec == Init /\ [][Next]_ledger

-----------------------------------------------------------------------------
LedgerTypeOK ==
    /\ owner \in Seq(Conversations)
    /\ ended \subseteq DOMAIN owner
    /\ mapped \in [Conversations -> DOMAIN owner \cup {NoSession}]

\* A conversation writes only to an open session that it opened itself
\* (_session_ids never outlives ended_at, archiver.py `_end_session`).
WritesToOwnOpen ==
    \A c \in Conversations : mapped[c] # NoSession =>
        mapped[c] \notin ended /\ owner[mapped[c]] = c

\* A session key never has two open rows, whatever crashed or failed to stamp
\* before: `_start_session` leaves nothing purge_older_than can never delete.
OneOpenPerKey ==
    \A s, t \in DOMAIN owner \ ended :
        owner[s] = owner[t] /\ owner[s] \in Keys => s = t
=============================================================================
