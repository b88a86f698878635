----------------------------- MODULE SkillStore -----------------------------
(***************************************************************************)
(* The skill library: each skill's SKILL.md, its skill_stats row and the   *)
(* texts kept in skill_versions, with every operation on them that is not  *)
(* the evolution cycle: propose_skill (skills/propose_tool.py), a person   *)
(* at the files, rate_skill's promotions (coordinator/skills.py), the      *)
(* curator (skills/curator.py) and the indexer (skills/indexer.py).        *)
(*                                                                         *)
(* A text is a number, unique for its skill: what its words say is left    *)
(* out.  None of these operations awaits, except that the indexer waits    *)
(* for its embeddings between listing the files and updating the rows.     *)
(***************************************************************************)
EXTENDS Naturals, FiniteSets

CONSTANTS
    Skills,      \* names
    MaxTexts     \* bound of the model: texts ever written per skill

ASSUME MaxTextsAssumption == MaxTexts \in Nat \ {0}

VARIABLES
    file,        \* the text of SKILL.md, NoFile when there is none
    made,        \* history: how many texts of the skill there have been
    status,      \* skill_stats.status, "none" without a row
    origin,      \* skill_stats.origin
    pinned,      \* skill_stats.pinned
    kept,        \* skill_versions: <<skill, text>> pairs
    scan         \* an index refresh waiting for embeddings: what it listed

library == <<file, made, status, origin, pinned, kept>>
store   == <<library, scan>>

NoFile == 0
NoScan == [files |-> {}, rows |-> {}]

Library == [file |-> file, made |-> made, status |-> status,
            origin |-> origin, pinned |-> pinned, kept |-> kept]

BecomeLibrary(s) ==
    /\ file' = s.file /\ made' = s.made /\ status' = s.status
    /\ origin' = s.origin /\ pinned' = s.pinned /\ kept' = s.kept

-----------------------------------------------------------------------------
(* The operations, on a record of the library.                             *)

Room(s, k) == s.made[k] < MaxTexts
NewText(s, k) == s.made[k] + 1

\* A text was thought up, and a file holds it.
Composed(s, k)     == [s EXCEPT !.made[k] = @ + 1]
WithFile(s, k, t)  == [s EXCEPT !.file[k] = t]

\* save_skill_version
Saved(s, k, t) == [s EXCEPT !.kept = @ \cup ({<<k, t>>} \ {<<k, NoFile>>})]

\* What automatic evolution may touch.
Evolvable(s) ==
    {k \in Skills : s.status[k] = "active" /\ s.origin[k] = "agent" /\ ~s.pinned[k]}

\* _edit refuses a missing or deprecated skill; a missing file it writes anew.
Editable(s, k) == s.status[k] \notin {"none", "deprecated"}
Edited(s, k, t) == IF Editable(s, k) THEN WithFile(s, k, t) ELSE s

\* _create refuses a draft or active skill, and a directory without a row.
\* The upsert leaves the pin alone.
Creatable(s, k) ==
    \/ s.status[k] = "none" /\ s.file[k] = NoFile
    \/ s.status[k] \in {"stale", "deprecated"}
Created(s, k, t) ==
    IF Creatable(s, k)
    THEN [WithFile(s, k, t) EXCEPT !.status[k] = "draft", !.origin[k] = "agent"]
    ELSE s

\* transition_skill for every skill of D, each with the text its caller loaded.
Transitioned(s, D, new, texts) ==
    [s EXCEPT !.status = [k \in Skills |-> IF k \in D /\ @[k] # "none" THEN new ELSE @[k]],
              !.kept = @ \cup {<<k, texts[k]>> : k \in {j \in D : texts[j] # NoFile}}]

-----------------------------------------------------------------------------
(* The steps.                                                              *)

\* propose_skill create, and a create that dies between file and row.
Create(k) ==
    /\ Creatable(Library, k) /\ Room(Library, k)
    /\ BecomeLibrary(Created(Composed(Library, k), k, NewText(Library, k)))
    /\ UNCHANGED scan

\* propose_skill edit and patch of SKILL.md.
Edit(k) ==
    /\ Editable(Library, k) /\ file[k] # NoFile /\ Room(Library, k)
    /\ BecomeLibrary(Edited(Composed(Library, k), k, NewText(Library, k)))
    /\ UNCHANGED scan

\* propose_skill pin and unpin.
SetPinned(k) ==
    /\ status[k] # "none"
    /\ pinned' = [pinned EXCEPT ![k] = ~@]
    /\ UNCHANGED <<file, made, status, origin, kept, scan>>

\* A person writes a SKILL.md by hand, or a create dies before its row.
WriteByHand(k) ==
    /\ Room(Library, k)
    /\ BecomeLibrary(WithFile(Composed(Library, k), k, NewText(Library, k)))
    /\ UNCHANGED scan

\* A person deletes a skill's directory.
Delete(k) ==
    /\ file[k] # NoFile
    /\ file' = [file EXCEPT ![k] = NoFile]
    /\ UNCHANGED <<made, status, origin, pinned, kept, scan>>

\* check_promotions after a rating or a session: a stale skill returns, a draft
\* may be promoted, an agent's own unpinned skill may be deprecated.
CheckPromotion(k) ==
    /\ status[k] # "none"
    /\ LET back == IF status[k] = "stale" THEN "active" ELSE status[k]
       IN  status' \in {[status EXCEPT ![k] = new] :
               new \in {back} \cup (IF status[k] = "draft" THEN {"active"} ELSE {})
                   \cup (IF back # "deprecated" /\ origin[k] = "agent" /\ ~pinned[k]
                         THEN {"deprecated"} ELSE {})}
    /\ UNCHANGED <<file, made, origin, pinned, kept, scan>>

\* run_curator: skills long stale are deprecated, then dormant ones staled.
Curate ==
    \E D \in SUBSET {k \in Skills : status[k] = "stale" /\ origin[k] = "agent" /\ ~pinned[k]},
       S \in SUBSET Evolvable(Library) :
        /\ D \cup S # {}
        /\ BecomeLibrary(Transitioned(Transitioned(Library, D, "deprecated", file),
                                      S, "stale", file))
        /\ UNCHANGED scan

\* A refresh lists the files and the rows, and waits for embeddings.
BeginRefresh ==
    /\ scan = NoScan
    /\ scan' = [files |-> {k \in Skills : file[k] # NoFile},
                rows  |-> {k \in Skills : status[k] # "none"}]
    /\ scan' # NoScan /\ scan'.files # scan'.rows
    /\ UNCHANGED library

\* _write_vectors and _cleanup_removed, on what was listed: a listed file gets a
\* row if it has none, a row whose file was missing goes with its pin.
EndRefresh ==
    /\ scan # NoScan
    /\ LET adopted == {k \in scan.files : status[k] = "none"}
           gone    == scan.rows \ scan.files
       IN  /\ status' = [k \in Skills |-> CASE k \in gone -> "none"
                                            [] k \in adopted -> "draft"
                                            [] OTHER -> status[k]]
           /\ origin' = [k \in Skills |-> IF k \in gone \cup adopted THEN "user"
                                                                      ELSE origin[k]]
           /\ pinned' = [k \in Skills |-> pinned[k] /\ k \notin gone]
    /\ scan' = NoScan
    /\ UNCHANGED <<file, made, kept>>

\* Every embedding provider failed: rows and files stay as they are.
RefreshFails ==
    /\ scan # NoScan
    /\ scan' = NoScan
    /\ UNCHANGED library

\* Some skills the agent wrote are active, each with its first text.
StoreInit ==
    \E L \in SUBSET Skills :
        /\ file = [k \in Skills |-> IF k \in L THEN 1 ELSE NoFile]
        /\ made = file
        /\ status = [k \in Skills |-> IF k \in L THEN "active" ELSE "none"]
        /\ origin = [k \in Skills |-> IF k \in L THEN "agent" ELSE "user"]
        /\ pinned = [k \in Skills |-> FALSE]
        /\ kept = {}
        /\ scan = NoScan

Change ==
    \/ \E k \in Skills :
        \/ Create(k) \/ Edit(k) \/ SetPinned(k) \/ WriteByHand(k) \/ Delete(k)
        \/ CheckPromotion(k)
    \/ Curate

Refresh == BeginRefresh \/ EndRefresh \/ RefreshFails

StoreTypeOK ==
    /\ made \in [Skills -> 0 .. MaxTexts]
    /\ file \in [Skills -> 0 .. MaxTexts]
    /\ status \in [Skills -> {"none", "draft", "active", "stale", "deprecated"}]
    /\ origin \in [Skills -> {"agent", "user"}]
    /\ pinned \in [Skills -> BOOLEAN]
    /\ kept \subseteq Skills \X (1 .. MaxTexts)
    /\ scan \in [files : SUBSET Skills, rows : SUBSET Skills]
=============================================================================
