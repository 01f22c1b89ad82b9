--------------------------- MODULE Ingestion_proofs ---------------------------
(* For any number of ingestions, deletions, projects and failing requests: the *)
(* stores agree on salts and references, what was refused is neither stored    *)
(* nor searchable, and a deletion of everything erases what was there.         *)
EXTENDS Ingestion, TLAPS

(* What the place of a call says of its other fields. *)
ShapedCalls ==
  {c \in Calls :
    /\ c.at # "idle" => c.project \in Projects
    /\ c.at \in {"reread", "store"} => c.salt \in Salts
    /\ c.at \in {"new salt", "reread", "store"} => c.action = "vault"
    /\ c.at \in {"idle", "row"} => c.refs = {}
    /\ c.at \in {"embed", "L0", "L1"} => c.pii \subseteq c.handled}

Typed == TypeOK /\ call \in [Documents -> ShapedCalls]

LEMMA NoCallIsACall == NoCall \in Calls
  BY DEF NoCall, Calls, Places, Answers, Actions

LEMMA NoDeletionIsADeletion == NoDeletion \in DeletionCalls
  BY DEF NoDeletion, DeletionCalls

LEMMA RowsAreRows == NoRow \in Rows /\ \A d \in Documents : NewRow(d) \in Rows
  BY ChunksAssumption DEF NoRow, NewRow, Rows

LEMMA CountedInNat ==
  ASSUME failures \in Nat, NEW o \in Outcomes, Counted(o)
  PROVE  failures' \in Nat /\ failures <= failures' /\ (Raises(o) => failures' > 0)
  BY DEF Counted

\* Where a call may go whatever it holds.
Neutral == Answers \cup {"scan", "record", "remove", "final"}

LEMMA GotoKeepsShape ==
  ASSUME Typed, NEW d \in Documents, call[d].at # "idle", NEW at \in Neutral, Goto(d, at)
  PROVE  call' \in [Documents -> ShapedCalls]
<1>1. call[d] \in Calls /\ call[d].project \in Projects
  BY DEF Typed, ShapedCalls
<1>2. [call[d] EXCEPT !.at = at] \in Calls
  BY <1>1 DEF Calls, Places, Neutral, Answers
<1>3. [call[d] EXCEPT !.at = at] \in ShapedCalls
  BY <1>1, <1>2 DEF ShapedCalls, Neutral, Answers, Calls
<1> QED
  BY <1>3 DEF Goto, Typed

LEMMA DeleteRowsKeepsTypes ==
  ASSUME rows \in [Documents -> Rows], vault \subseteq Originals,
         NEW ds \in SUBSET Documents, DeleteRows(ds)
  PROVE  rows' \in [Documents -> Rows] /\ vault' \subseteq vault
  BY RowsAreRows DEF DeleteRows, Cascade

LEMMA LayersAreLayers ==
  ASSUME TypeOK, NEW d \in Documents, NEW layer \in {"L0", "L1", "L2"}
  PROVE  Layer(d, layer) \in Layers
<1>1. call[d] \in Calls
  BY DEF TypeOK
<1> QED
  BY <1>1 DEF Layer, Layers, Open, Calls

-----------------------------------------------------------------------------
LEMMA TypedInit == Init => Typed
<1> SUFFICES ASSUME Init PROVE Typed
  OBVIOUS
<1>1. call \in [Documents -> Calls]
  BY NoCallIsACall DEF Init
<1>2. rows \in [Documents -> Rows]
  BY RowsAreRows DEF Init
<1>3. deletion \in [Deletions -> DeletionCalls]
  BY NoDeletionIsADeletion DEF Init
<1>4. TypeOK
  BY <1>1, <1>2, <1>3 DEF Init, TypeOK
<1>5. NoCall \in ShapedCalls
  BY NoCallIsACall DEF ShapedCalls, NoCall
<1> QED
  BY <1>4, <1>5 DEF Typed, Init

LEMMA ShapedSuffices ==
  ASSUME call' \in [Documents -> ShapedCalls],
         call' \in [Documents -> Calls] => TypeOK'
  PROVE  Typed'
<1>1. call' \in [Documents -> Calls]
  BY DEF ShapedCalls
<1> QED
  BY <1>1 DEF Typed

LEMMA TypedNext == Typed /\ [Next]_vars => Typed'
<1> SUFFICES ASSUME Typed, TypeOK, [Next]_vars PROVE Typed'
  BY DEF Typed
<1> USE NamesAssumption, ChunksAssumption
<1> DEFINE ShapedOK == call' \in [Documents -> ShapedCalls]
<1>1. ASSUME NEW d \in Documents, NEW p \in Projects, NEW pii \in SUBSET Indices,
             Start(d, p, pii)
      PROVE  Typed'
  <2>1. [NoCall EXCEPT !.at = "row", !.project = p, !.pii = pii] \in ShapedCalls
    BY NoCallIsACall DEF Calls, Places, Actions, NoCall, ShapedCalls
  <2>2. ShapedOK
    BY <1>1, <2>1 DEF Start, Typed
  <2> QED
    BY <1>1, <2>1, <2>2, ShapedSuffices DEF Start, TypeOK, stores
<1>2. ASSUME NEW d \in Documents, NEW o \in Outcomes, InsertRow(d, o)
      PROVE  Typed'
  <2>1. ShapedOK
    BY <1>2, GotoKeepsShape DEF InsertRow, Neutral, Answers
  <2>2. rows' \in [Documents -> Rows]
    BY <1>2, RowsAreRows DEF InsertRow, TypeOK
  <2> QED
    BY <1>2, <2>1, <2>2, ShapedSuffices, CountedInNat DEF InsertRow, TypeOK
<1>3. ASSUME NEW d \in Documents, NEW a \in Actions, AskPrivacy(d, a)
      PROVE  Typed'
  <2>1. call[d] \in Calls
    BY DEF TypeOK
  <2>2. call[d].project \in Projects
    BY <1>3 DEF AskPrivacy, Typed, ShapedCalls
  <2>3. \A at \in {"blocked", "scan"} :
          [call[d] EXCEPT !.action = a, !.at = at] \in ShapedCalls
    BY <2>1, <2>2 DEF Calls, Places, Answers, ShapedCalls
  <2>4. ShapedOK
    BY <1>3, <2>3 DEF AskPrivacy, Typed
  <2> QED
    BY <1>3, <2>1, <2>2, <2>3, <2>4, ShapedSuffices DEF AskPrivacy, TypeOK, stores
<1>4. ASSUME NEW d \in Documents, Mask(d)
      PROVE  Typed'
  <2>1. call[d] \in Calls
    BY DEF TypeOK
  <2>2. PICK i \in Indices : call' = [call EXCEPT ![d].handled = @ \cup {i}]
    BY <1>4 DEF Mask
  <2>3. call[d].at = "scan" /\ call[d].project \in Projects
    BY <1>4 DEF Mask, Typed, ShapedCalls
  <2>4. [call[d] EXCEPT !.handled = @ \cup {i}] \in ShapedCalls
    BY <2>1, <2>3 DEF Calls, ShapedCalls
  <2>5. ShapedOK
    BY <2>2, <2>4 DEF Typed
  <2> QED
    BY <1>4, <2>1, <2>2, <2>3, <2>4, <2>5, ShapedSuffices DEF Mask, TypeOK, stores
<1>5. ASSUME NEW d \in Documents, ReadSalt(d)
      PROVE  Typed'
  <2>1. call[d] \in Calls
    BY DEF TypeOK
  <2>2. call[d].project \in Projects /\ call[d].action = "vault"
    BY <1>5 DEF ReadSalt, Typed, ShapedCalls
  <2>3. salts[call[d].project] \in Salts \cup {None}
    BY <2>2 DEF TypeOK
  <2>4. [call[d] EXCEPT !.salt = None, !.at = "new salt"] \in ShapedCalls
    BY <2>1, <2>2 DEF Calls, Places, Answers, ShapedCalls
  <2>5. \A s \in Salts : [call[d] EXCEPT !.salt = s, !.at = "store"] \in ShapedCalls
    BY <2>1, <2>2 DEF Calls, Places, Answers, ShapedCalls
  <2>6. ShapedOK
    BY <1>5, <2>3, <2>4, <2>5 DEF ReadSalt, Typed
  <2> QED
    BY <1>5, <2>1, <2>2, <2>3, <2>4, <2>5, <2>6, ShapedSuffices
       DEF ReadSalt, TypeOK, stores
<1>6. ASSUME NEW d \in Documents, NEW o \in Outcomes, NEW s \in Salts, InsertSalt(d, s, o)
      PROVE  Typed'
  <2>1. call[d] \in Calls
    BY DEF TypeOK
  <2>2. call[d].project \in Projects /\ call[d].action = "vault"
    BY <1>6 DEF InsertSalt, Typed, ShapedCalls
  <2>3. [call[d] EXCEPT !.salt = s, !.at = "reread"] \in ShapedCalls
    BY <2>1, <2>2 DEF Calls, Places, Answers, ShapedCalls
  <2>4. ShapedOK
    BY <1>6, <2>3 DEF InsertSalt, Typed
  <2>5. salts' \in [Projects -> Salts \cup {None}]
    BY <1>6 DEF InsertSalt, TypeOK
  <2> QED
    BY <1>6, <2>1, <2>2, <2>3, <2>4, <2>5, ShapedSuffices, CountedInNat
       DEF InsertSalt, TypeOK
<1>7. ASSUME NEW d \in Documents, RereadSalt(d)
      PROVE  Typed'
  <2>1. call[d] \in Calls
    BY DEF TypeOK
  <2>2. /\ call[d].project \in Projects /\ call[d].action = "vault"
        /\ call[d].salt \in Salts
    BY <1>7 DEF RereadSalt, Typed, ShapedCalls
  <2>3. WinningSalt(d) \in Salts
    BY <2>2 DEF TypeOK, WinningSalt
  <2>4. [call[d] EXCEPT !.salt = WinningSalt(d), !.at = "store"] \in ShapedCalls
    BY <2>1, <2>2, <2>3 DEF Calls, Places, Answers, ShapedCalls
  <2>5. ShapedOK
    BY <1>7, <2>4 DEF RereadSalt, Typed
  <2>6. stray' \subseteq Projects
    BY <1>7, <2>2 DEF RereadSalt, TypeOK
  <2> QED
    BY <1>7, <2>1, <2>2, <2>3, <2>4, <2>5, <2>6, ShapedSuffices DEF RereadSalt, TypeOK
<1>8. ASSUME NEW d \in Documents, NEW o \in Outcomes, StoreInVault(d, o)
      PROVE  Typed'
  <2>1. call[d] \in Calls
    BY DEF TypeOK
  <2>2. PICK i \in Indices :
          /\ vault' = IF Takes(o)
                      THEN vault \cup {[doc |-> d, chunk |-> i, salt |-> call[d].salt]}
                      ELSE vault
          /\ call' = IF Raises(o) THEN [call EXCEPT ![d].at = "failed"]
                     ELSE [call EXCEPT ![d].at = "scan", ![d].handled = @ \cup {i},
                                       ![d].refs = @ \cup {i}]
    BY <1>8 DEF StoreInVault
  <2>3. call[d].project \in Projects /\ call[d].salt \in Salts
    BY <1>8 DEF StoreInVault, Typed, ShapedCalls
  <2>4. vault' \subseteq Originals
    BY <2>2, <2>3 DEF TypeOK, Originals
  <2>5. [call[d] EXCEPT !.at = "failed"] \in ShapedCalls
    BY <2>1, <2>3 DEF Calls, Places, Answers, ShapedCalls
  <2>6. [call[d] EXCEPT !.at = "scan", !.handled = @ \cup {i}, !.refs = @ \cup {i}]
           \in ShapedCalls
    BY <2>1, <2>3 DEF Calls, Places, Answers, ShapedCalls
  <2>7. ShapedOK
    BY <2>2, <2>5, <2>6 DEF Typed
  <2>8. failures' \in Nat
    BY <1>8, CountedInNat DEF StoreInVault, TypeOK
  <2> QED
    BY <1>8, <2>1, <2>2, <2>3, <2>4, <2>5, <2>6, <2>7, <2>8, ShapedSuffices
       DEF StoreInVault, TypeOK
<1>9. ASSUME NEW d \in Documents, NEW allowed \in BOOLEAN, Gate(d, allowed)
      PROVE  Typed'
  <2>1. call[d] \in Calls
    BY DEF TypeOK
  <2>2. /\ call[d].at = "scan" /\ call[d].project \in Projects
        /\ call[d].pii \subseteq call[d].handled
    BY <1>9 DEF Gate, Open, Typed, ShapedCalls
  <2>3. \A at \in {"embed", "record"} : [call[d] EXCEPT !.at = at] \in ShapedCalls
    BY <2>1, <2>2 DEF Calls, Places, Answers, ShapedCalls
  <2>4. ShapedOK
    BY <1>9, <2>3 DEF Gate, Goto, Typed
  <2> QED
    BY <1>9, <2>1, <2>2, <2>3, <2>4, ShapedSuffices DEF Gate, TypeOK, stores
<1>10. ASSUME NEW d \in Documents, NEW o \in Outcomes, RecordRejection(d, o)
      PROVE  Typed'
  <2>1. ShapedOK
    BY <1>10, GotoKeepsShape DEF RecordRejection, Neutral, Answers
  <2> QED
    BY <1>10, <2>1, ShapedSuffices, CountedInNat DEF RecordRejection, TypeOK
<1>11. ASSUME NEW d \in Documents, NEW o \in Outcomes, RemoveRejected(d, o)
      PROVE  Typed'
  <2>1. ShapedOK
    BY <1>11, GotoKeepsShape DEF RemoveRejected, Neutral, Answers
  <2>2. rows' \in [Documents -> Rows] /\ vault' \subseteq Originals
    BY <1>11, DeleteRowsKeepsTypes DEF RemoveRejected, TypeOK
  <2> QED
    BY <1>11, <2>1, <2>2, ShapedSuffices, CountedInNat DEF RemoveRejected, TypeOK
<1>12. ASSUME NEW d \in Documents, NEW o \in Outcomes, UpsertChunks(d, o)
      PROVE  Typed'
  <2>1. call[d] \in Calls
    BY DEF TypeOK
  <2>2. /\ call[d].at = "embed" /\ call[d].project \in Projects
        /\ call[d].pii \subseteq call[d].handled
    BY <1>12 DEF UpsertChunks, Typed, ShapedCalls
  <2>3. \A at \in {"failed", "L0"} : [call[d] EXCEPT !.at = at] \in ShapedCalls
    BY <2>1, <2>2 DEF Calls, Places, Answers, ShapedCalls
  <2>4. ShapedOK
    BY <1>12, <2>3 DEF UpsertChunks, Goto, Typed
  <2>5. points' \subseteq Layers
    BY <1>12, LayersAreLayers DEF UpsertChunks, TypeOK
  <2> QED
    BY <1>12, <2>1, <2>2, <2>3, <2>4, <2>5, ShapedSuffices, CountedInNat
       DEF UpsertChunks, TypeOK
<1>13. ASSUME NEW d \in Documents, NEW layer \in {"L0", "L1"}, NEW made \in BOOLEAN,
             UpsertLayer(d, layer, made)
      PROVE  Typed'
  <2>1. call[d] \in Calls
    BY DEF TypeOK
  <2>2. /\ call[d].at \in {"L0", "L1"} /\ call[d].project \in Projects
        /\ call[d].pii \subseteq call[d].handled
    BY <1>13 DEF UpsertLayer, Typed, ShapedCalls
  <2>3. \A at \in {"L1", "final"} : [call[d] EXCEPT !.at = at] \in ShapedCalls
    BY <2>1, <2>2 DEF Calls, Places, Answers, ShapedCalls
  <2>4. ShapedOK
    BY <1>13, <2>3 DEF UpsertLayer, Goto, Typed
  <2>5. points' \subseteq Layers
    BY <1>13, LayersAreLayers DEF UpsertLayer, TypeOK
  <2> QED
    BY <1>13, <2>1, <2>2, <2>3, <2>4, <2>5, ShapedSuffices DEF UpsertLayer, TypeOK
<1>14. ASSUME NEW d \in Documents, NEW o \in Outcomes, Finish(d, o)
      PROVE  Typed'
  <2>1. ShapedOK
    BY <1>14, GotoKeepsShape DEF Finish, Neutral, Answers
  <2>2. [rows[d] EXCEPT !.chunk_count = Chunks] \in Rows
    BY DEF TypeOK, Rows
  <2>3. rows' \in [Documents -> Rows]
    BY <1>14, <2>2 DEF Finish, TypeOK
  <2> QED
    BY <1>14, <2>1, <2>2, <2>3, ShapedSuffices, CountedInNat DEF Finish, TypeOK
<1>15. ASSUME NEW d \in Documents, CallFails(d)
      PROVE  Typed'
  <2>1. ShapedOK
    BY <1>15, GotoKeepsShape DEF CallFails, Neutral, Answers
  <2>2. failures' \in Nat
    BY <1>15, CountedInNat DEF CallFails, TypeOK, Outcomes
  <2> QED
    BY <1>15, <2>1, <2>2, ShapedSuffices DEF CallFails, TypeOK, stores
<1>16. ASSUME NEW x \in Deletions, NEW f \in Projects \cup {All}, StartDelete(x, f)
      PROVE  Typed'
  <2>1. [at |-> "points", filter |-> f, ids |-> {d \in Documents : RowMatches(d, f)},
         errors |-> FALSE, before |-> Ended] \in DeletionCalls
    BY DEF DeletionCalls, Ended
  <2>2. deletion' \in [Deletions -> DeletionCalls]
    BY <1>16, <2>1, Zenon DEF StartDelete, TypeOK
  <2> QED
    BY <1>16, <2>1, <2>2, ShapedSuffices DEF StartDelete, TypeOK, Typed, stores
<1>17. ASSUME NEW x \in Deletions, NEW o \in Outcomes, DeletePoints(x, o)
      PROVE  Typed'
  <2>1. deletion[x] \in DeletionCalls /\ Raises(o) \in BOOLEAN
    BY DEF TypeOK, Raises
  <2>2. [deletion[x] EXCEPT !.at = "rows", !.errors = Raises(o)] \in DeletionCalls
    BY <2>1 DEF DeletionCalls
  <2>3. deletion' \in [Deletions -> DeletionCalls]
    BY <1>17, <2>2 DEF DeletePoints, TypeOK
  <2> QED
    BY <1>17, <2>1, <2>2, <2>3, ShapedSuffices, CountedInNat
       DEF DeletePoints, TypeOK, Typed
<1>18. ASSUME NEW x \in Deletions, NEW o \in Outcomes, DeleteMatching(x, o)
      PROVE  Typed'
  <2>1. deletion[x] \in DeletionCalls
    BY DEF TypeOK
  <2>2. \A at \in {"ok", "failed"} : [deletion[x] EXCEPT !.at = at] \in DeletionCalls
    BY <2>1 DEF DeletionCalls
  <2>3. deletion' \in [Deletions -> DeletionCalls]
    BY <1>18, <2>2 DEF DeleteMatching, TypeOK
  <2>4. rows' \in [Documents -> Rows] /\ vault' \subseteq Originals
    BY <1>18, DeleteRowsKeepsTypes DEF DeleteMatching, TypeOK
  <2> QED
    BY <1>18, <2>1, <2>2, <2>3, <2>4, ShapedSuffices, CountedInNat
       DEF DeleteMatching, TypeOK, Typed
<1>19. CASE UNCHANGED vars
  BY <1>19 DEF vars, stores, TypeOK, Typed
<1> QED
  BY <1>1, <1>2, <1>3, <1>4, <1>5, <1>6, <1>7, <1>8, <1>9, <1>10, <1>11, <1>12, <1>13,
     <1>14, <1>15, <1>16, <1>17, <1>18, <1>19 DEF Next

\* The calls, rows, salts, originals and points keep their types: a salt enters
\* the vault only through get_or_create_project_salt, which never returns
\* without one.
THEOREM TypeCorrect == Spec => []TypeOK
<1>1. Typed => TypeOK
  BY DEF Typed
<1> QED
  BY <1>1, TypedInit, TypedNext, PTL DEF Spec

-----------------------------------------------------------------------------
(* One salt for a project: what a call is about to use, and what it used, is    *)
(* the salt in the table, which never changes once it is there.                 *)
SaltsAreStored ==
  /\ \A v \in vault :
       /\ call[v.doc].at # "idle"
       /\ call[v.doc].project \notin stray => v.salt = salts[call[v.doc].project]
  /\ \A d \in Documents :
       call[d].at = "store" /\ call[d].project \notin stray =>
         call[d].salt = salts[call[d].project]

\* What moving on, or fetching a salt, leaves as it was.
LEMMA GotoStep ==
  ASSUME TypeOK, NEW d \in Documents, NEW at, Goto(d, at)
  PROVE  /\ call'[d].at = at
         /\ call'[d].project = call[d].project /\ call'[d].action = call[d].action
         /\ call'[d].refs = call[d].refs /\ call'[d].salt = call[d].salt
         /\ \A e \in Documents \ {d} : call'[e] = call[e]
<1>1. call[d] \in Calls
  BY DEF TypeOK
<1>2. call'[d] = [call[d] EXCEPT !.at = at]
  BY DEF Goto, TypeOK
<1> QED
  BY <1>1, <1>2 DEF Goto, Calls, TypeOK

LEMMA ReadStep ==
  ASSUME TypeOK, NEW d \in Documents, ReadSalt(d)
  PROVE  /\ call'[d].at \in {"new salt", "store"}
         /\ call'[d].project = call[d].project /\ call'[d].refs = call[d].refs
         /\ call'[d].salt = salts[call[d].project]
         /\ call'[d].action = "vault"
         /\ \A e \in Documents \ {d} : call'[e] = call[e]
<1> DEFINE salt == salts[call[d].project]
<1>1. call[d] \in Calls
  BY DEF TypeOK
<1>2. call'[d] = [call[d] EXCEPT !.salt = salt, !.at = IF salt = None THEN "new salt" ELSE "store"]
  BY DEF ReadSalt, TypeOK
<1>3. \A e \in Documents \ {d} : call'[e] = call[e]
  BY DEF ReadSalt, TypeOK
<1> HIDE DEF salt
<1>4. /\ call'[d].at \in {"new salt", "store"} /\ call'[d].salt = salt
      /\ call'[d].project = call[d].project /\ call'[d].refs = call[d].refs
      /\ call'[d].action = call[d].action
  BY <1>1, <1>2 DEF Calls
<1> QED
  BY <1>3, <1>4 DEF salt, ReadSalt

LEMMA InsertStep ==
  ASSUME TypeOK, NEW d \in Documents, NEW s \in Salts, NEW o \in Outcomes, InsertSalt(d, s, o)
  PROVE  /\ call[d].at = "new salt" /\ call'[d].at = "reread"
         /\ call'[d].project = call[d].project /\ call'[d].action = call[d].action
         /\ call'[d].refs = call[d].refs
         /\ \A e \in Documents \ {d} : call'[e] = call[e]
<1>1. call[d] \in Calls
  BY DEF TypeOK
<1>2. call'[d] = [call[d] EXCEPT !.salt = s, !.at = "reread"]
  BY DEF InsertSalt, TypeOK
<1>3. \A e \in Documents \ {d} : call'[e] = call[e]
  BY DEF InsertSalt, TypeOK
<1>4. call[d].at = "new salt"
  BY DEF InsertSalt
<1> QED
  BY <1>1, <1>2, <1>3, <1>4 DEF Calls

LEMMA LayerFields ==
  ASSUME TypeOK, NEW d \in Documents, NEW layer
  PROVE  /\ Layer(d, layer).doc = d
         /\ Layer(d, layer).refs \subseteq call[d].refs
         /\ Layer(d, layer).raw = Open(d)
  BY DEF Layer

\* What store_in_vault does to its call and to the vault.
LEMMA StoreStep ==
  ASSUME TypeOK, NEW d \in Documents, NEW o \in Outcomes, StoreInVault(d, o)
  PROVE  \E i \in Indices :
           /\ \A v \in vault' \ vault : v = [doc |-> d, chunk |-> i, salt |-> call[d].salt]
           /\ vault \subseteq vault'
           /\ \A e \in Documents \ {d} : call'[e] = call[e]
           /\ call'[d].project = call[d].project /\ call'[d].action = call[d].action
           /\ call'[d].at \in {"failed", "scan"}
           /\ \/ call'[d].refs = call[d].refs
              \/ /\ call'[d].refs = call[d].refs \cup {i}
                 /\ [doc |-> d, chunk |-> i, salt |-> call[d].salt] \in vault'
<1>1. PICK i \in Indices :
        /\ vault' = IF Takes(o)
                    THEN vault \cup {[doc |-> d, chunk |-> i, salt |-> call[d].salt]}
                    ELSE vault
        /\ call' = IF Raises(o) THEN [call EXCEPT ![d].at = "failed"]
                   ELSE [call EXCEPT ![d].at = "scan", ![d].handled = @ \cup {i},
                                     ![d].refs = @ \cup {i}]
  BY DEF StoreInVault
<1>2. Takes(o) \/ Raises(o)
  BY DEF Takes, Raises
<1>3. call[d] \in Calls
  BY DEF TypeOK
<1>4. CASE Raises(o)
  BY <1>1, <1>3, <1>4 DEF TypeOK, Calls
<1>5. CASE ~Raises(o)
  <2>1. call'[d] = [call[d] EXCEPT !.at = "scan", !.handled = @ \cup {i}, !.refs = @ \cup {i}]
    BY <1>1, <1>5 DEF TypeOK
  <2>2. /\ call'[d].project = call[d].project /\ call'[d].action = call[d].action
        /\ call'[d].at = "scan" /\ call'[d].refs = call[d].refs \cup {i}
    BY <2>1, <1>3 DEF Calls
  <2> QED
    BY <1>1, <1>2, <1>5, <2>2 DEF TypeOK
<1> QED
  BY <1>4, <1>5

LEMMA SaltsNext == Typed /\ SaltsAreStored /\ [Next]_vars => SaltsAreStored'
<1> SUFFICES ASSUME Typed, TypeOK, SaltsAreStored, [Next]_vars PROVE SaltsAreStored'
  BY DEF Typed
<1> USE NamesAssumption DEF SaltsAreStored
<1>1. ASSUME NEW d \in Documents, NEW p \in Projects, NEW pii \in SUBSET Indices,
              Start(d, p, pii)
      PROVE  SaltsAreStored'
  BY <1>1 DEF Start, stores, TypeOK, Calls, Originals
<1>2. ASSUME NEW d \in Documents, NEW o \in Outcomes, InsertRow(d, o)
      PROVE  SaltsAreStored'
  BY <1>2 DEF InsertRow, Goto, TypeOK, Calls, Originals
<1>3. ASSUME NEW d \in Documents, NEW a \in Actions, AskPrivacy(d, a)
      PROVE  SaltsAreStored'
  BY <1>3 DEF AskPrivacy, stores, TypeOK, Calls, Originals
<1>4. ASSUME NEW d \in Documents, Mask(d)
      PROVE  SaltsAreStored'
  BY <1>4 DEF Mask, stores, TypeOK, Calls, Originals
<1>5. ASSUME NEW d \in Documents, ReadSalt(d)
      PROVE  SaltsAreStored'
  <2>1. /\ call'[d].project = call[d].project /\ call'[d].at # "idle"
        /\ call'[d].at = "store" => call'[d].salt = salts[call[d].project]
        /\ \A e \in Documents \ {d} : call'[e] = call[e]
    BY <1>5, ReadStep
  <2>2. UNCHANGED <<salts, stray, vault>>
    BY <1>5 DEF ReadSalt, stores
  <2> QED
    BY <2>1, <2>2 DEF TypeOK, Originals
<1>6. ASSUME NEW d \in Documents, NEW o \in Outcomes, NEW s \in Salts,
             InsertSalt(d, s, o)
      PROVE  SaltsAreStored'
  <2>1. /\ call'[d].project = call[d].project /\ call'[d].at = "reread"
        /\ \A e \in Documents \ {d} : call'[e] = call[e]
    BY <1>6, InsertStep
  <2>2. \A p \in Projects : salts[p] # None => salts'[p] = salts[p]
    BY <1>6 DEF InsertSalt, TypeOK
  <2>3. UNCHANGED <<stray, vault>>
    BY <1>6 DEF InsertSalt
  <2>4. \A v \in vault : v.doc \in Documents /\ v.salt \in Salts
    BY DEF TypeOK, Originals
  <2>5. \A e \in Documents :
          /\ call[e].at # "idle" => call[e].project \in Projects
          /\ call[e].at = "store" => call[e].salt \in Salts
    BY DEF Typed, ShapedCalls
  <2> QED
    BY <2>1, <2>2, <2>3, <2>4, <2>5
<1>7. ASSUME NEW d \in Documents, RereadSalt(d)
      PROVE  SaltsAreStored'
  BY <1>7 DEF RereadSalt, WinningSalt, TypeOK, Calls, Originals
<1>8. ASSUME NEW d \in Documents, NEW o \in Outcomes, StoreInVault(d, o)
      PROVE  SaltsAreStored'
  <2>1. call[d].at = "store"
    BY <1>8 DEF StoreInVault
  <2>2. UNCHANGED <<salts, stray>>
    BY <1>8 DEF StoreInVault
  <2>3. PICK i \in Indices :
          /\ \A v \in vault' \ vault : v = [doc |-> d, chunk |-> i, salt |-> call[d].salt]
          /\ call'[d].project = call[d].project /\ call'[d].action = call[d].action
          /\ call'[d].at \in {"failed", "scan"}
          /\ \A e \in Documents \ {d} : call'[e] = call[e]
    <3> HIDE DEF SaltsAreStored
    <3> QED
      BY <1>8, StoreStep
  <2> QED
    BY <2>1, <2>2, <2>3 DEF TypeOK, Originals
<1>9. ASSUME NEW d \in Documents, NEW allowed \in BOOLEAN, Gate(d, allowed)
      PROVE  SaltsAreStored'
  BY <1>9 DEF Gate, Goto, stores, TypeOK, Calls, Originals
<1>10. ASSUME NEW d \in Documents, NEW o \in Outcomes, RecordRejection(d, o)
      PROVE  SaltsAreStored'
  BY <1>10 DEF RecordRejection, Goto, TypeOK, Calls, Originals
<1>11. ASSUME NEW d \in Documents, NEW o \in Outcomes, RemoveRejected(d, o)
      PROVE  SaltsAreStored'
  BY <1>11 DEF RemoveRejected, Goto, DeleteRows, Cascade, TypeOK, Calls, Originals
<1>12. ASSUME NEW d \in Documents, NEW o \in Outcomes, UpsertChunks(d, o)
      PROVE  SaltsAreStored'
  BY <1>12 DEF UpsertChunks, Goto, TypeOK, Calls, Originals
<1>13. ASSUME NEW d \in Documents, NEW layer \in {"L0", "L1"}, NEW made \in BOOLEAN,
               UpsertLayer(d, layer, made)
      PROVE  SaltsAreStored'
  BY <1>13 DEF UpsertLayer, Goto, TypeOK, Calls, Originals
<1>14. ASSUME NEW d \in Documents, NEW o \in Outcomes, Finish(d, o)
      PROVE  SaltsAreStored'
  BY <1>14 DEF Finish, Goto, TypeOK, Calls, Originals
<1>15. ASSUME NEW d \in Documents, CallFails(d)
      PROVE  SaltsAreStored'
  BY <1>15 DEF CallFails, Goto, stores, TypeOK, Calls, Originals
<1>16. ASSUME NEW x \in Deletions, NEW f \in Projects \cup {All}, StartDelete(x, f)
      PROVE  SaltsAreStored'
  BY <1>16 DEF StartDelete, stores, TypeOK, Calls, Originals
<1>17. ASSUME NEW x \in Deletions, NEW o \in Outcomes, DeletePoints(x, o)
      PROVE  SaltsAreStored'
  BY <1>17 DEF DeletePoints, TypeOK, Calls, Originals
<1>18. ASSUME NEW x \in Deletions, NEW o \in Outcomes, DeleteMatching(x, o)
      PROVE  SaltsAreStored'
  BY <1>18 DEF DeleteMatching, DeleteRows, Cascade, TypeOK, Calls, Originals
<1>19. CASE UNCHANGED vars
  BY <1>19 DEF vars, stores
<1> QED
  BY <1>1, <1>2, <1>3, <1>4, <1>5, <1>6, <1>7, <1>8, <1>9, <1>10, <1>11, <1>12, <1>13,
     <1>14, <1>15, <1>16, <1>17, <1>18, <1>19 DEF Next

\* Two calls of get_or_create_project_salt that create a salt at once both end up
\* with the one the table kept, so the vault never mixes salts within a project,
\* unless the salt could not be stored.
THEOREM SaltsAgree == Spec => []OneSalt
<1>1. Init => SaltsAreStored
  BY DEF Init, SaltsAreStored, NoCall
<1>2. SaltsAreStored => OneSalt
  BY DEF SaltsAreStored, OneSalt, SameProject
<1> QED
  BY <1>1, <1>2, TypedInit, TypedNext, SaltsNext, PTL DEF Spec

-----------------------------------------------------------------------------
(* References: while its row exists, every chunk a call refers to has its       *)
(* original, and points refer to no other chunks.                               *)
OriginalsAreKept ==
  /\ \A d \in Documents : rows[d].exists =>
       \A i \in call[d].refs : \E v \in vault : v.doc = d /\ v.chunk = i
  /\ \A q \in points : q.refs \subseteq call[q.doc].refs

LEMMA OriginalsNext == Typed /\ OriginalsAreKept /\ [Next]_vars => OriginalsAreKept'
<1> SUFFICES ASSUME Typed, TypeOK, OriginalsAreKept, [Next]_vars PROVE OriginalsAreKept'
  BY DEF Typed
<1> USE NamesAssumption DEF OriginalsAreKept
<1>1. ASSUME NEW d \in Documents, NEW p \in Projects, NEW pii \in SUBSET Indices,
              Start(d, p, pii)
      PROVE  OriginalsAreKept'
  <2>1. call[d].refs = {}
    BY <1>1 DEF Start, stores, Typed, ShapedCalls
  <2>2. /\ call'[d].refs = {}
        /\ \A e \in Documents \ {d} : call'[e] = call[e]
    BY <1>1, <2>1 DEF Start, TypeOK, NoCall
  <2>3. vault' = vault /\ points' = points /\ rows' = rows
    BY <1>1 DEF Start, stores, TypeOK
  <2> QED
    BY <2>1, <2>2, <2>3 DEF TypeOK, Layers
<1>2. ASSUME NEW d \in Documents, NEW o \in Outcomes, InsertRow(d, o)
      PROVE  OriginalsAreKept'
  <2>1. call[d].refs = {}
    BY <1>2 DEF InsertRow, Typed, ShapedCalls
  <2>2. /\ call'[d].refs = {}
        /\ \A e \in Documents \ {d} : call'[e] = call[e]
    BY <1>2, <2>1 DEF InsertRow, Goto
  <2>3. vault' = vault /\ points' = points /\ \A e \in Documents \ {d} : rows'[e] = rows[e]
    BY <1>2 DEF InsertRow, TypeOK
  <2> QED
    BY <2>1, <2>2, <2>3 DEF TypeOK, Layers
<1>3. ASSUME NEW d \in Documents, NEW a \in Actions, AskPrivacy(d, a)
      PROVE  OriginalsAreKept'
  <2>1. \A e \in Documents : call'[e].refs = call[e].refs
    BY <1>3 DEF AskPrivacy, TypeOK, Calls
  <2>2. rows' = rows /\ vault' = vault /\ points' = points
    BY <1>3 DEF AskPrivacy, stores
  <2> QED
    BY <2>1, <2>2 DEF TypeOK, Layers
<1>4. ASSUME NEW d \in Documents, Mask(d)
      PROVE  OriginalsAreKept'
  BY <1>4 DEF Mask, stores, TypeOK, Calls, Layers, Rows
<1>5. ASSUME NEW d \in Documents, ReadSalt(d)
      PROVE  OriginalsAreKept'
  <2>1. \A e \in Documents : call'[e].refs = call[e].refs
    BY <1>5, ReadStep
  <2>2. rows' = rows /\ vault' = vault /\ points' = points
    BY <1>5 DEF ReadSalt, stores
  <2> QED
    BY <2>1, <2>2 DEF TypeOK, Layers
<1>6. ASSUME NEW d \in Documents, NEW o \in Outcomes, NEW s \in Salts,
             InsertSalt(d, s, o)
      PROVE  OriginalsAreKept'
  <2>1. \A e \in Documents : call'[e].refs = call[e].refs
    BY <1>6, InsertStep
  <2>2. rows' = rows /\ vault' = vault /\ points' = points
    BY <1>6 DEF InsertSalt
  <2> QED
    BY <2>1, <2>2 DEF TypeOK, Layers
<1>7. ASSUME NEW d \in Documents, RereadSalt(d)
      PROVE  OriginalsAreKept'
  BY <1>7 DEF RereadSalt, TypeOK, Calls, Layers, Rows
<1>8. ASSUME NEW d \in Documents, NEW o \in Outcomes, StoreInVault(d, o)
      PROVE  OriginalsAreKept'
  <2>1. PICK i \in Indices :
          /\ vault \subseteq vault'
          /\ \A e \in Documents \ {d} : call'[e] = call[e]
          /\ \/ call'[d].refs = call[d].refs
             \/ /\ call'[d].refs = call[d].refs \cup {i}
                /\ [doc |-> d, chunk |-> i, salt |-> call[d].salt] \in vault'
    <3> HIDE DEF OriginalsAreKept
    <3> QED
      BY <1>8, StoreStep
  <2>2. rows' = rows /\ points' = points
    BY <1>8 DEF StoreInVault
  <2>3. \A e \in Documents : call[e].refs \subseteq call'[e].refs
    BY <2>1
  <2> QED
    BY <2>1, <2>2, <2>3 DEF TypeOK, Layers
<1>9. ASSUME NEW d \in Documents, NEW allowed \in BOOLEAN, Gate(d, allowed)
      PROVE  OriginalsAreKept'
  BY <1>9 DEF Gate, Goto, stores, TypeOK, Calls, Layers, Rows
<1>10. ASSUME NEW d \in Documents, NEW o \in Outcomes, RecordRejection(d, o)
      PROVE  OriginalsAreKept'
  BY <1>10 DEF RecordRejection, Goto, TypeOK, Calls, Layers, Rows
<1>11. ASSUME NEW d \in Documents, NEW o \in Outcomes, RemoveRejected(d, o)
      PROVE  OriginalsAreKept'
  <2>1. \A e \in Documents : call'[e].refs = call[e].refs
    BY <1>11, GotoStep DEF RemoveRejected
  <2>2. \A e \in Documents : rows'[e].exists =>
          rows[e].exists /\ \A v \in vault : v.doc = e => v \in vault'
    BY <1>11 DEF RemoveRejected, DeleteRows, Cascade, NoRow
  <2> QED
    BY <1>11, <2>1, <2>2 DEF RemoveRejected, TypeOK, Layers
<1>12. ASSUME NEW d \in Documents, NEW o \in Outcomes, UpsertChunks(d, o)
      PROVE  OriginalsAreKept'
  <2>1. \A e \in Documents : call'[e].refs = call[e].refs
    BY <1>12, GotoStep DEF UpsertChunks
  <2>2. \A q \in points' : q \in points \/ (q.doc = d /\ q.refs \subseteq call[d].refs)
    <3>1. points' = points \/ points' = points \cup {Layer(d, "L2")}
      BY <1>12 DEF UpsertChunks
    <3>2. Layer(d, "L2").doc = d /\ Layer(d, "L2").refs \subseteq call[d].refs
      BY LayerFields
    <3>3. \A q \in points' : q \in points \/ q = Layer(d, "L2")
      BY <3>1
    <3> QED
      BY <3>2, <3>3
  <2>3. rows' = rows /\ vault' = vault
    BY <1>12 DEF UpsertChunks
  <2> QED
    BY <2>1, <2>2, <2>3 DEF TypeOK, Layers
<1>13. ASSUME NEW d \in Documents, NEW layer \in {"L0", "L1"}, NEW made \in BOOLEAN,
               UpsertLayer(d, layer, made)
      PROVE  OriginalsAreKept'
  <2>1. \A e \in Documents : call'[e].refs = call[e].refs
    BY <1>13, GotoStep DEF UpsertLayer
  <2>2. \A q \in points' : q \in points \/ (q.doc = d /\ q.refs \subseteq call[d].refs)
    <3>1. points' = points \/ points' = points \cup {Layer(d, layer)}
      BY <1>13 DEF UpsertLayer
    <3>2. Layer(d, layer).doc = d /\ Layer(d, layer).refs \subseteq call[d].refs
      BY LayerFields
    <3>3. \A q \in points' : q \in points \/ q = Layer(d, layer)
      BY <3>1
    <3> QED
      BY <3>2, <3>3
  <2>3. rows' = rows /\ vault' = vault
    BY <1>13 DEF UpsertLayer
  <2> QED
    BY <2>1, <2>2, <2>3 DEF TypeOK, Layers
<1>14. ASSUME NEW d \in Documents, NEW o \in Outcomes, Finish(d, o)
      PROVE  OriginalsAreKept'
  BY <1>14 DEF Finish, Goto, TypeOK, Calls, Layers, Rows
<1>15. ASSUME NEW d \in Documents, CallFails(d)
      PROVE  OriginalsAreKept'
  BY <1>15 DEF CallFails, Goto, stores, TypeOK, Calls, Layers, Rows
<1>16. ASSUME NEW x \in Deletions, NEW f \in Projects \cup {All}, StartDelete(x, f)
      PROVE  OriginalsAreKept'
  BY <1>16 DEF StartDelete, stores, TypeOK, Calls, Layers, Rows
<1>17. ASSUME NEW x \in Deletions, NEW o \in Outcomes, DeletePoints(x, o)
      PROVE  OriginalsAreKept'
  BY <1>17 DEF DeletePoints, TypeOK, Calls, Layers, Rows
<1>18. ASSUME NEW x \in Deletions, NEW o \in Outcomes, DeleteMatching(x, o)
      PROVE  OriginalsAreKept'
  <2>1. \A e \in Documents : call'[e].refs = call[e].refs
    BY <1>18 DEF DeleteMatching, TypeOK, Calls
  <2>2. \A e \in Documents : rows'[e].exists =>
          rows[e].exists /\ \A v \in vault : v.doc = e => v \in vault'
    BY <1>18 DEF DeleteMatching, DeleteRows, Cascade, NoRow
  <2> QED
    BY <1>18, <2>1, <2>2 DEF DeleteMatching, TypeOK, Layers
<1>19. CASE UNCHANGED vars
  BY <1>19 DEF vars, stores
<1> QED
  BY <1>1, <1>2, <1>3, <1>4, <1>5, <1>6, <1>7, <1>8, <1>9, <1>10, <1>11, <1>12, <1>13,
     <1>14, <1>15, <1>16, <1>17, <1>18, <1>19 DEF Next

\* Row, vault and vectors are written by separate requests, any of which may fail,
\* and deleted by others; still no searchable point of a document that has its row
\* holds a vault_ref without its original.
THEOREM ReferencesResolve == Spec => []RefsResolve
<1>1. Init => OriginalsAreKept
  BY DEF Init, OriginalsAreKept, NoCall, NoRow
<1>2. TypeOK /\ OriginalsAreKept => RefsResolve
  BY DEF OriginalsAreKept, RefsResolve, TypeOK, Layers
<1>3. Typed => TypeOK
  BY DEF Typed
<1> QED
  BY <1>1, <1>2, <1>3, TypedInit, TypedNext, OriginalsNext, PTL DEF Spec

-----------------------------------------------------------------------------
(* Refusals: a call that has originals asked already, so it is not blocked, and *)
(* the gate's rejection is final only when its row, and so its originals, are   *)
(* gone, or a request failed.                                                   *)
OriginalsOfAccepted ==
  \A v \in vault :
    /\ call[v.doc].action # "none"
    /\ call[v.doc].at \notin {"idle", "blocked"}
    /\ call[v.doc].at = "rejected" => failures > 0

LEMMA AcceptedNext == Typed /\ OriginalsOfAccepted /\ [Next]_vars => OriginalsOfAccepted'
<1> SUFFICES ASSUME Typed, TypeOK, OriginalsOfAccepted, [Next]_vars
             PROVE OriginalsOfAccepted'
  BY DEF Typed
<1> USE NamesAssumption DEF OriginalsOfAccepted
<1>1. ASSUME NEW d \in Documents, NEW p \in Projects, NEW pii \in SUBSET Indices,
              Start(d, p, pii)
      PROVE  OriginalsOfAccepted'
  BY <1>1 DEF Start, stores, TypeOK, Calls, Originals
<1>2. ASSUME NEW d \in Documents, NEW o \in Outcomes, InsertRow(d, o)
      PROVE  OriginalsOfAccepted'
  <2>1. /\ call'[d].action = call[d].action /\ call[d].at # "idle"
        /\ call'[d].at = "scan"
        /\ \A e \in Documents \ {d} : call'[e] = call[e]
    BY <1>2, GotoStep DEF InsertRow
  <2>2. failures <= failures' /\ failures' \in Nat /\ (FALSE => failures' > 0)
    BY <1>2, CountedInNat DEF InsertRow, TypeOK, Outcomes
  <2>3. vault' = vault
    BY <1>2 DEF InsertRow
  <2> QED
    BY <2>1, <2>2, <2>3 DEF TypeOK, Originals
<1>3. ASSUME NEW d \in Documents, NEW a \in Actions, AskPrivacy(d, a)
      PROVE  OriginalsOfAccepted'
  BY <1>3 DEF AskPrivacy, stores, TypeOK, Calls, Originals
<1>4. ASSUME NEW d \in Documents, Mask(d)
      PROVE  OriginalsOfAccepted'
  BY <1>4 DEF Mask, stores, TypeOK, Calls, Originals
<1>5. ASSUME NEW d \in Documents, ReadSalt(d)
      PROVE  OriginalsOfAccepted'
  <2>1. \A e \in Documents : \/ call'[e] = call[e]
                             \/ /\ call'[e].action = "vault"
                                /\ call'[e].at \in {"new salt", "store"}
    BY <1>5, ReadStep
  <2>2. vault' = vault /\ failures' = failures
    BY <1>5 DEF ReadSalt, stores
  <2> QED
    BY <2>1, <2>2 DEF TypeOK, Originals
<1>6. ASSUME NEW d \in Documents, NEW o \in Outcomes, NEW s \in Salts,
             InsertSalt(d, s, o)
      PROVE  OriginalsOfAccepted'
  <2>1. /\ call'[d].action = call[d].action /\ call[d].at # "idle"
        /\ call'[d].at = "reread"
        /\ \A e \in Documents \ {d} : call'[e] = call[e]
    BY <1>6, InsertStep
  <2>2. failures <= failures' /\ failures' \in Nat /\ (FALSE => failures' > 0)
    BY <1>6, CountedInNat DEF InsertSalt, TypeOK, Outcomes
  <2>3. vault' = vault
    BY <1>6 DEF InsertSalt
  <2> QED
    BY <2>1, <2>2, <2>3 DEF TypeOK, Originals
<1>7. ASSUME NEW d \in Documents, RereadSalt(d)
      PROVE  OriginalsOfAccepted'
  BY <1>7 DEF RereadSalt, TypeOK, Calls, Originals
<1>8. ASSUME NEW d \in Documents, NEW o \in Outcomes, StoreInVault(d, o)
      PROVE  OriginalsOfAccepted'
  <2>1. call[d].action = "vault" /\ call[d].at = "store"
    BY <1>8 DEF StoreInVault, Typed, ShapedCalls
  <2>2. PICK i \in Indices :
          /\ \A v \in vault' \ vault : v = [doc |-> d, chunk |-> i, salt |-> call[d].salt]
          /\ call'[d].project = call[d].project /\ call'[d].action = call[d].action
          /\ call'[d].at \in {"failed", "scan"}
          /\ \A e \in Documents \ {d} : call'[e] = call[e]
    <3> HIDE DEF OriginalsOfAccepted
    <3> QED
      BY <1>8, StoreStep
  <2>3. failures <= failures' /\ failures' \in Nat
    BY <1>8, CountedInNat DEF StoreInVault, TypeOK
  <2> QED
    BY <2>1, <2>2, <2>3 DEF TypeOK, Originals
<1>9. ASSUME NEW d \in Documents, NEW allowed \in BOOLEAN, Gate(d, allowed)
      PROVE  OriginalsOfAccepted'
  BY <1>9 DEF Gate, Goto, stores, TypeOK, Calls, Originals
<1>10. ASSUME NEW d \in Documents, NEW o \in Outcomes, RecordRejection(d, o)
      PROVE  OriginalsOfAccepted'
  <2>1. /\ call'[d].action = call[d].action /\ call[d].at # "idle"
        /\ call'[d].at = IF Raises(o) THEN "rejected" ELSE "remove"
        /\ \A e \in Documents \ {d} : call'[e] = call[e]
    BY <1>10, GotoStep DEF RecordRejection
  <2>2. failures <= failures' /\ failures' \in Nat /\ (Raises(o) => failures' > 0)
    BY <1>10, CountedInNat DEF RecordRejection, TypeOK, Outcomes
  <2>3. vault' = vault
    BY <1>10 DEF RecordRejection
  <2> QED
    BY <2>1, <2>2, <2>3 DEF TypeOK, Originals
<1>11. ASSUME NEW d \in Documents, NEW o \in Outcomes, RemoveRejected(d, o)
      PROVE  OriginalsOfAccepted'
  <2>1. /\ call'[d].action = call[d].action /\ call[d].at # "idle"
        /\ call'[d].at = "rejected"
        /\ \A e \in Documents \ {d} : call'[e] = call[e]
    BY <1>11, GotoStep DEF RemoveRejected
  <2>2. failures <= failures' /\ failures' \in Nat
    BY <1>11, CountedInNat DEF RemoveRejected, TypeOK
  <2>3. vault' \subseteq vault
    BY <1>11 DEF RemoveRejected, DeleteRows, Cascade
  <2>4. failures' > 0 \/ \A v \in vault' : v.doc # d
    BY <1>11, CountedInNat DEF RemoveRejected, DeleteRows, Cascade, Takes, Raises, TypeOK
  <2> QED
    BY <2>1, <2>2, <2>3, <2>4 DEF TypeOK, Originals
<1>12. ASSUME NEW d \in Documents, NEW o \in Outcomes, UpsertChunks(d, o)
      PROVE  OriginalsOfAccepted'
  <2>1. /\ call'[d].action = call[d].action /\ call[d].at # "idle"
        /\ call'[d].at \in {"failed", "L0"}
        /\ \A e \in Documents \ {d} : call'[e] = call[e]
    BY <1>12, GotoStep DEF UpsertChunks
  <2>2. failures <= failures' /\ failures' \in Nat /\ (FALSE => failures' > 0)
    BY <1>12, CountedInNat DEF UpsertChunks, TypeOK, Outcomes
  <2>3. vault' = vault
    BY <1>12 DEF UpsertChunks
  <2> QED
    BY <2>1, <2>2, <2>3 DEF TypeOK, Originals
<1>13. ASSUME NEW d \in Documents, NEW layer \in {"L0", "L1"}, NEW made \in BOOLEAN,
               UpsertLayer(d, layer, made)
      PROVE  OriginalsOfAccepted'
  BY <1>13 DEF UpsertLayer, Goto, TypeOK, Calls, Originals
<1>14. ASSUME NEW d \in Documents, NEW o \in Outcomes, Finish(d, o)
      PROVE  OriginalsOfAccepted'
  <2>1. /\ call'[d].action = call[d].action /\ call[d].at # "idle"
        /\ call'[d].at = "ok"
        /\ \A e \in Documents \ {d} : call'[e] = call[e]
    BY <1>14, GotoStep DEF Finish
  <2>2. failures <= failures' /\ failures' \in Nat /\ (FALSE => failures' > 0)
    BY <1>14, CountedInNat DEF Finish, TypeOK, Outcomes
  <2>3. vault' = vault
    BY <1>14 DEF Finish
  <2> QED
    BY <2>1, <2>2, <2>3 DEF TypeOK, Originals
<1>15. ASSUME NEW d \in Documents, CallFails(d)
      PROVE  OriginalsOfAccepted'
  <2>1. /\ call'[d].action = call[d].action /\ call[d].at # "idle"
        /\ call'[d].at = "failed"
        /\ \A e \in Documents \ {d} : call'[e] = call[e]
    BY <1>15, GotoStep DEF CallFails
  <2>2. failures <= failures' /\ failures' \in Nat /\ (FALSE => failures' > 0)
    BY <1>15, CountedInNat DEF CallFails, TypeOK, Outcomes
  <2>3. vault' = vault
    BY <1>15 DEF CallFails, stores
  <2> QED
    BY <2>1, <2>2, <2>3 DEF TypeOK, Originals
<1>16. ASSUME NEW x \in Deletions, NEW f \in Projects \cup {All}, StartDelete(x, f)
      PROVE  OriginalsOfAccepted'
  BY <1>16 DEF StartDelete, stores, TypeOK, Calls, Originals
<1>17. ASSUME NEW x \in Deletions, NEW o \in Outcomes, DeletePoints(x, o)
      PROVE  OriginalsOfAccepted'
  <2>1. \A e \in Documents : call'[e] = call[e]
    BY <1>17 DEF DeletePoints
  <2>2. failures <= failures' /\ failures' \in Nat
    BY <1>17, CountedInNat DEF DeletePoints, TypeOK
  <2>3. vault' \subseteq vault
    BY <1>17 DEF DeletePoints, DeleteRows, Cascade
  <2> QED
    BY <2>1, <2>2, <2>3 DEF TypeOK, Originals
<1>18. ASSUME NEW x \in Deletions, NEW o \in Outcomes, DeleteMatching(x, o)
      PROVE  OriginalsOfAccepted'
  <2>1. \A e \in Documents : call'[e] = call[e]
    BY <1>18 DEF DeleteMatching
  <2>2. failures <= failures' /\ failures' \in Nat
    BY <1>18, CountedInNat DEF DeleteMatching, TypeOK
  <2>3. vault' \subseteq vault
    BY <1>18 DEF DeleteMatching, DeleteRows, Cascade
  <2> QED
    BY <2>1, <2>2, <2>3 DEF TypeOK, Originals
<1>19. CASE UNCHANGED vars
  BY <1>19 DEF vars, stores
<1> QED
  BY <1>1, <1>2, <1>3, <1>4, <1>5, <1>6, <1>7, <1>8, <1>9, <1>10, <1>11, <1>12, <1>13,
     <1>14, <1>15, <1>16, <1>17, <1>18, <1>19 DEF Next

\* Whatever is refused, by the privacy policy in the middle of the loop over the
\* chunks or by the quality gate after it, leaves no original in the vault.
LEMMA RefusalsKeepNoOriginals == Spec => [](\A v \in vault : OfAccepted(v))
<1>1. Init => OriginalsOfAccepted
  BY DEF Init, OriginalsOfAccepted
<1>2. OriginalsOfAccepted => \A v \in vault : OfAccepted(v)
  BY DEF OriginalsOfAccepted, OfAccepted
<1> QED
  BY <1>1, <1>2, TypedInit, TypedNext, AcceptedNext, PTL DEF Spec

(* What is searchable was cleared, and its call is past the gate.               *)
PointsOfCleared ==
  \A q \in points :
    /\ q.raw = {}
    /\ call[q.doc].at \in {"L0", "L1", "final", "ok", "failed"}

LEMMA ClearedNext == Typed /\ PointsOfCleared /\ [Next]_vars => PointsOfCleared'
<1> SUFFICES ASSUME Typed, TypeOK, PointsOfCleared, [Next]_vars PROVE PointsOfCleared'
  BY DEF Typed
<1> USE NamesAssumption DEF PointsOfCleared
<1>1. ASSUME NEW d \in Documents, NEW p \in Projects, NEW pii \in SUBSET Indices,
              Start(d, p, pii)
      PROVE  PointsOfCleared'
  BY <1>1 DEF Start, stores, TypeOK, Calls, Layers
<1>2. ASSUME NEW d \in Documents, NEW o \in Outcomes, InsertRow(d, o)
      PROVE  PointsOfCleared'
  BY <1>2 DEF InsertRow, Goto, TypeOK, Calls, Layers
<1>3. ASSUME NEW d \in Documents, NEW a \in Actions, AskPrivacy(d, a)
      PROVE  PointsOfCleared'
  BY <1>3 DEF AskPrivacy, stores, TypeOK, Calls, Layers
<1>4. ASSUME NEW d \in Documents, Mask(d)
      PROVE  PointsOfCleared'
  BY <1>4 DEF Mask, stores, TypeOK, Calls, Layers
<1>5. ASSUME NEW d \in Documents, ReadSalt(d)
      PROVE  PointsOfCleared'
  BY <1>5 DEF ReadSalt, stores, TypeOK, Calls, Layers
<1>6. ASSUME NEW d \in Documents, NEW o \in Outcomes, NEW s \in Salts,
             InsertSalt(d, s, o)
      PROVE  PointsOfCleared'
  BY <1>6 DEF InsertSalt, TypeOK, Calls, Layers
<1>7. ASSUME NEW d \in Documents, RereadSalt(d)
      PROVE  PointsOfCleared'
  BY <1>7 DEF RereadSalt, TypeOK, Calls, Layers
<1>8. ASSUME NEW d \in Documents, NEW o \in Outcomes, StoreInVault(d, o)
      PROVE  PointsOfCleared'
  BY <1>8 DEF StoreInVault, TypeOK, Calls, Layers
<1>9. ASSUME NEW d \in Documents, NEW allowed \in BOOLEAN, Gate(d, allowed)
      PROVE  PointsOfCleared'
  BY <1>9 DEF Gate, Goto, stores, TypeOK, Calls, Layers
<1>10. ASSUME NEW d \in Documents, NEW o \in Outcomes, RecordRejection(d, o)
      PROVE  PointsOfCleared'
  BY <1>10 DEF RecordRejection, Goto, TypeOK, Calls, Layers
<1>11. ASSUME NEW d \in Documents, NEW o \in Outcomes, RemoveRejected(d, o)
      PROVE  PointsOfCleared'
  BY <1>11 DEF RemoveRejected, Goto, DeleteRows, Cascade, TypeOK, Calls, Layers
<1>12. ASSUME NEW d \in Documents, NEW o \in Outcomes, UpsertChunks(d, o)
      PROVE  PointsOfCleared'
  <2>1. call[d].at \in {"embed", "L0", "L1"} /\ Open(d) = {}
    BY <1>12 DEF UpsertChunks, Open, Typed, ShapedCalls
  <2>2. /\ call'[d].at \in {"failed", "L0", "L1", "final"}
        /\ \A e \in Documents \ {d} : call'[e] = call[e]
    BY <1>12, GotoStep DEF UpsertChunks
  <2>3. \A q \in points' : q \in points \/ (q.doc = d /\ q.raw = {})
    BY <1>12, <2>1, LayerFields DEF UpsertChunks
  <2> QED
    BY <2>2, <2>3 DEF TypeOK, Layers
<1>13. ASSUME NEW d \in Documents, NEW layer \in {"L0", "L1"}, NEW made \in BOOLEAN,
               UpsertLayer(d, layer, made)
      PROVE  PointsOfCleared'
  <2>1. call[d].at \in {"embed", "L0", "L1"} /\ Open(d) = {}
    BY <1>13 DEF UpsertLayer, Open, Typed, ShapedCalls
  <2>2. /\ call'[d].at \in {"failed", "L0", "L1", "final"}
        /\ \A e \in Documents \ {d} : call'[e] = call[e]
    BY <1>13, GotoStep DEF UpsertLayer
  <2>3. \A q \in points' : q \in points \/ (q.doc = d /\ q.raw = {})
    BY <1>13, <2>1, LayerFields DEF UpsertLayer
  <2> QED
    BY <2>2, <2>3 DEF TypeOK, Layers
<1>14. ASSUME NEW d \in Documents, NEW o \in Outcomes, Finish(d, o)
      PROVE  PointsOfCleared'
  BY <1>14 DEF Finish, Goto, TypeOK, Calls, Layers
<1>15. ASSUME NEW d \in Documents, CallFails(d)
      PROVE  PointsOfCleared'
  BY <1>15 DEF CallFails, Goto, stores, TypeOK, Calls, Layers
<1>16. ASSUME NEW x \in Deletions, NEW f \in Projects \cup {All}, StartDelete(x, f)
      PROVE  PointsOfCleared'
  BY <1>16 DEF StartDelete, stores, TypeOK, Calls, Layers
<1>17. ASSUME NEW x \in Deletions, NEW o \in Outcomes, DeletePoints(x, o)
      PROVE  PointsOfCleared'
  BY <1>17 DEF DeletePoints, TypeOK, Calls, Layers
<1>18. ASSUME NEW x \in Deletions, NEW o \in Outcomes, DeleteMatching(x, o)
      PROVE  PointsOfCleared'
  BY <1>18 DEF DeleteMatching, DeleteRows, Cascade, TypeOK, Calls, Layers
<1>19. CASE UNCHANGED vars
  BY <1>19 DEF vars, stores
<1> QED
  BY <1>1, <1>2, <1>3, <1>4, <1>5, <1>6, <1>7, <1>8, <1>9, <1>10, <1>11, <1>12, <1>13,
     <1>14, <1>15, <1>16, <1>17, <1>18, <1>19 DEF Next

\* No chunk becomes searchable before the loop over all chunks has masked or
\* pseudonymised what was found and the gate has let the document through.
LEMMA SearchableIsCleared == Spec => [](\A q \in points : IsCleared(q))
<1>1. Init => PointsOfCleared
  BY DEF Init, PointsOfCleared
<1>2. PointsOfCleared => \A q \in points : IsCleared(q)
  BY DEF PointsOfCleared, IsCleared
<1> QED
  BY <1>1, <1>2, TypedInit, TypedNext, ClearedNext, PTL DEF Spec

\* A refused document leaves neither an original nor a point to search, and what can be
\* searched holds no personal data in plain, wherever in its loop the pipeline returned.
THEOREM RefusalsKeepNothing == Spec => []RefusalLeavesNothing
<1>1. (\A v \in vault : OfAccepted(v)) /\ (\A q \in points : IsCleared(q))
        => RefusalLeavesNothing
  BY DEF RefusalLeavesNothing
<1> QED
  BY <1>1, RefusalsKeepNoOriginals, SearchableIsCleared, PTL

-----------------------------------------------------------------------------
(* Deletion: the vault holds originals of documents with a row only, so that    *)
(* deleting the rows empties it.                                                *)
OriginalsHaveRows == \A v \in vault : rows[v.doc].exists

LEMMA OriginalsHaveRowsNext ==
  Typed /\ OriginalsHaveRows /\ [Next]_vars => OriginalsHaveRows'
<1> SUFFICES ASSUME Typed, TypeOK, OriginalsHaveRows, [Next]_vars PROVE OriginalsHaveRows'
  BY DEF Typed
<1> USE NamesAssumption DEF OriginalsHaveRows
<1>1. ASSUME NEW d \in Documents, NEW p \in Projects, NEW pii \in SUBSET Indices,
              Start(d, p, pii)
      PROVE  OriginalsHaveRows'
  BY <1>1 DEF Start, stores, TypeOK, Originals, Rows
<1>2. ASSUME NEW d \in Documents, NEW o \in Outcomes, InsertRow(d, o)
      PROVE  OriginalsHaveRows'
  BY <1>2 DEF InsertRow, Goto, TypeOK, Originals, Rows, NewRow
<1>3. ASSUME NEW d \in Documents, NEW a \in Actions, AskPrivacy(d, a)
      PROVE  OriginalsHaveRows'
  BY <1>3 DEF AskPrivacy, stores, TypeOK, Originals, Rows
<1>4. ASSUME NEW d \in Documents, Mask(d)
      PROVE  OriginalsHaveRows'
  BY <1>4 DEF Mask, stores, TypeOK, Originals, Rows
<1>5. ASSUME NEW d \in Documents, ReadSalt(d)
      PROVE  OriginalsHaveRows'
  BY <1>5 DEF ReadSalt, stores, TypeOK, Originals, Rows
<1>6. ASSUME NEW d \in Documents, NEW o \in Outcomes, NEW s \in Salts,
             InsertSalt(d, s, o)
      PROVE  OriginalsHaveRows'
  BY <1>6 DEF InsertSalt, TypeOK, Originals, Rows
<1>7. ASSUME NEW d \in Documents, RereadSalt(d)
      PROVE  OriginalsHaveRows'
  BY <1>7 DEF RereadSalt, TypeOK, Originals, Rows
<1>8. ASSUME NEW d \in Documents, NEW o \in Outcomes, StoreInVault(d, o)
      PROVE  OriginalsHaveRows'
  <2>1. rows' = rows /\ (rows[d].exists \/ o = "failed")
    BY <1>8 DEF StoreInVault
  <2>2. \A v \in vault' : v \in vault \/ (o # "failed" /\ v.doc = d)
    BY <1>8 DEF StoreInVault, Takes
  <2> QED
    BY <2>1, <2>2 DEF TypeOK, Originals
<1>9. ASSUME NEW d \in Documents, NEW allowed \in BOOLEAN, Gate(d, allowed)
      PROVE  OriginalsHaveRows'
  BY <1>9 DEF Gate, Goto, stores, TypeOK, Originals, Rows
<1>10. ASSUME NEW d \in Documents, NEW o \in Outcomes, RecordRejection(d, o)
      PROVE  OriginalsHaveRows'
  BY <1>10 DEF RecordRejection, Goto, TypeOK, Originals, Rows
<1>11. ASSUME NEW d \in Documents, NEW o \in Outcomes, RemoveRejected(d, o)
      PROVE  OriginalsHaveRows'
  BY <1>11 DEF RemoveRejected, Goto, DeleteRows, Cascade, TypeOK, Originals, Rows
<1>12. ASSUME NEW d \in Documents, NEW o \in Outcomes, UpsertChunks(d, o)
      PROVE  OriginalsHaveRows'
  BY <1>12 DEF UpsertChunks, Goto, TypeOK, Originals, Rows
<1>13. ASSUME NEW d \in Documents, NEW layer \in {"L0", "L1"}, NEW made \in BOOLEAN,
               UpsertLayer(d, layer, made)
      PROVE  OriginalsHaveRows'
  BY <1>13 DEF UpsertLayer, Goto, TypeOK, Originals, Rows
<1>14. ASSUME NEW d \in Documents, NEW o \in Outcomes, Finish(d, o)
      PROVE  OriginalsHaveRows'
  BY <1>14 DEF Finish, Goto, TypeOK, Originals, Rows
<1>15. ASSUME NEW d \in Documents, CallFails(d)
      PROVE  OriginalsHaveRows'
  BY <1>15 DEF CallFails, Goto, stores, TypeOK, Originals, Rows
<1>16. ASSUME NEW x \in Deletions, NEW f \in Projects \cup {All}, StartDelete(x, f)
      PROVE  OriginalsHaveRows'
  BY <1>16 DEF StartDelete, stores, TypeOK, Originals, Rows
<1>17. ASSUME NEW x \in Deletions, NEW o \in Outcomes, DeletePoints(x, o)
      PROVE  OriginalsHaveRows'
  BY <1>17 DEF DeletePoints, TypeOK, Originals, Rows
<1>18. ASSUME NEW x \in Deletions, NEW o \in Outcomes, DeleteMatching(x, o)
      PROVE  OriginalsHaveRows'
  BY <1>18 DEF DeleteMatching, DeleteRows, Cascade, TypeOK, Originals, Rows
<1>19. CASE UNCHANGED vars
  BY <1>19 DEF vars, stores
<1> QED
  BY <1>1, <1>2, <1>3, <1>4, <1>5, <1>6, <1>7, <1>8, <1>9, <1>10, <1>11, <1>12, <1>13,
     <1>14, <1>15, <1>16, <1>17, <1>18, <1>19 DEF Next

(* A step of an ingestion: it is not over, and nothing of the others moves.      *)
StepOf(d) ==
  /\ call[d].at \notin Answers
  /\ \A e \in Documents \ {d} : call'[e] = call[e] /\ rows'[e].exists = rows[e].exists
  /\ \A q \in points' : q \in points \/ q.doc = d
  /\ deletion' = deletion

LEMMA StepsOfIngestions ==
  ASSUME TypeOK, [Next]_vars
  PROVE  \/ \E d \in Documents : StepOf(d)
         \/ \E x \in Deletions, f \in Projects \cup {All} : StartDelete(x, f)
         \/ \E x \in Deletions, o \in Outcomes : DeletePoints(x, o) \/ DeleteMatching(x, o)
         \/ UNCHANGED vars
<1> USE DEF StepOf, TypeOK, Answers
<1>1. ASSUME NEW d \in Documents, NEW p \in Projects, NEW pii \in SUBSET Indices,
              Start(d, p, pii)
      PROVE  StepOf(d)
  BY <1>1 DEF Start, stores
<1>2. ASSUME NEW d \in Documents, NEW o \in Outcomes, InsertRow(d, o)
      PROVE  StepOf(d)
  BY <1>2 DEF InsertRow, Goto
<1>3. ASSUME NEW d \in Documents, NEW a \in Actions, AskPrivacy(d, a)
      PROVE  StepOf(d)
  BY <1>3 DEF AskPrivacy, stores
<1>4. ASSUME NEW d \in Documents, Mask(d)
      PROVE  StepOf(d)
  BY <1>4 DEF Mask, stores
<1>5. ASSUME NEW d \in Documents, ReadSalt(d)
      PROVE  StepOf(d)
  BY <1>5 DEF ReadSalt, stores
<1>6. ASSUME NEW d \in Documents, NEW o \in Outcomes, NEW s \in Salts,
             InsertSalt(d, s, o)
      PROVE  StepOf(d)
  BY <1>6 DEF InsertSalt
<1>7. ASSUME NEW d \in Documents, RereadSalt(d)
      PROVE  StepOf(d)
  BY <1>7 DEF RereadSalt
<1>8. ASSUME NEW d \in Documents, NEW o \in Outcomes, StoreInVault(d, o)
      PROVE  StepOf(d)
  BY <1>8 DEF StoreInVault
<1>9. ASSUME NEW d \in Documents, NEW allowed \in BOOLEAN, Gate(d, allowed)
      PROVE  StepOf(d)
  BY <1>9 DEF Gate, Goto, stores
<1>10. ASSUME NEW d \in Documents, NEW o \in Outcomes, RecordRejection(d, o)
      PROVE  StepOf(d)
  BY <1>10 DEF RecordRejection, Goto
<1>11. ASSUME NEW d \in Documents, NEW o \in Outcomes, RemoveRejected(d, o)
      PROVE  StepOf(d)
  BY <1>11 DEF RemoveRejected, Goto, DeleteRows
<1>12. ASSUME NEW d \in Documents, NEW o \in Outcomes, UpsertChunks(d, o)
      PROVE  StepOf(d)
  BY <1>12 DEF UpsertChunks, Goto, Layer
<1>13. ASSUME NEW d \in Documents, NEW layer \in {"L0", "L1"}, NEW made \in BOOLEAN,
               UpsertLayer(d, layer, made)
      PROVE  StepOf(d)
  BY <1>13 DEF UpsertLayer, Goto, Layer
<1>14. ASSUME NEW d \in Documents, NEW o \in Outcomes, Finish(d, o)
      PROVE  StepOf(d)
  BY <1>14 DEF Finish, Goto
<1>15. ASSUME NEW d \in Documents, CallFails(d)
      PROVE  StepOf(d)
  BY <1>15 DEF CallFails, Goto, stores
<1> QED
  BY <1>1, <1>2, <1>3, <1>4, <1>5, <1>6, <1>7, <1>8, <1>9, <1>10, <1>11, <1>12, <1>13,
     <1>14, <1>15 DEF Next

(* How far a deletion of everything has come with a document that was over       *)
(* before: no ingestion can bring back what it has deleted.                      *)
Erasing(x, d) ==
  /\ call[d].at \in Answers
  /\ deletion[x].at \in {"points", "rows"} /\ rows[d].exists => deletion[x].ids # {}
  /\ deletion[x].at \in {"rows", "ok"} /\ ~deletion[x].errors => \A q \in points : q.doc # d
  /\ deletion[x].at = "ok" => ~rows[d].exists

DeletionsProgress ==
  \A x \in Deletions : deletion[x].filter = All =>
    \A d \in deletion[x].before : Erasing(x, d)

LEMMA DeletionsNext ==
  Typed /\ DeletionsProgress /\ [Next]_vars => DeletionsProgress'
<1> SUFFICES ASSUME Typed, TypeOK, DeletionsProgress, [Next]_vars,
                    NEW y \in Deletions, deletion'[y].filter = All,
                    NEW e \in deletion'[y].before
             PROVE  Erasing(y, e)'
  BY DEF Typed, DeletionsProgress
<1>0. e \in Documents
  BY TypedNext DEF Typed, TypeOK, DeletionCalls
<1>1. ASSUME NEW d \in Documents, StepOf(d) PROVE Erasing(y, e)'
  <2>1. deletion'[y] = deletion[y] /\ Erasing(y, e)
    BY <1>1 DEF StepOf, DeletionsProgress
  <2>2. e # d
    BY <1>1, <2>1 DEF StepOf, Erasing
  <2> QED
    BY <1>0, <1>1, <2>1, <2>2 DEF StepOf, Erasing
<1>2. ASSUME NEW x \in Deletions, NEW f \in Projects \cup {All}, StartDelete(x, f)
      PROVE  Erasing(y, e)'
  <2>1. UNCHANGED <<call, rows, points>>
    BY <1>2 DEF StartDelete, stores
  <2>2. CASE y = x
    <3>1. deletion'[x] = [at |-> "points", filter |-> f, ids |-> {d \in Documents : RowMatches(d, f)},
                          errors |-> FALSE, before |-> Ended]
      BY <1>2, Zenon DEF StartDelete, TypeOK
    <3>2. f = All /\ e \in Ended /\ deletion'[x].at = "points"
      BY <2>2, <3>1
    <3>3. rows[e].exists => e \in deletion'[x].ids
      BY <1>0, <3>1, <3>2 DEF RowMatches
    <3> QED
      BY <2>1, <2>2, <3>2, <3>3 DEF Erasing, Ended
  <2>3. CASE y # x
    <3>1. deletion'[y] = deletion[y]
      BY <1>2, <2>3 DEF StartDelete, TypeOK
    <3> QED
      BY <2>1, <3>1 DEF Erasing, DeletionsProgress
  <2> QED
    BY <2>2, <2>3
<1>3. ASSUME NEW x \in Deletions, NEW o \in Outcomes, DeletePoints(x, o)
      PROVE  Erasing(y, e)'
  <2>1. UNCHANGED <<call, rows>> /\ points' \subseteq points
    BY <1>3 DEF DeletePoints
  <2>2. CASE y = x
    <3>1. deletion[x] \in DeletionCalls
      BY DEF TypeOK
    <3>2. deletion'[x] = [deletion[x] EXCEPT !.at = "rows", !.errors = Raises(o)]
      BY <1>3 DEF DeletePoints, TypeOK
    <3>3. /\ deletion'[x].at = "rows" /\ deletion'[x].errors = Raises(o)
          /\ deletion'[x].ids = deletion[x].ids /\ deletion'[x].before = deletion[x].before
          /\ deletion'[x].filter = deletion[x].filter
      BY <3>1, <3>2 DEF DeletionCalls
    <3>4. deletion[x].at = "points" /\ Erasing(x, e)
      BY <1>3, <2>2, <3>3 DEF DeletePoints, DeletionsProgress
    <3>5. ~Raises(o) => points' = {}
      BY <1>3, <2>2, <3>3 DEF DeletePoints, DeletedPoints, PointMatches, Raises, Takes
    <3> QED
      BY <2>1, <2>2, <3>3, <3>4, <3>5 DEF Erasing
  <2>3. CASE y # x
    <3>1. deletion'[y] = deletion[y]
      BY <1>3, <2>3 DEF DeletePoints, TypeOK
    <3> QED
      BY <2>1, <3>1 DEF Erasing, DeletionsProgress
  <2> QED
    BY <2>2, <2>3
<1>4. ASSUME NEW x \in Deletions, NEW o \in Outcomes, DeleteMatching(x, o)
      PROVE  Erasing(y, e)'
  <2>1. UNCHANGED <<call, points>> /\ (rows'[e].exists => rows[e].exists)
    BY <1>0, <1>4 DEF DeleteMatching, DeleteRows, NoRow
  <2>2. CASE y = x
    <3>1. deletion[x] \in DeletionCalls
      BY DEF TypeOK
    <3>2. deletion'[x] = [deletion[x] EXCEPT !.at = IF Raises(o) THEN "failed" ELSE "ok"]
      BY <1>4 DEF DeleteMatching, TypeOK
    <3>3. /\ deletion'[x].at = (IF Raises(o) THEN "failed" ELSE "ok")
          /\ deletion'[x].errors = deletion[x].errors
          /\ deletion'[x].before = deletion[x].before
          /\ deletion'[x].filter = deletion[x].filter
      BY <3>1, <3>2 DEF DeletionCalls
    <3>4. deletion[x].at = "rows" /\ deletion[x].filter = All /\ Erasing(x, e)
      BY <1>4, <2>2, <3>3 DEF DeleteMatching, DeletionsProgress
    <3>5. ~Raises(o) => ~rows'[e].exists
      <4>1. CASE deletion[x].ids = {}
        BY <2>1, <3>4, <4>1 DEF Erasing
      <4>2. CASE deletion[x].ids # {}
        BY <1>0, <1>4, <3>4, <4>2
           DEF DeleteMatching, DeleteRows, RowMatches, NoRow, Raises, Takes
      <4> QED
        BY <4>1, <4>2
    <3> QED
      BY <2>1, <2>2, <3>3, <3>4, <3>5 DEF Erasing
  <2>3. CASE y # x
    <3>1. deletion'[y] = deletion[y]
      BY <1>4, <2>3 DEF DeleteMatching, TypeOK
    <3> QED
      BY <2>1, <3>1 DEF Erasing, DeletionsProgress
  <2> QED
    BY <2>2, <2>3
<1>5. CASE UNCHANGED vars
  BY <1>5 DEF vars, stores, Erasing, DeletionsProgress
<1> QED
  BY <1>1, <1>2, <1>3, <1>4, <1>5, StepsOfIngestions

\* A deletion without a filter that reports no error has erased every document
\* whose ingestion was over when it started, from rows, vectors and vault, however
\* many ingestions and other deletions ran beside it.
THEOREM DeletionsErase == Spec => []DeletionErases
<1>1. Init => OriginalsHaveRows /\ DeletionsProgress
  BY DEF Init, OriginalsHaveRows, DeletionsProgress, NoDeletion, All, None
<1>2. TypeOK /\ OriginalsHaveRows /\ DeletionsProgress => DeletionErases
  BY DEF OriginalsHaveRows, DeletionsProgress, DeletionErases, Erasing, Erased, Reported,
         TypeOK, Originals
<1>3. Typed => TypeOK
  BY DEF Typed
<1> QED
  BY <1>1, <1>2, <1>3, TypedInit, TypedNext, OriginalsHaveRowsNext, DeletionsNext, PTL
     DEF Spec

=============================================================================
