--------------------------- MODULE TreeHistoryProofs ---------------------------
(***************************************************************************)
(* Theorems about TreeHistory for every set of keys and values and every   *)
(* bound: the two stacks stay a faithful journal of the tree (HistoryInv), *)
(* from which it follows that replay never throws, that a historical read  *)
(* sees the version of its time and leaves no trace, and that the module   *)
(* implements VersionedMap.                                                *)
(***************************************************************************)
EXTENDS TreeHistory, TLAPS

-------------------------------------------------------------------------------
(* Typing *)

\* Undoing an operation that does not throw keeps the types.
LEMMA UndoTypes ==
  ASSUME TypeOK, NEW op \in Operation, ~UndoThrows(op)
  PROVE  UndoTree(op) \in Map /\ UndoSaved(op) \in Operation
  BY DEF TypeOK, Map, Operation, UndoTree, UndoSaved, UndoThrows, Exists

\* Redoing an operation that does not throw keeps the types.
LEMMA RedoTypes ==
  ASSUME TypeOK, NEW op \in Operation, ~RedoThrows(op)
  PROVE  RedoTree(op) \in Map /\ RedoSaved(op) \in Operation
  BY DEF TypeOK, Map, Operation, RedoTree, RedoSaved, RedoThrows, Exists

LEMMA TypeInit == Init => TypeOK
  BY BoundsAssumption DEF Init, TypeOK, Map, EmptyMap, Operation, Version, Phases

\* A change keeps the types: the pushed operation stores a value, not NoVal.
LEMMA CommitTypes ==
  ASSUME TypeOK, NEW kind \in {"insert", "update", "remove"}, NEW k \in Key,
         NEW stored \in Val, NEW w \in Val \cup {NoVal},
         Push(kind, k, stored), Commit(k, w)
  PROVE  TypeOK'
  <1>1. tree' \in Map
    BY DEF TypeOK, Commit, Map
  <1>2. [time |-> clock, kind |-> kind, key |-> k, val |-> stored] \in Operation
    BY BoundsAssumption DEF TypeOK, Operation
  <1>3. operations' \in Seq(Operation)
    BY <1>2 DEF TypeOK, Push
  <1>4. [since |-> clock, map |-> tree'] \in Version
    BY <1>1, BoundsAssumption DEF TypeOK, Version
  <1>5. versions' \in Seq(Version)
    BY <1>4 DEF TypeOK, Commit
  <1>6. QED
    BY <1>1, <1>3, <1>5 DEF TypeOK, Commit, Phases

LEMMA TypeNext == TypeOK /\ [Next]_vars => TypeOK'
  <1> SUFFICES ASSUME TypeOK, [Next]_vars
               PROVE  TypeOK'
    OBVIOUS
  <1>1. CASE Tick
    BY <1>1, BoundsAssumption DEF Tick, TypeOK
  <1>2. ASSUME NEW k \in Key, NEW v \in Val, Insert(k, v)
        PROVE  TypeOK'
    BY <1>2, CommitTypes DEF Insert
  <1>3. ASSUME NEW k \in Key, NEW v \in Val, Update(k, v)
        PROVE  TypeOK'
    <2>1. tree[k] \in Val
      BY <1>3 DEF Update, Exists, TypeOK, Map
    <2>2. QED
      BY <1>3, <2>1, CommitTypes DEF Update
  <1>4. ASSUME NEW k \in Key, Erase(k)
        PROVE  TypeOK'
    <2>1. tree[k] \in Val
      BY <1>4 DEF Erase, Exists, TypeOK, Map
    <2>2. QED
      BY <1>4, <2>1, CommitTypes DEF Erase
  <1>5. ASSUME NEW T \in 0 .. MaxTime, BeginRead(T)
        PROVE  TypeOK'
    BY <1>5 DEF BeginRead, TypeOK, Phases
  <1>6. CASE RevertStep
    <2>1. Top(operations) \in Operation /\ Pop(operations) \in Seq(Operation)
      BY <1>6 DEF RevertStep, MustUndo, TypeOK, Top, Pop
    <2>2. UndoTree(Top(operations)) \in Map /\ UndoSaved(Top(operations)) \in Operation
      BY <1>6, <2>1, UndoTypes DEF RevertStep
    <2>3. undone' \in Seq(Operation)
      BY <1>6, <2>2 DEF RevertStep, TypeOK
    <2>4. QED
      BY <1>6, <2>1, <2>2, <2>3 DEF RevertStep, TypeOK
  <1>7. CASE RedoStep
    <2>1. Head(undone) \in Operation /\ Tail(undone) \in Seq(Operation)
      BY <1>7 DEF RedoStep, TypeOK
    <2>2. RedoTree(Head(undone)) \in Map /\ RedoSaved(Head(undone)) \in Operation
      BY <1>7, <2>1, RedoTypes DEF RedoStep
    <2>3. QED
      BY <1>7, <2>1, <2>2 DEF RedoStep, TypeOK
  <1>8. CASE RevertDone \/ EndRead \/ RedoDone
    BY <1>8 DEF RevertDone, EndRead, RedoDone, TypeOK, Phases
  <1>9. CASE UNCHANGED vars
    BY <1>9 DEF vars, TypeOK
  <1>10. QED
    BY <1>1, <1>2, <1>3, <1>4, <1>5, <1>6, <1>7, <1>8, <1>9 DEF Next

\* The tree, its stacks and the saved values keep their types: no saved value is
\* ever "absent", though undo and redo exchange values with the tree.
THEOREM TypeCorrect == Spec => []TypeOK
  BY TypeInit, TypeNext, PTL DEF Spec

-------------------------------------------------------------------------------
(* One operation: undoing it takes the tree back over one version, redoing it  *)
(* takes the tree forward again, and each leaves stored what the other needs.  *)

\* Undo of a done operation never throws, restores the version before it and
\* saves the value the redo will need.
LEMMA UndoGoesBack ==
  ASSUME NEW op \in Operation, NEW before \in Map, NEW after \in Map,
         after = [before EXCEPT ![op.key] = after[op.key]],
         Done(op, before, after), tree = after
  PROVE  /\ ~UndoThrows(op)
         /\ UndoTree(op) = before
         /\ Undone(UndoSaved(op), before, after)
         /\ UndoSaved(op).key = op.key
         /\ UndoSaved(op).time = op.time
  <1>1. before[op.key] \in Val \cup {NoVal} /\ op.key \in Key
    BY DEF Map, Operation
  <1>2. CASE op.kind = "insert"
    BY <1>1, <1>2 DEF Map, Operation, Done, Undone, UndoThrows, UndoTree, UndoSaved, Exists
  <1>3. CASE op.kind = "update"
    BY <1>1, <1>3, NoValAssumption
    DEF Map, Operation, Done, Undone, UndoThrows, UndoTree, UndoSaved, Exists
  <1>4. CASE op.kind = "remove"
    BY <1>1, <1>4, NoValAssumption
    DEF Map, Operation, Done, Undone, UndoThrows, UndoTree, UndoSaved, Exists
  <1>5. QED
    BY <1>2, <1>3, <1>4 DEF Operation

\* Redo of an undone operation never throws, restores the version after it and
\* saves the value the next undo will need.
LEMMA RedoGoesForward ==
  ASSUME NEW op \in Operation, NEW before \in Map, NEW after \in Map,
         after = [before EXCEPT ![op.key] = after[op.key]],
         Undone(op, before, after), tree = before
  PROVE  /\ ~RedoThrows(op)
         /\ RedoTree(op) = after
         /\ Done(RedoSaved(op), before, after)
         /\ RedoSaved(op).key = op.key
         /\ RedoSaved(op).time = op.time
  <1>1. after[op.key] \in Val \cup {NoVal} /\ op.key \in Key /\ op.val # NoVal
    BY NoValAssumption DEF Map, Operation
  <1>2. CASE op.kind = "insert"
    BY <1>1, <1>2 DEF Map, Operation, Done, Undone, RedoThrows, RedoTree, RedoSaved, Exists
  <1>3. CASE op.kind = "update"
    BY <1>1, <1>3 DEF Map, Operation, Done, Undone, RedoThrows, RedoTree, RedoSaved, Exists
  <1>4. CASE op.kind = "remove"
    BY <1>1, <1>4 DEF Map, Operation, Done, Undone, RedoThrows, RedoTree, RedoSaved, Exists
  <1>5. QED
    BY <1>2, <1>3, <1>4 DEF Operation

-------------------------------------------------------------------------------
(* The inductive invariant *)

LEMMA HistoryInit == Init => HistoryInv
  BY TypeInit
  DEF Init, HistoryInv, StacksCoverVersions, VersionsInOrder, PhaseMatchesStacks, Here,
      MustUndo

\* A change puts one operation on the stack and one version on the history.
LEMMA CommitKeepsHistory ==
  ASSUME HistoryInv, TypeOK',
         NEW kind \in {"insert", "update", "remove"}, NEW k \in Key, NEW stored \in Val,
         NEW w \in Val \cup {NoVal}, Push(kind, k, stored), Commit(k, w),
         kind = "insert" => tree[k] = NoVal /\ w # NoVal,
         kind = "update" => tree[k] = stored /\ w # NoVal,
         kind = "remove" => tree[k] = stored /\ w = NoVal
  PROVE  HistoryInv'
  <1> DEFINE op == [time |-> clock, kind |-> kind, key |-> k, val |-> stored]
  <1> PICK n \in Nat : n = Len(operations)
    BY DEF HistoryInv, TypeOK
  <1>0. /\ n = Len(operations) /\ operations \in Seq(Operation) /\ versions \in Seq(Version)
        /\ tree \in Map /\ clock \in Nat /\ phase = "live" /\ undone = <<>> /\ undone' = <<>>
        /\ Len(versions) = n + 1 /\ tree = versions[n + 1].map
    BY BoundsAssumption
    DEF HistoryInv, TypeOK, StacksCoverVersions, PhaseMatchesStacks, Commit, Here
  <1>1. /\ operations' = Append(operations, op)
        /\ versions' = Append(versions, [since |-> clock, map |-> tree'])
        /\ tree' = [tree EXCEPT ![k] = w]
        /\ clock' = clock /\ phase' = phase /\ asOf' = asOf
    BY DEF Push, Commit
  <1>2. /\ Len(operations') = n + 1 /\ Len(versions') = n + 2
        /\ operations'[n + 1] = op
        /\ versions'[n + 2] = [since |-> clock, map |-> tree']
        /\ \A i \in 1 .. n : operations'[i] = operations[i]
        /\ \A i \in 1 .. n + 1 : versions'[i] = versions[i]
    BY <1>0, <1>1
  <1>3. StacksCoverVersions'
    <2>1. ASSUME NEW i \in 1 .. n
          PROVE  /\ Crosses(operations[i], i)'
                 /\ Done(operations[i], versions[i].map, versions[i + 1].map)'
      <3>1. /\ Crosses(operations[i], i)
            /\ Done(operations[i], versions[i].map, versions[i + 1].map)
        BY <1>0 DEF HistoryInv, StacksCoverVersions
      <3>2. /\ operations'[i] = operations[i]
            /\ versions'[i] = versions[i] /\ versions'[i + 1] = versions[i + 1]
        BY <1>2
      <3>3. QED
        BY <3>1, <3>2 DEF Crosses, Done
    <2>2. versions'[n + 1].map = tree /\ versions'[n + 2].map = tree'
      BY <1>0, <1>2
    <2>3. tree'[k] = w
      BY <1>0, <1>1 DEF Map
    <2>4. Crosses(operations[n + 1], n + 1)'
      <3>1. operations'[n + 1].key = k /\ operations'[n + 1].time = clock
        BY <1>2
      <3>2. versions'[n + 2].since = clock
        BY <1>2
      <3>3. tree' = [tree EXCEPT ![k] = tree'[k]]
        BY <1>1, <2>3
      <3>4. n + 1 + 1 = n + 2
        OBVIOUS
      <3>5. QED
        BY <2>2, <3>1, <3>2, <3>3, <3>4 DEF Crosses
    <2>5. Done(operations[n + 1], versions[n + 1].map, versions[n + 2].map)'
      BY <1>2, <2>2, <2>3 DEF Done
    <2>6. Here' = n + 2 /\ Len(undone') = 0 /\ tree' = versions'[n + 2].map
      BY <1>0, <1>2 DEF Here
    <2>7. \A i \in 1 .. Len(operations') :
            /\ Crosses(operations[i], i)'
            /\ Done(operations[i], versions[i].map, versions[i + 1].map)'
      <3>1. \A i \in 1 .. Len(operations') : i \in 1 .. n \/ i = n + 1
        BY <1>2
      <3>2. n + 1 + 1 = n + 2
        OBVIOUS
      <3>3. QED
        BY <2>1, <2>4, <2>5, <3>1, <3>2
    <2>8. QED
      BY <1>2, <2>6, <2>7 DEF StacksCoverVersions
  <1>4. VersionsInOrder'
    BY <1>0, <1>1, <1>2 DEF HistoryInv, VersionsInOrder, TypeOK, Version
  <1>5. PhaseMatchesStacks'
    BY <1>0, <1>1 DEF PhaseMatchesStacks
  <1>6. QED
    BY <1>3, <1>4, <1>5 DEF HistoryInv

\* One turn of revert_to moves the tree back over the last version and the
\* operation from one stack to the other.
LEMMA RevertStepKeepsHistory ==
  ASSUME HistoryInv, TypeOK', RevertStep
  PROVE  HistoryInv'
  <1> PICK n \in Nat : n = Len(operations)
    BY DEF HistoryInv, TypeOK
  <1> PICK m \in Nat : m = Len(undone)
    BY DEF HistoryInv, TypeOK
  <1> DEFINE op == operations[n]
  <1>1. /\ operations \in Seq(Operation) /\ undone \in Seq(Operation)
        /\ versions \in Seq(Version) /\ n > 0 /\ op \in Operation
        /\ phase = "reverting" /\ op.time > asOf
        /\ n = Len(operations) /\ m = Len(undone)
        /\ Len(versions) = n + m + 1 /\ tree = versions[n + 1].map
    BY DEF HistoryInv, TypeOK, StacksCoverVersions, Here, RevertStep, MustUndo, Top
  <1>a. \A i \in 1 .. n : /\ Crosses(operations[i], i)
                          /\ Done(operations[i], versions[i].map, versions[i + 1].map)
    BY <1>1 DEF HistoryInv, StacksCoverVersions
  <1>b. \A j \in 1 .. m :
          /\ Crosses(undone[j], n + 1 + j - 1)
          /\ Undone(undone[j], versions[n + 1 + j - 1].map, versions[n + 1 + j].map)
    BY <1>1 DEF HistoryInv, StacksCoverVersions, Here
  <1>2. /\ versions[n].map \in Map /\ versions[n + 1].map \in Map
        /\ Crosses(op, n) /\ Done(op, versions[n].map, versions[n + 1].map)
    <2>1. versions[n] \in Version /\ versions[n + 1] \in Version
      BY <1>1
    <2>2. n \in 1 .. n
      BY <1>1
    <2>3. QED
      BY <2>1, <2>2, <1>a DEF Version
  <1>3. /\ UndoTree(op) = versions[n].map
        /\ Undone(UndoSaved(op), versions[n].map, versions[n + 1].map)
        /\ UndoSaved(op).key = op.key
        /\ UndoSaved(op).time = op.time
    BY <1>1, <1>2, UndoGoesBack DEF Crosses
  <1>4. /\ tree' = versions[n].map /\ versions' = versions
        /\ operations' = SubSeq(operations, 1, n - 1)
        /\ undone' = <<UndoSaved(op)>> \o undone
        /\ phase' = phase /\ asOf' = asOf /\ clock' = clock
    BY <1>1, <1>3 DEF RevertStep, Top, Pop
  <1>5. UndoSaved(op) \in Operation
    BY <1>1, UndoTypes DEF HistoryInv, RevertStep, Top
  <1>6. /\ Len(operations') = n - 1 /\ Len(undone') = m + 1
        /\ \A i \in 1 .. n - 1 : operations'[i] = operations[i]
        /\ undone'[1] = UndoSaved(op)
        /\ \A j \in 2 .. m + 1 : undone'[j] = undone[j - 1]
    BY <1>1, <1>4, <1>5
  <1>7. StacksCoverVersions'
    <2>1. ASSUME NEW i \in 1 .. n - 1
          PROVE  /\ Crosses(operations[i], i)'
                 /\ Done(operations[i], versions[i].map, versions[i + 1].map)'
      <3>1. /\ Crosses(operations[i], i)
            /\ Done(operations[i], versions[i].map, versions[i + 1].map)
        BY <1>a
      <3>2. QED
        BY <3>1, <1>4, <1>6 DEF Crosses, Done
    <2>2. ASSUME NEW j \in 1 .. m + 1
          PROVE  /\ Crosses(undone[j], n + j - 1)'
                 /\ Undone(undone[j], versions[n + j - 1].map, versions[n + j].map)'
      <3>1. CASE j = 1
        <4>1. /\ Crosses(UndoSaved(op), n)
              /\ Undone(UndoSaved(op), versions[n].map, versions[n + 1].map)
          BY <1>2, <1>3 DEF Crosses
        <4>2. n + j - 1 = n /\ n + j = n + 1
          BY <3>1
        <4>3. QED
          BY <3>1, <4>1, <4>2, <1>4, <1>6 DEF Crosses, Undone
      <3>2. CASE j # 1
        <4>1. /\ Crosses(undone[j - 1], n + 1 + (j - 1) - 1)
              /\ Undone(undone[j - 1], versions[n + 1 + (j - 1) - 1].map,
                        versions[n + 1 + (j - 1)].map)
          BY <3>2, <1>b
        <4>2. n + 1 + (j - 1) - 1 = n + j - 1 /\ n + 1 + (j - 1) = n + j
          OBVIOUS
        <4>3. undone'[j] = undone[j - 1]
          BY <3>2, <1>6
        <4>4. QED
          BY <4>1, <4>2, <4>3, <1>4 DEF Crosses, Undone
      <3>3. QED
        BY <3>1, <3>2
    <2>3. Here' = n
      BY <1>6 DEF Here
    <2>4. /\ Len(versions') = Len(operations') + Len(undone') + 1
          /\ tree' = versions'[Here'].map
      <3>1. tree' = versions'[Here'].map
        BY <1>4, <2>3
      <3>2. versions' = versions /\ Len(versions) = n + m + 1
        BY <1>1, <1>4
      <3>3. Len(operations') + Len(undone') = n + m
        BY <1>6
      <3>4. QED
        BY <3>1, <3>2, <3>3
    <2>5. (\A i \in 1 .. Len(operations) :
             /\ Crosses(operations[i], i)
             /\ Done(operations[i], versions[i].map, versions[i + 1].map))'
      BY <1>6, <2>1
    <2>6. (\A j \in 1 .. Len(undone) :
             /\ Crosses(undone[j], Here + j - 1)
             /\ Undone(undone[j], versions[Here + j - 1].map, versions[Here + j].map))'
      BY <1>6, <2>2, <2>3
    <2>7. QED
      BY <2>4, <2>5, <2>6 DEF StacksCoverVersions
  <1>8. VersionsInOrder'
    BY <1>4 DEF HistoryInv, VersionsInOrder
  <1>9. PhaseMatchesStacks'
    <2>1. ASSUME NEW j \in 1 .. m + 1
          PROVE  undone'[j].time > asOf
      <3>1. CASE j = 1
        BY <3>1, <1>1, <1>3, <1>6
      <3>2. CASE j # 1
        <4>1. undone'[j] = undone[j - 1] /\ j - 1 \in 1 .. m
          BY <3>2, <1>6
        <4>2. QED
          BY <4>1, <1>1 DEF HistoryInv, PhaseMatchesStacks
      <3>3. QED
        BY <3>1, <3>2
    <2>2. QED
      BY <2>1, <1>1, <1>4, <1>6 DEF PhaseMatchesStacks
  <1>10. QED
    BY <1>7, <1>8, <1>9 DEF HistoryInv

\* One turn of redo_all moves the tree forward over one version and the
\* operation back.
LEMMA RedoStepKeepsHistory ==
  ASSUME HistoryInv, TypeOK', RedoStep
  PROVE  HistoryInv'
  <1> PICK n \in Nat : n = Len(operations)
    BY DEF HistoryInv, TypeOK
  <1> PICK m \in Nat : m = Len(undone)
    BY DEF HistoryInv, TypeOK
  <1> DEFINE op == undone[1]
  <1>1. /\ operations \in Seq(Operation) /\ undone \in Seq(Operation)
        /\ versions \in Seq(Version) /\ m > 0 /\ op \in Operation
        /\ phase = "redoing" /\ Head(undone) = op
        /\ n = Len(operations) /\ m = Len(undone)
        /\ Len(versions) = n + m + 1 /\ tree = versions[n + 1].map
    BY DEF HistoryInv, TypeOK, StacksCoverVersions, Here, RedoStep
  <1>a. \A i \in 1 .. n : /\ Crosses(operations[i], i)
                          /\ Done(operations[i], versions[i].map, versions[i + 1].map)
    BY <1>1 DEF HistoryInv, StacksCoverVersions
  <1>b. \A j \in 1 .. m :
          /\ Crosses(undone[j], n + 1 + j - 1)
          /\ Undone(undone[j], versions[n + 1 + j - 1].map, versions[n + 1 + j].map)
    BY <1>1 DEF HistoryInv, StacksCoverVersions, Here
  <1>2. /\ versions[n + 1].map \in Map /\ versions[n + 2].map \in Map
        /\ Crosses(op, n + 1) /\ Undone(op, versions[n + 1].map, versions[n + 2].map)
    <2>1. n + 1 + 1 - 1 = n + 1 /\ n + 1 + 1 = n + 2
      OBVIOUS
    <2>2. versions[n + 1] \in Version /\ versions[n + 2] \in Version
      BY <1>1
    <2>3. 1 \in 1 .. m
      BY <1>1
    <2>4. QED
      BY <2>1, <2>2, <2>3, <1>b DEF Version
  <1>3. /\ RedoTree(op) = versions[n + 2].map
        /\ Done(RedoSaved(op), versions[n + 1].map, versions[n + 2].map)
        /\ RedoSaved(op).key = op.key
        /\ RedoSaved(op).time = op.time
    <2>1. versions[n + 2].map
            = [versions[n + 1].map EXCEPT ![op.key] = versions[n + 2].map[op.key]]
      <3>1. n + 1 + 1 = n + 2
        OBVIOUS
      <3>2. QED
        BY <1>2, <3>1 DEF Crosses
    <2>2. QED
      BY <1>1, <1>2, <2>1, RedoGoesForward
  <1>4. /\ tree' = versions[n + 2].map /\ versions' = versions
        /\ operations' = Append(operations, RedoSaved(op))
        /\ undone' = Tail(undone)
        /\ phase' = phase /\ asOf' = asOf /\ clock' = clock
    BY <1>1, <1>3 DEF RedoStep
  <1>5. RedoSaved(op) \in Operation
    BY <1>1, RedoTypes DEF HistoryInv, RedoStep
  <1>6. /\ Len(operations') = n + 1 /\ Len(undone') = m - 1
        /\ \A i \in 1 .. n : operations'[i] = operations[i]
        /\ operations'[n + 1] = RedoSaved(op)
        /\ \A j \in 1 .. m - 1 : undone'[j] = undone[j + 1]
    BY <1>1, <1>4, <1>5
  <1>7. StacksCoverVersions'
    <2>1. ASSUME NEW i \in 1 .. n + 1
          PROVE  /\ Crosses(operations[i], i)'
                 /\ Done(operations[i], versions[i].map, versions[i + 1].map)'
      <3>1. CASE i = n + 1
        <4>1. /\ Crosses(RedoSaved(op), n + 1)
              /\ Done(RedoSaved(op), versions[n + 1].map, versions[n + 2].map)
          BY <1>2, <1>3 DEF Crosses
        <4>2. i + 1 = n + 2
          BY <3>1
        <4>3. QED
          BY <3>1, <4>1, <4>2, <1>4, <1>6 DEF Crosses, Done
      <3>2. CASE i # n + 1
        <4>1. /\ Crosses(operations[i], i)
              /\ Done(operations[i], versions[i].map, versions[i + 1].map)
          BY <3>2, <1>a
        <4>2. operations'[i] = operations[i]
          BY <3>2, <1>6
        <4>3. QED
          BY <4>1, <4>2, <1>4 DEF Crosses, Done
      <3>3. QED
        BY <3>1, <3>2
    <2>2. ASSUME NEW j \in 1 .. m - 1
          PROVE  /\ Crosses(undone[j], n + 2 + j - 1)'
                 /\ Undone(undone[j], versions[n + 2 + j - 1].map,
                           versions[n + 2 + j].map)'
      <3>1. /\ Crosses(undone[j + 1], n + 1 + (j + 1) - 1)
            /\ Undone(undone[j + 1], versions[n + 1 + (j + 1) - 1].map,
                      versions[n + 1 + (j + 1)].map)
        BY <1>b
      <3>2. n + 1 + (j + 1) - 1 = n + 2 + j - 1 /\ n + 1 + (j + 1) = n + 2 + j
        OBVIOUS
      <3>3. undone'[j] = undone[j + 1]
        BY <1>6
      <3>4. QED
        BY <3>1, <3>2, <3>3, <1>4 DEF Crosses, Undone
    <2>3. Here' = n + 2
      BY <1>6 DEF Here
    <2>4. /\ Len(versions') = Len(operations') + Len(undone') + 1
          /\ tree' = versions'[Here'].map
      <3>1. tree' = versions'[Here'].map
        BY <1>4, <2>3
      <3>2. versions' = versions /\ Len(versions) = n + m + 1
        BY <1>1, <1>4
      <3>3. Len(operations') + Len(undone') = n + m
        BY <1>6
      <3>4. QED
        BY <3>1, <3>2, <3>3
    <2>5. (\A i \in 1 .. Len(operations) :
             /\ Crosses(operations[i], i)
             /\ Done(operations[i], versions[i].map, versions[i + 1].map))'
      BY <1>6, <2>1
    <2>6. (\A j \in 1 .. Len(undone) :
             /\ Crosses(undone[j], Here + j - 1)
             /\ Undone(undone[j], versions[Here + j - 1].map, versions[Here + j].map))'
      BY <1>6, <2>2, <2>3
    <2>7. QED
      BY <2>4, <2>5, <2>6 DEF StacksCoverVersions
  <1>8. VersionsInOrder'
    BY <1>4 DEF HistoryInv, VersionsInOrder
  <1>9. PhaseMatchesStacks'
    <2>1. ASSUME NEW j \in 1 .. m - 1
          PROVE  undone'[j].time > asOf
      BY <1>1, <1>6 DEF HistoryInv, PhaseMatchesStacks
    <2>2. QED
      BY <2>1, <1>1, <1>4, <1>6 DEF PhaseMatchesStacks
  <1>10. QED
    BY <1>7, <1>8, <1>9 DEF HistoryInv

LEMMA HistoryNext == HistoryInv /\ [Next]_vars => HistoryInv'
  <1> SUFFICES ASSUME HistoryInv, [Next]_vars
               PROVE  HistoryInv'
    OBVIOUS
  <1>0. TypeOK /\ TypeOK'
    BY TypeNext DEF HistoryInv
  <1>1. CASE Tick
    <2>1. UNCHANGED <<tree, operations, undone, phase, asOf, versions>> /\ clock' = clock + 1
      BY <1>1 DEF Tick
    <2>2. StacksCoverVersions' /\ PhaseMatchesStacks'
      BY <2>1
      DEF HistoryInv, StacksCoverVersions, PhaseMatchesStacks, Here, Crosses, MustUndo
    <2>3. VersionsInOrder'
      <3>1. \A i \in 1 .. Len(versions) : versions[i] \in Version
        BY <1>0 DEF TypeOK
      <3>2. \A i \in 1 .. Len(versions) : versions[i].since \in Nat
        BY <3>1 DEF Version
      <3>3. clock \in Nat
        BY <1>0, BoundsAssumption DEF TypeOK
      <3>4. QED
        BY <2>1, <3>2, <3>3 DEF HistoryInv, VersionsInOrder
    <2>4. QED
      BY <1>0, <2>2, <2>3 DEF HistoryInv
  <1>2. ASSUME NEW k \in Key, NEW v \in Val, Insert(k, v)
        PROVE  HistoryInv'
    BY <1>0, <1>2, CommitKeepsHistory, NoValAssumption DEF Insert, Exists
  <1>3. ASSUME NEW k \in Key, NEW v \in Val, Update(k, v)
        PROVE  HistoryInv'
    <2>1. tree[k] \in Val
      BY <1>0, <1>3 DEF Update, Exists, TypeOK, Map
    <2>2. QED
      BY <1>0, <1>3, <2>1, CommitKeepsHistory, NoValAssumption DEF Update
  <1>4. ASSUME NEW k \in Key, Erase(k)
        PROVE  HistoryInv'
    <2>1. tree[k] \in Val
      BY <1>0, <1>4 DEF Erase, Exists, TypeOK, Map
    <2>2. QED
      BY <1>0, <1>4, <2>1, CommitKeepsHistory DEF Erase
  <1>5. ASSUME NEW T \in 0 .. MaxTime, BeginRead(T)
        PROVE  HistoryInv'
    <2>1. UNCHANGED <<tree, operations, undone, clock, versions>> /\ undone = <<>>
      BY <1>5 DEF BeginRead, HistoryInv, PhaseMatchesStacks
    <2>2. StacksCoverVersions' /\ VersionsInOrder'
      BY <2>1 DEF HistoryInv, StacksCoverVersions, VersionsInOrder, Here, Crosses
    <2>3. PhaseMatchesStacks'
      BY <1>5, <2>1 DEF BeginRead, PhaseMatchesStacks
    <2>4. QED
      BY <1>0, <2>2, <2>3 DEF HistoryInv
  <1>6. CASE RevertStep
    BY <1>0, <1>6, RevertStepKeepsHistory
  <1>7. CASE RedoStep
    BY <1>0, <1>7, RedoStepKeepsHistory
  <1>8. CASE RevertDone \/ EndRead \/ RedoDone
    <2>1. UNCHANGED <<tree, operations, undone, clock, asOf, versions>>
      BY <1>8 DEF RevertDone, EndRead, RedoDone
    <2>2. StacksCoverVersions' /\ VersionsInOrder'
      BY <2>1 DEF HistoryInv, StacksCoverVersions, VersionsInOrder, Here, Crosses
    <2>3. PhaseMatchesStacks'
      BY <1>8, <2>1
      DEF RevertDone, EndRead, RedoDone, HistoryInv, PhaseMatchesStacks, MustUndo
    <2>4. QED
      BY <1>0, <2>2, <2>3 DEF HistoryInv
  <1>9. CASE UNCHANGED vars
    BY <1>9
    DEF vars, HistoryInv, TypeOK, StacksCoverVersions, VersionsInOrder,
        PhaseMatchesStacks, Here, Crosses, MustUndo
  <1>10. QED
    BY <1>1, <1>2, <1>3, <1>4, <1>5, <1>6, <1>7, <1>8, <1>9 DEF Next

\* The stacks of undone and not yet undone operations are, in every reachable
\* state, a faithful journal of all versions of the tree.
THEOREM HistoryCorrect == Spec => []HistoryInv
  BY HistoryInit, HistoryNext, PTL DEF Spec

-------------------------------------------------------------------------------
(* What a reader sees *)

\* Once revert_to has nothing left to undo, the tree stands at the version of
\* the requested time.
LEMMA RevertedToTheVersion ==
  ASSUME HistoryInv, phase # "live", ~MustUndo
  PROVE  Abstract!IsVersionAt(Here, asOf)
  <1> PICK n \in Nat : n = Len(operations)
    BY DEF HistoryInv, TypeOK
  <1> PICK m \in Nat : m = Len(undone)
    BY DEF HistoryInv, TypeOK
  <1>1. /\ Here = n + 1 /\ Len(versions) = n + m + 1 /\ asOf \in Nat
        /\ operations \in Seq(Operation) /\ undone \in Seq(Operation)
    BY BoundsAssumption DEF HistoryInv, TypeOK, StacksCoverVersions, Here
  <1>2. versions[n + 1].since <= asOf
    <2>1. CASE n = 0
      BY <2>1, <1>1 DEF HistoryInv, VersionsInOrder
    <2>2. CASE n # 0
      <3>1. operations # <<>> /\ Top(operations) = operations[n] /\ n \in 1 .. n
        BY <2>2 DEF Top
      <3>2. ~(operations[n].time > asOf)
        BY <3>1 DEF MustUndo
      <3>3. operations[n].time = versions[n + 1].since
        BY <3>1 DEF HistoryInv, StacksCoverVersions, Crosses
      <3>4. operations[n].time \in Nat
        <4>1. operations[n] \in Operation
          BY <1>1, <3>1
        <4>2. QED
          BY <4>1 DEF Operation
      <3>5. QED
        BY <1>1, <3>2, <3>3, <3>4
    <2>3. QED
      BY <2>1, <2>2
  <1>3. ASSUME NEW j \in 1 .. n + m + 1, j > n + 1
        PROVE  versions[j].since > asOf
    <2>1. j - n - 1 \in 1 .. m
      BY <1>3
    <2>2. undone[j - n - 1].time > asOf
      BY <2>1 DEF HistoryInv, PhaseMatchesStacks
    <2>3. undone[j - n - 1].time = versions[n + 1 + (j - n - 1) - 1 + 1].since
      BY <1>1, <2>1 DEF HistoryInv, StacksCoverVersions, Crosses
    <2>4. n + 1 + (j - n - 1) - 1 + 1 = j
      OBVIOUS
    <2>5. QED
      BY <2>2, <2>3, <2>4
  <1>4. QED
    BY <1>1, <1>2, <1>3 DEF Abstract!IsVersionAt

LEMMA InvariantSuffices ==
  HistoryInv => ReplayNeverThrows /\ HistoricalView /\ ReadLeavesNoTrace
  <1> SUFFICES ASSUME HistoryInv
               PROVE  ReplayNeverThrows /\ HistoricalView /\ ReadLeavesNoTrace
    OBVIOUS
  <1> PICK n \in Nat : n = Len(operations)
    BY DEF HistoryInv, TypeOK
  <1>0. /\ operations \in Seq(Operation) /\ undone \in Seq(Operation)
        /\ versions \in Seq(Version) /\ Here = n + 1 /\ asOf \in Nat
        /\ Len(versions) = n + Len(undone) + 1 /\ tree = versions[n + 1].map
    BY BoundsAssumption DEF HistoryInv, TypeOK, StacksCoverVersions, Here
  <1>1. ASSUME MustUndo
        PROVE  ~UndoThrows(Top(operations))
    <2>1. Top(operations) = operations[n] /\ n \in 1 .. n /\ n # 0
      BY <1>0, <1>1 DEF MustUndo, Top
    <2>2. Crosses(operations[n], n) /\ Done(operations[n], versions[n].map, versions[n + 1].map)
      BY <2>1 DEF HistoryInv, StacksCoverVersions
    <2>3. operations[n] \in Operation /\ versions[n] \in Version /\ versions[n + 1] \in Version
      BY <1>0, <2>1
    <2>4. QED
      BY <1>0, <2>1, <2>2, <2>3, UndoGoesBack DEF Crosses, Version
  <1>2. ASSUME undone # <<>>
        PROVE  ~RedoThrows(Head(undone))
    <2>1. Head(undone) = undone[1] /\ 1 \in 1 .. Len(undone) /\ undone[1] \in Operation
      BY <1>0, <1>2
    <2>2. /\ Crosses(undone[1], n + 1)
          /\ Undone(undone[1], versions[n + 1].map, versions[n + 2].map)
      <3>1. n + 1 + 1 - 1 = n + 1 /\ n + 1 + 1 = n + 2
        OBVIOUS
      <3>2. QED
        BY <1>0, <2>1, <3>1 DEF HistoryInv, StacksCoverVersions
    <2>3. versions[n + 1] \in Version /\ versions[n + 2] \in Version
      BY <1>0, <2>1
    <2>4. versions[n + 2].map
            = [versions[n + 1].map EXCEPT ![undone[1].key] = versions[n + 2].map[undone[1].key]]
      <3>1. n + 1 + 1 = n + 2
        OBVIOUS
      <3>2. QED
        BY <2>2, <3>1 DEF Crosses
    <2>5. QED
      BY <1>0, <2>1, <2>2, <2>3, <2>4, RedoGoesForward DEF Version
  <1>3. HistoricalView
    <2> SUFFICES ASSUME phase = "reading", NEW i \in 1 .. Len(versions),
                        Abstract!IsVersionAt(i, asOf)
                 PROVE  tree = versions[i].map
      BY DEF HistoricalView
    <2>1. Abstract!IsVersionAt(n + 1, asOf)
      BY <1>0, RevertedToTheVersion DEF HistoryInv, PhaseMatchesStacks
    <2>2. \A j \in 1 .. Len(versions) : versions[j].since \in Nat
      <3>1. \A j \in 1 .. Len(versions) : versions[j] \in Version
        BY <1>0
      <3>2. QED
        BY <3>1 DEF Version
    <2>3. i = n + 1
      <3>1. n + 1 \in 1 .. Len(versions) /\ i \in Int /\ n + 1 \in Int
        BY <1>0, <2>1 DEF Abstract!IsVersionAt
      <3>0. asOf \in Int /\ versions[i].since \in Int /\ versions[n + 1].since \in Int
        BY <1>0, <2>2, <3>1 DEF HistoryInv, TypeOK
      <3>2. ~(i < n + 1)
        BY <2>1, <3>0, <3>1 DEF Abstract!IsVersionAt
      <3>3. ~(n + 1 < i)
        BY <2>1, <3>0, <3>1 DEF Abstract!IsVersionAt
      <3>4. QED
        BY <3>1, <3>2, <3>3
    <2>4. QED
      BY <1>0, <2>3
  <1>4. ReadLeavesNoTrace
    BY <1>0 DEF ReadLeavesNoTrace, HistoryInv, PhaseMatchesStacks
  <1>5. QED
    BY <1>1, <1>2, <1>3, <1>4 DEF ReplayNeverThrows

\* No sequence of changes and historical reads makes undo or redo throw.
THEOREM ReplaySafe == Spec => []ReplayNeverThrows
  BY HistoryCorrect, InvariantSuffices, PTL

\* A historical read of time T sees the tree of time T, whatever came before.
THEOREM HistoricalReadsCorrect == Spec => []HistoricalView
  BY HistoryCorrect, InvariantSuffices, PTL

\* Between reads the tree is what the changes made it: reads leave no trace.
THEOREM ReadsLeaveNoTrace == Spec => []ReadLeavesNoTrace
  BY HistoryCorrect, InvariantSuffices, PTL

-------------------------------------------------------------------------------
(* Refinement *)

LEMMA RefinementInit == Init => Abstract!Init
  BY DEF Init, Abstract!Init, Shown, EmptyMap, Abstract!EmptyMap

\* Every change is one Commit of the abstract map.
LEMMA CommitRefines ==
  ASSUME HistoryInv, NEW k \in Key, NEW w \in Val \cup {NoVal}, Commit(k, w),
         w = NoVal => tree[k] # NoVal
  PROVE  Abstract!Commit(k, w, clock)
  <1> PICK n \in Nat : n = Len(operations)
    BY DEF HistoryInv, TypeOK
  <1>1. /\ phase = "live" /\ phase' = phase /\ Len(versions) = n + 1
        /\ tree = versions[n + 1].map /\ versions[n + 1].since <= clock
    BY DEF Commit, HistoryInv, StacksCoverVersions, PhaseMatchesStacks, VersionsInOrder,
           Here
  <1>2. Abstract!Newest = versions[n + 1]
    BY <1>1 DEF Abstract!Newest
  <1>3. clock \in Nat /\ versions[n + 1].since \in Nat
    <2>1. versions[n + 1] \in Version
      BY <1>1 DEF HistoryInv, TypeOK
    <2>2. QED
      BY <2>1, BoundsAssumption DEF HistoryInv, TypeOK, Version
  <1>4. Shown = <<>> /\ Shown' = <<>>
    BY <1>1 DEF Shown
  <1>5. versions' = Append(versions, [since |-> clock, map |-> [tree EXCEPT ![k] = w]])
    BY DEF Commit
  <1>6. QED
    BY <1>1, <1>2, <1>3, <1>4, <1>5 DEF Abstract!Commit

LEMMA RefinementNext ==
  HistoryInv /\ [Next]_vars => [Abstract!Next]_(Abstract!absVars)
  <1> SUFFICES ASSUME HistoryInv, [Next]_vars
               PROVE  Abstract!Next \/ UNCHANGED <<versions, Shown>>
    BY DEF Abstract!absVars
  <1>0. clock \in 0 .. MaxTime /\ asOf \in 0 .. MaxTime
    BY DEF HistoryInv, TypeOK
  <1>1. CASE Tick
    BY <1>1 DEF Tick, Shown
  <1>2. ASSUME NEW k \in Key, NEW v \in Val, Insert(k, v)
        PROVE  Abstract!Next
    BY <1>0, <1>2, CommitRefines, NoValAssumption DEF Insert, Abstract!Next
  <1>3. ASSUME NEW k \in Key, NEW v \in Val, Update(k, v)
        PROVE  Abstract!Next
    BY <1>0, <1>3, CommitRefines, NoValAssumption DEF Update, Abstract!Next
  <1>4. ASSUME NEW k \in Key, Erase(k)
        PROVE  Abstract!Next
    BY <1>0, <1>4, CommitRefines DEF Erase, Exists, Abstract!Next
  <1>5. CASE \E T \in 0 .. MaxTime : BeginRead(T)
    BY <1>5 DEF BeginRead, Shown
  <1>6. CASE RevertStep \/ RedoStep \/ RedoDone
    BY <1>6 DEF RevertStep, RedoStep, RedoDone, Shown
  <1>7. CASE RevertDone
    <2>1. Abstract!IsVersionAt(Here, asOf) /\ tree = versions[Here].map
      BY <1>7, RevertedToTheVersion DEF RevertDone, HistoryInv, StacksCoverVersions
    <2>2. Shown = <<>> /\ Shown' = <<tree>> /\ UNCHANGED versions
      BY <1>7 DEF RevertDone, Shown
    <2>3. Abstract!Show(asOf)
      BY <2>1, <2>2 DEF Abstract!Show, Abstract!IsVersionAt
    <2>4. QED
      BY <1>0, <2>3 DEF Abstract!Next
  <1>8. CASE EndRead
    BY <1>8 DEF EndRead, Shown, Abstract!Hide, Abstract!Next
  <1>9. CASE UNCHANGED vars
    BY <1>9 DEF vars, Shown
  <1>10. QED
    BY <1>1, <1>2, <1>3, <1>4, <1>5, <1>6, <1>7, <1>8, <1>9 DEF Next

\* The tree with its undo and redo stacks implements the multi-version map.
THEOREM Refinement == Spec => ImplementsVersionedMap
  BY HistoryCorrect, RefinementInit, RefinementNext, PTL
  DEF Spec, ImplementsVersionedMap, Abstract!Spec

===============================================================================
