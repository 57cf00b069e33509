---------------------- MODULE AuthorizationPathProofs ----------------------
(***************************************************************************)
(* Whatever the bundle, a path the search returns authorizes its record,   *)
(* the search gives up only on a record no path leads to, and what it      *)
(* returns is the least path where introductions have no cycle.            *)
(*                                                                         *)
(* SearchInv: paths are put together from remembered ones, so the          *)
(* invariant is about the memo: every remembered path is authorized and    *)
(* closed (each of its members is remembered), while no active record is.  *)
(* Hence a remembered path never meets the record it is extended with.     *)
(*                                                                         *)
(* CompleteInv: a call turns back at the active records, so a call without *)
(* a result has ruled out only the paths that avoid them, and a caller     *)
(* has, for each parent it went past, such a verdict or a path found.      *)
(*                                                                         *)
(* LeastInv: without a cycle no path to a record meets the records its     *)
(* derivation came from, so turning back there loses nothing, and the      *)
(* least path to a record extends the least path to one of its parents.    *)
(*                                                                         *)
(* Every step lowers the rank of the call that it changes: what is left    *)
(* of the outermost call it touches falls, and the order of such ranks is  *)
(* well founded.                                                           *)
(***************************************************************************)
EXTENDS AuthorizationPath, SequenceTheorems, FiniteSetTheorems,
        WellFoundedInduction, TLAPS

Frames == [id : Ids, next : Nat, found : SUBSET Seq(Ids)]

SearchTypeOK ==
  /\ bundle \in Bundles
  /\ target \in Ids /\ goal \in Ids \cup {None}
  /\ answer \in Seq(Ids) \cup {None}
  /\ stack \in Seq(Frames)
  /\ memo \in [Ids -> Seq(Ids) \cup {None}]

(* All members but the last are remembered.                                *)
Closed(path) == \A i \in 1 .. Len(path) - 1 : memo[path[i]] # None

MemoInv ==
  \A id \in Ids : memo[id] # None => Authorized(memo[id], id) /\ Closed(memo[id])

FrameInv(frame) ==
  /\ frame.id \in Decisive /\ memo[frame.id] = None /\ ~ IsAnchor(frame.id)
  /\ \A path \in frame.found : Authorized(path, frame.id) /\ Closed(path)

StackInv ==
  /\ \A f \in DOMAIN stack : FrameInv(stack[f])
  /\ \A f, g \in DOMAIN stack : stack[f].id = stack[g].id => f = g
  /\ \A f \in DOMAIN stack :
       IF f = 1 THEN stack[f].id = target
       ELSE Introduces(stack[f].id, stack[f - 1].id)

(* What was asked for, and what came back, is about a parent of the record *)
(* derived at the top, or about the target if no call is active.           *)
CallInv ==
  IF stack = <<>>
  THEN /\ goal # None => goal = target
       /\ answer # None => Authorized(answer, target)
  ELSE /\ goal # None => Introduces(goal, Top.id)
       /\ answer # None =>
            \E parent \in Ids : answer = memo[parent] /\ Introduces(parent, Top.id)

SearchInv == SearchTypeOK /\ MemoInv /\ StackInv /\ CallInv

-----------------------------------------------------------------------------

(* A remembered path, extended with a record that is not remembered.       *)
LEMMA ExtendedPath ==
  ASSUME SearchTypeOK, MemoInv,
         NEW parent \in Ids, memo[parent] # None,
         NEW id \in Decisive, id \in Ids, memo[id] = None, Introduces(parent, id)
  PROVE  /\ Authorized(Append(memo[parent], id), id)
         /\ Closed(Append(memo[parent], id))
<1> DEFINE p == memo[parent]
           q == Append(p, id)
<1>1. p \in Seq(Ids) /\ p # <<>> /\ Authorized(p, parent) /\ Closed(p)
  BY DEF SearchTypeOK, MemoInv, Authorized
<1>2. /\ q \in Seq(Ids) /\ Len(q) = Len(p) + 1 /\ q[Len(p) + 1] = id
      /\ \A i \in 1 .. Len(p) : q[i] = p[i]
      /\ Len(p) \in Nat \ {0}
  BY <1>1, AppendProperties, EmptySeq
<1>3. \A i \in 1 .. Len(p) : memo[p[i]] # None
  <2>1. p[Len(p)] = parent
    BY <1>1 DEF Authorized
  <2> QED
    BY <1>1, <1>2, <2>1 DEF Closed
<1>4. Closed(q)
  BY <1>2, <1>3 DEF Closed
<1>5. Authorized(q, id)
  <2> HIDE DEF p, q
  <2>1. q # <<>> /\ q[Len(q)] = id
    BY <1>2
  <2>2. IsAnchor(q[1])
    BY <1>1, <1>2 DEF Authorized
  <2>3. \A i \in 1 .. Len(q) - 1 : Introduces(q[i], q[i + 1])
    <3> TAKE i \in 1 .. Len(q) - 1
    <3>1. CASE i = Len(p)
      BY <1>1, <1>2, <3>1 DEF Authorized
    <3>2. CASE i # Len(p)
      <4>1. i \in 1 .. Len(p) - 1 /\ i + 1 \in 1 .. Len(p)
        BY <1>2, <3>2
      <4> QED
        BY <1>1, <1>2, <4>1 DEF Authorized
    <3> QED
      BY <3>1, <3>2
  <2>4. \A i, j \in DOMAIN q : q[i] = q[j] => i = j
    <3>1. DOMAIN q = 1 .. Len(p) + 1 /\ DOMAIN p = 1 .. Len(p)
      BY <1>1, <1>2
    <3>2. \A i \in 1 .. Len(p) : q[i] # id
      BY <1>2, <1>3
    <3>3. \A i, j \in 1 .. Len(p) : p[i] = p[j] => i = j
      BY <1>1, <3>1 DEF Authorized
    <3> QED
      BY <1>2, <3>1, <3>2, <3>3
  <2> QED
    BY <1>2, <2>1, <2>2, <2>3, <2>4 DEF Authorized
<1> QED
  BY <1>4, <1>5

(* What is said of paths depends on the bundle alone, and remembering one  *)
(* more path disturbs nothing that was remembered.                         *)
LEMMA SameBundle ==
  ASSUME bundle' = bundle
  PROVE  /\ \A p, id : Authorized(p, id)' = Authorized(p, id)
         /\ \A parent, id : Introduces(parent, id)' = Introduces(parent, id)
         /\ \A id : IsAnchor(id)' = IsAnchor(id)
         /\ Decisive' = Decisive /\ Records' = Records
  BY DEF Authorized, Introduces, IsAnchor, Decisive, Records, Classification

LEMMA PathsAreNotNone == \A path \in Seq(Ids) : path # None
  BY NoPathAssumption

LEMMA Remembered ==
  ASSUME SearchTypeOK, MemoInv, NEW id \in Ids, NEW path \in Seq(Ids),
         memo[id] = None, Authorized(path, id), Closed(path),
         memo' = [memo EXCEPT ![id] = path], bundle' = bundle
  PROVE  /\ MemoInv'
         /\ \A p \in Seq(Ids) : Closed(p) => Closed(p)'
         /\ memo'[id] = path /\ memo' \in [Ids -> Seq(Ids) \cup {None}]
         /\ \A x \in Ids \ {id} : memo'[x] = memo[x]
<1>1. /\ memo \in [Ids -> Seq(Ids) \cup {None}] /\ path # None
  BY PathsAreNotNone DEF SearchTypeOK
<1>2. /\ memo'[id] = path
      /\ \A x \in Ids \ {id} : memo'[x] = memo[x]
      /\ memo' \in [Ids -> Seq(Ids) \cup {None}]
  BY <1>1
<1>3. \A x \in Ids : memo[x] # None => memo'[x] # None
  BY <1>1, <1>2
<1>4. \A p \in Seq(Ids) : Closed(p) => Closed(p)'
  <2> SUFFICES ASSUME NEW p \in Seq(Ids), Closed(p), NEW i \in 1 .. Len(p) - 1
               PROVE  memo'[p[i]] # None
    BY DEF Closed
  <2>1. p[i] \in Ids
    <3>1. Len(p) \in Nat /\ p \in [1 .. Len(p) -> Ids]
      BY LenProperties
    <3> QED
      BY <3>1
  <2> QED
    BY <1>3, <2>1 DEF Closed
<1>5. MemoInv'
  <2> SUFFICES ASSUME NEW x \in Ids, memo'[x] # None
               PROVE  (Authorized(memo[x], x) /\ Closed(memo[x]))'
    BY DEF MemoInv
  <2>1. CASE x = id
    <3>1. Authorized(path, id)' /\ Closed(path)'
      BY <1>4, SameBundle
    <3> QED
      BY <1>2, <2>1, <3>1 DEF Authorized, Closed
  <2>2. CASE x # id
    <3>1. memo'[x] = memo[x] /\ memo[x] \in Seq(Ids)
      BY <1>1, <1>2, <2>2
    <3>2. Authorized(memo[x], x) /\ Closed(memo[x])
      BY <3>1 DEF MemoInv
    <3>3. PICK p \in Seq(Ids) : p = memo[x]
      BY <3>1
    <3>4. Authorized(p, x)' /\ Closed(p)'
      BY <1>4, <3>2, <3>3, SameBundle
    <3> QED
      BY <3>1, <3>3, <3>4 DEF Authorized, Closed
  <2> QED
    BY <2>1, <2>2
<1> QED
  BY <1>2, <1>4, <1>5

-----------------------------------------------------------------------------

LEMMA SearchInitInv == SearchInit => SearchInv
<1> SUFFICES ASSUME SearchInit PROVE SearchInv
  OBVIOUS
<1>1. target \in Ids /\ goal = target
  BY BundlesAssumption DEF SearchInit
<1>2. SearchTypeOK
  BY <1>1, EmptySeq DEF SearchInit, SearchTypeOK
<1>3. \A id \in Ids : memo[id] = None
  BY DEF SearchInit
<1>4. MemoInv
  BY <1>3 DEF MemoInv
<1>5. StackInv
  BY EmptySeq DEF StackInv, SearchInit
<1>6. CallInv
  BY <1>1 DEF CallInv, SearchInit
<1> QED
  BY <1>2, <1>4, <1>5, <1>6 DEF SearchInv

(* The three ways a call returns at once.                                  *)
LEMMA RecallInv == SearchInv /\ Recall => SearchInv'
<1> SUFFICES ASSUME SearchInv, Recall PROVE SearchInv'
  OBVIOUS
<1>1. /\ goal \in Ids /\ goal # None
      /\ memo[goal] # None /\ answer' = memo[goal] /\ goal' = None
      /\ UNCHANGED <<bundle, target, stack, memo>>
  BY IdsAssumption DEF Recall, Give, SearchInv, SearchTypeOK
<1>2. SearchTypeOK'
  BY <1>1 DEF SearchInv, SearchTypeOK
<1>3. MemoInv' /\ StackInv'
  BY <1>1, SameBundle DEF SearchInv, MemoInv, StackInv, FrameInv, Closed
<1>4. CallInv'
  <2>1. CASE stack = <<>>
    <3>1. goal = target /\ Authorized(memo[goal], target)
      BY <1>1, <2>1 DEF SearchInv, CallInv, MemoInv
    <3>2. PICK p : p = memo[goal]
      OBVIOUS
    <3> QED
      BY <1>1, <2>1, <3>1, SameBundle DEF CallInv
  <2>2. CASE stack # <<>>
    <3>1. Introduces(goal, Top.id)
      BY <1>1, <2>2 DEF SearchInv, CallInv, SearchTypeOK
    <3>2. Top' = Top
      BY <1>1 DEF Top
    <3> QED
      BY <1>1, <2>2, <3>1, <3>2, SameBundle DEF CallInv
  <2> QED
    BY <2>1, <2>2
<1> QED
  BY <1>2, <1>3, <1>4 DEF SearchInv

LEMMA RefuseInv == SearchInv /\ Refuse => SearchInv'
<1> SUFFICES ASSUME SearchInv, Refuse PROVE SearchInv'
  OBVIOUS
<1>1. /\ answer' = None /\ goal' = None
      /\ UNCHANGED <<bundle, target, stack, memo>>
  BY DEF Refuse, Give
<1>2. SearchTypeOK'
  BY <1>1 DEF SearchInv, SearchTypeOK
<1>3. MemoInv' /\ StackInv'
  BY <1>1, SameBundle DEF SearchInv, MemoInv, StackInv, FrameInv, Closed
<1>4. CallInv'
  BY <1>1 DEF CallInv
<1> QED
  BY <1>2, <1>3, <1>4 DEF SearchInv

(* Remembering a path to a record that is not active leaves the frames be. *)
LEMMA FramesKeep ==
  ASSUME SearchInv, NEW id \in Ids, NEW path \in Seq(Ids),
         memo[id] = None, Authorized(path, id), Closed(path),
         memo' = [memo EXCEPT ![id] = path], bundle' = bundle,
         NEW frame \in Frames, FrameInv(frame), frame.id # id
  PROVE  FrameInv(frame)'
<1>1. SearchTypeOK /\ MemoInv
  BY DEF SearchInv
<1>2. /\ \A p \in Seq(Ids) : Closed(p) => Closed(p)'
      /\ \A x \in Ids \ {id} : memo'[x] = memo[x]
  BY <1>1, Remembered
<1>3. frame.id \in Ids /\ frame.found \subseteq Seq(Ids)
  BY DEF Frames
<1>4. memo'[frame.id] = None
  BY <1>2, <1>3 DEF FrameInv
<1>5. \A p \in frame.found : Authorized(p, frame.id)' /\ Closed(p)'
  BY <1>2, <1>3, SameBundle DEF FrameInv
<1> QED
  BY <1>4, <1>5, SameBundle DEF FrameInv

LEMMA ReachAnchorInv == SearchInv /\ ReachAnchor => SearchInv'
<1> SUFFICES ASSUME SearchInv, ReachAnchor PROVE SearchInv'
  OBVIOUS
<1>1. /\ goal \in Ids /\ goal # None /\ memo[goal] = None
      /\ goal \notin Active /\ goal \in Decisive /\ IsAnchor(goal)
      /\ goal' = None /\ answer' = <<goal>> /\ stack' = stack
      /\ memo' = [memo EXCEPT ![goal] = <<goal>>]
      /\ bundle' = bundle /\ target' = target
  BY IdsAssumption DEF ReachAnchor, Give, Known, SearchInv, SearchTypeOK
<1>2. /\ <<goal>> \in Seq(Ids) /\ Len(<<goal>>) = 1 /\ <<goal>>[1] = goal
      /\ <<goal>> # <<>> /\ DOMAIN <<goal>> = {1}
  BY <1>1
<1>3. Authorized(<<goal>>, goal) /\ Closed(<<goal>>)
  BY <1>1, <1>2 DEF Authorized, Closed
<1>4. SearchTypeOK /\ MemoInv /\ StackInv /\ CallInv
  BY DEF SearchInv
<1>5. /\ MemoInv' /\ memo'[goal] = <<goal>>
      /\ memo' \in [Ids -> Seq(Ids) \cup {None}]
  BY <1>1, <1>2, <1>3, <1>4, Remembered
<1>6. SearchTypeOK'
  BY <1>1, <1>2, <1>4, <1>5 DEF SearchTypeOK
<1>7. StackInv'
  <2>1. \A f \in DOMAIN stack : stack[f] \in Frames /\ stack[f].id # goal
    BY <1>1, <1>4, ElementOfSeq DEF SearchTypeOK, Active
  <2>2. \A f \in DOMAIN stack : FrameInv(stack[f])'
    <3> TAKE f \in DOMAIN stack
    <3>1. PICK frame \in Frames : frame = stack[f]
      BY <2>1
    <3>2. FrameInv(frame)'
      BY <1>1, <1>2, <1>3, <1>4, <2>1, <3>1, FramesKeep DEF StackInv
    <3> QED
      BY <1>1, <3>1, <3>2 DEF FrameInv, Authorized, Closed
  <2> QED
    BY <1>1, <1>4, <2>2, SameBundle DEF StackInv
<1>8. CallInv'
  <2>1. CASE stack = <<>>
    <3>1. goal = target
      BY <1>1, <1>4, <2>1 DEF CallInv
    <3>2. answer' = <<goal>> /\ target' = target /\ Authorized(<<goal>>, target)
      BY <1>1, <1>3, <3>1
    <3> QED
      BY <1>1, <2>1, <3>2
      DEF CallInv, Authorized, Introduces, IsAnchor, Decisive, Records,
          Classification
  <2>2. CASE stack # <<>>
    <3>1. Top' = Top
      BY <1>1 DEF Top
    <3>2. Introduces(goal, Top.id)
      BY <1>1, <1>4, <2>2 DEF CallInv
    <3> QED
      BY <1>1, <1>5, <2>2, <3>1, <3>2, SameBundle DEF CallInv
  <2> QED
    BY <2>1, <2>2
<1> QED
  BY <1>5, <1>6, <1>7, <1>8 DEF SearchInv

LEMMA DescendInv == SearchInv /\ Descend => SearchInv'
<1> SUFFICES ASSUME SearchInv, Descend PROVE SearchInv'
  OBVIOUS
<1> DEFINE frame == [id |-> goal, next |-> 1, found |-> {}]
<1>1. /\ goal \in Ids /\ goal # None /\ memo[goal] = None
      /\ goal \notin Active /\ goal \in Decisive /\ ~ IsAnchor(goal)
      /\ goal' = None /\ answer' = None /\ stack' = Append(stack, frame)
      /\ bundle' = bundle /\ target' = target /\ memo' = memo
  BY IdsAssumption DEF Descend, Give, Known, SearchInv, SearchTypeOK
<1>2. SearchTypeOK /\ MemoInv /\ StackInv /\ CallInv
  BY DEF SearchInv
<1>3. frame \in Frames /\ frame.id = goal /\ frame.found = {}
  BY <1>1 DEF Frames
<1> HIDE DEF frame
<1>4. stack \in Seq(Frames)
  BY <1>2 DEF SearchTypeOK
<1>5. /\ stack' \in Seq(Frames) /\ Len(stack') = Len(stack) + 1
      /\ Len(stack) \in Nat
      /\ DOMAIN stack' = 1 .. Len(stack) + 1 /\ DOMAIN stack = 1 .. Len(stack)
      /\ \A f \in 1 .. Len(stack) : stack'[f] = stack[f]
      /\ stack'[Len(stack) + 1] = frame
  BY <1>1, <1>3, <1>4, AppendProperties
<1>6. SearchTypeOK'
  BY <1>1, <1>2, <1>5 DEF SearchTypeOK
<1>7. MemoInv'
  BY <1>1, <1>2, SameBundle DEF MemoInv, Closed
<1>8. StackInv'
  <2>1. \A f \in DOMAIN stack' : FrameInv(stack'[f])
    <3> TAKE f \in DOMAIN stack'
    <3>1. CASE f = Len(stack) + 1
      BY <1>1, <1>3, <1>5, <3>1 DEF FrameInv
    <3>2. CASE f \in 1 .. Len(stack)
      BY <1>2, <1>5, <3>2 DEF StackInv
    <3> QED
      BY <1>5, <3>1, <3>2
  <2>2. \A f, g \in DOMAIN stack' : stack'[f].id = stack'[g].id => f = g
    <3>1. \A f \in 1 .. Len(stack) : stack'[f].id # goal
      BY <1>1, <1>5 DEF Active
    <3>2. \A f, g \in 1 .. Len(stack) : stack'[f].id = stack'[g].id => f = g
      BY <1>2, <1>5 DEF StackInv
    <3> QED
      BY <1>3, <1>5, <3>1, <3>2
  <2>3. \A f \in DOMAIN stack' :
          IF f = 1 THEN stack'[f].id = target
          ELSE Introduces(stack'[f].id, stack'[f - 1].id)
    <3> TAKE f \in DOMAIN stack'
    <3>1. CASE f \in 1 .. Len(stack)
      <4>1. f = 1 \/ f - 1 \in 1 .. Len(stack)
        BY <1>5, <3>1
      <4>2. /\ stack'[f] = stack[f]
            /\ f # 1 => stack'[f - 1] = stack[f - 1]
        BY <1>5, <3>1, <4>1
      <4> QED
        BY <1>2, <1>5, <3>1, <4>2 DEF StackInv
    <3>2. CASE f = Len(stack) + 1 /\ stack = <<>>
      <4>1. f = 1 /\ goal = target
        BY <1>1, <1>2, <3>2 DEF CallInv
      <4> QED
        BY <1>3, <1>5, <3>2, <4>1
    <3>3. CASE f = Len(stack) + 1 /\ stack # <<>>
      <4>1. Len(stack) \in 1 .. Len(stack) /\ f - 1 = Len(stack) /\ f # 1
        BY <1>4, <1>5, <3>3, EmptySeq
      <4>2. Introduces(goal, Top.id) /\ stack'[f - 1] = Top
        BY <1>1, <1>2, <1>5, <3>3, <4>1 DEF CallInv, Top
      <4> QED
        BY <1>3, <1>5, <3>3, <4>1, <4>2
    <3> QED
      BY <1>5, <3>1, <3>2, <3>3
  <2> QED
    BY <1>1, <2>1, <2>2, <2>3, SameBundle DEF StackInv, FrameInv, Closed
<1>9. CallInv'
  BY <1>1 DEF CallInv
<1> QED
  BY <1>6, <1>7, <1>8, <1>9 DEF SearchInv

(* What the active call has found so far authorizes its record.            *)
LEMMA FoundInv ==
  ASSUME SearchInv, stack # <<>>
  PROVE  /\ Len(stack) \in DOMAIN stack /\ Len(stack) \in Nat \ {0}
         /\ Top \in Frames /\ FrameInv(Top) /\ Top.id \in Ids
         /\ \A path \in Found :
              path \in Seq(Ids) /\ Authorized(path, Top.id) /\ Closed(path)
<1>1. SearchTypeOK /\ MemoInv /\ StackInv /\ CallInv
  BY DEF SearchInv
<1>2. Len(stack) \in DOMAIN stack /\ Len(stack) \in Nat \ {0}
  BY <1>1, EmptySeq DEF SearchTypeOK
<1>3. Top \in Frames /\ FrameInv(Top)
  BY <1>1, <1>2, ElementOfSeq DEF SearchTypeOK, StackInv, Top
<1>4. Top.id \in Ids /\ Top.found \subseteq Seq(Ids)
  BY <1>3 DEF Frames
<1>5. ASSUME NEW path \in Found
      PROVE  path \in Seq(Ids) /\ Authorized(path, Top.id) /\ Closed(path)
  <2>1. CASE path \in Top.found
    BY <1>3, <1>4, <2>1 DEF FrameInv
  <2>2. CASE answer # None /\ path = Append(answer, Top.id)
    <3>1. PICK parent \in Ids : answer = memo[parent] /\ Introduces(parent, Top.id)
      BY <1>1, <2>2 DEF CallInv
    <3>2. /\ Authorized(Append(memo[parent], Top.id), Top.id)
          /\ Closed(Append(memo[parent], Top.id))
      <4>1. memo[parent] # None /\ Top.id \in Decisive /\ memo[Top.id] = None
        BY <1>3, <2>2, <3>1 DEF FrameInv
      <4> QED
        BY <1>1, <1>4, <3>1, <4>1, ExtendedPath
    <3> QED
      BY <2>2, <3>1, <3>2 DEF Authorized
  <2> QED
    BY <1>5, <2>1, <2>2 DEF Found
<1> QED
  BY <1>2, <1>3, <1>4, <1>5

LEMMA TryParentInv == SearchInv /\ TryParent => SearchInv'
<1> SUFFICES ASSUME SearchInv, TryParent PROVE SearchInv'
  OBVIOUS
<1>1. SearchTypeOK /\ MemoInv /\ StackInv /\ CallInv /\ stack # <<>>
  BY DEF SearchInv, TryParent
<1>2. PICK n \in Remaining : IsParent(n) /\ TryRecord(n)
  BY DEF TryParent
<1> DEFINE frame == [id |-> Top.id, next |-> n + 1, found |-> Found]
<1>3. /\ goal' = bundle.order[n] /\ answer' = None
      /\ stack' = [stack EXCEPT ![Len(stack)] = frame]
      /\ bundle' = bundle /\ target' = target /\ memo' = memo
      /\ Introduces(goal', Top.id)
  BY <1>2 DEF TryRecord, IsParent
<1>4. /\ Len(stack) \in DOMAIN stack /\ Len(stack) \in Nat \ {0}
      /\ Top \in Frames /\ FrameInv(Top) /\ Top.id \in Ids
      /\ \A path \in Found :
           path \in Seq(Ids) /\ Authorized(path, Top.id) /\ Closed(path)
  BY <1>1, FoundInv
<1>5. n \in Nat
  BY <1>4 DEF Frames, Remaining
<1>6. frame \in Frames /\ frame.id = Top.id /\ frame.found = Found
  BY <1>4, <1>5 DEF Frames
<1>7. FrameInv(frame)
  BY <1>4, <1>6 DEF FrameInv
<1> HIDE DEF frame
<1>8. /\ stack' \in Seq(Frames) /\ Len(stack') = Len(stack)
      /\ DOMAIN stack' = DOMAIN stack /\ stack'[Len(stack)] = frame
      /\ \A f \in DOMAIN stack : f # Len(stack) => stack'[f] = stack[f]
  BY <1>1, <1>3, <1>4, <1>6, ExceptSeq DEF SearchTypeOK
<1>9. \A f \in DOMAIN stack : stack'[f].id = stack[f].id
  BY <1>6, <1>8 DEF Top
<1>10. SearchTypeOK'
  <2>1. goal' \in Ids
    <3>1. bundle \in Bundles
      BY <1>1 DEF SearchTypeOK
    <3>2. goal' \in Decisive
      BY <1>3 DEF Introduces
    <3>3. Decisive \subseteq Ids
      BY <3>1, BundlesAssumption DEF Decisive
    <3> QED
      BY <3>2, <3>3
  <2> QED
    BY <1>1, <1>3, <1>8, <2>1 DEF SearchTypeOK
<1>11. MemoInv'
  BY <1>1, <1>3, SameBundle DEF MemoInv, Closed
<1>12. StackInv'
  <2>1. \A f \in DOMAIN stack' : FrameInv(stack'[f])
    BY <1>1, <1>7, <1>8 DEF StackInv
  <2>2. \A f, g \in DOMAIN stack' : stack'[f].id = stack'[g].id => f = g
    BY <1>1, <1>8, <1>9 DEF StackInv
  <2>3. \A f \in DOMAIN stack' :
          IF f = 1 THEN stack'[f].id = target
          ELSE Introduces(stack'[f].id, stack'[f - 1].id)
    <3> TAKE f \in DOMAIN stack'
    <3>1. f \in DOMAIN stack /\ (f = 1 \/ f - 1 \in DOMAIN stack)
      BY <1>1, <1>8 DEF SearchTypeOK
    <3> QED
      BY <1>1, <1>9, <3>1 DEF StackInv
  <2>4. (\A f \in DOMAIN stack : FrameInv(stack[f]))'
    BY <1>3, <2>1, SameBundle DEF FrameInv, Closed
  <2>5. (\A f \in DOMAIN stack :
          IF f = 1 THEN stack[f].id = target
          ELSE Introduces(stack[f].id, stack[f - 1].id))'
    BY <1>3, <2>3, SameBundle
  <2> QED
    BY <2>2, <2>4, <2>5 DEF StackInv
<1>13. CallInv'
  <2>1. Top' = frame /\ stack' # <<>>
    BY <1>4, <1>8, EmptySeq DEF Top
  <2>2. \A id : Introduces(id, Top.id) => (id = goal' => Introduces(id, frame.id))
    BY <1>6
  <2> QED
    BY <1>3, <1>6, <2>1 DEF CallInv, Introduces, IsAnchor, Records, Decisive, Classification
<1> QED
  BY <1>10, <1>11, <1>12, <1>13 DEF SearchInv

LEMMA Popped ==
  ASSUME SearchInv, stack # <<>>, stack' = Front(stack)
  PROVE  /\ stack' \in Seq(Frames) /\ Len(stack') = Len(stack) - 1
         /\ DOMAIN stack' = 1 .. Len(stack) - 1 /\ DOMAIN stack = 1 .. Len(stack)
         /\ \A f \in 1 .. Len(stack) - 1 : stack'[f] = stack[f]
<1>1. stack \in Seq(Frames) /\ Len(stack) \in Nat \ {0}
  BY EmptySeq DEF SearchInv, SearchTypeOK
<1>2. \A f \in 1 .. Len(stack) - 1 : stack[f] \in Frames
  BY <1>1, ElementOfSeq
<1> DEFINE last == Len(stack) - 1
<1>3. last \in Int /\ 0 <= last /\ stack' = SubSeq(stack, 1, last)
  BY <1>1 DEF Front
<1>4. /\ SubSeq(stack, 1, last) \in Seq(Frames)
      /\ Len(SubSeq(stack, 1, last)) = IF 1 <= last THEN last - 1 + 1 ELSE 0
      /\ \A f \in 1 .. last - 1 + 1 :
           SubSeq(stack, 1, last)[f] = stack[1 + f - 1]
  <2>1. \A f \in 1 .. last : stack[f] \in Frames
    BY <1>2
  <2> HIDE DEF last
  <2> QED
    BY <1>3, <2>1, SubSeqProperties
<1>5. Len(stack') = last
  <2> HIDE DEF last
  <2> QED
    BY <1>3, <1>4
<1>6. \A f \in 1 .. last : stack'[f] = stack[f]
  <2> HIDE DEF last
  <2> QED
    BY <1>3, <1>4
<1>7. DOMAIN stack' = 1 .. last /\ DOMAIN stack = 1 .. Len(stack)
  BY <1>1, <1>3, <1>4, <1>5, LenProperties
<1> QED
  BY <1>3, <1>4, <1>5, <1>6, <1>7

(* The frames that stay are not disturbed by what the call that returns    *)
(* remembers, and the record it derived is a parent of theirs.             *)
LEMMA ReturnLeastInv == SearchInv /\ ReturnLeast => SearchInv'
<1> SUFFICES ASSUME SearchInv, ReturnLeast PROVE SearchInv'
  OBVIOUS
<1>1. SearchTypeOK /\ MemoInv /\ StackInv /\ CallInv /\ stack # <<>>
  BY DEF SearchInv, ReturnLeast, Exhausted
<1>2. PICK path \in Found :
        /\ goal' = None /\ answer' = path
        /\ memo' = [memo EXCEPT ![Top.id] = path]
  BY DEF ReturnLeast, Give
<1>3. stack' = Front(stack) /\ bundle' = bundle /\ target' = target
  BY DEF ReturnLeast
<1>4. /\ Len(stack) \in DOMAIN stack /\ Len(stack) \in Nat \ {0}
      /\ Top \in Frames /\ FrameInv(Top) /\ Top.id \in Ids
      /\ path \in Seq(Ids) /\ Authorized(path, Top.id) /\ Closed(path)
  BY <1>1, <1>2, FoundInv
<1>5. memo[Top.id] = None
  BY <1>4 DEF FrameInv
<1>6. /\ MemoInv' /\ memo'[Top.id] = path /\ path # None
      /\ memo' \in [Ids -> Seq(Ids) \cup {None}]
  BY <1>1, <1>2, <1>3, <1>4, <1>5, Remembered, PathsAreNotNone
<1>7. /\ stack' \in Seq(Frames) /\ Len(stack') = Len(stack) - 1
      /\ DOMAIN stack' = 1 .. Len(stack) - 1 /\ DOMAIN stack = 1 .. Len(stack)
      /\ \A f \in 1 .. Len(stack) - 1 : stack'[f] = stack[f]
  BY <1>1, <1>3, Popped
<1>8. SearchTypeOK'
  BY <1>1, <1>2, <1>3, <1>4, <1>6, <1>7 DEF SearchTypeOK
<1>9. StackInv'
  <2>1. (\A f \in DOMAIN stack : FrameInv(stack[f]))'
    <3> SUFFICES ASSUME NEW f \in 1 .. Len(stack) - 1
                 PROVE  FrameInv(stack[f])'
      BY <1>7
    <3>1. f \in DOMAIN stack /\ f # Len(stack) /\ stack'[f] = stack[f]
      BY <1>4, <1>7
    <3>2. PICK frame \in Frames : frame = stack[f]
      BY <1>1, <1>7, <3>1, ElementOfSeq DEF SearchTypeOK
    <3>3. FrameInv(frame) /\ frame.id # Top.id
      BY <1>1, <1>4, <3>1, <3>2 DEF StackInv, Top
    <3>4. FrameInv(frame)'
      BY <1>2, <1>3, <1>4, <1>5, <3>3, FramesKeep
    <3> QED
      BY <3>1, <3>2, <3>4 DEF FrameInv, Authorized, Closed
  <2>2. \A f, g \in DOMAIN stack' : stack'[f].id = stack'[g].id => f = g
    BY <1>1, <1>4, <1>7 DEF StackInv
  <2>3. \A f \in DOMAIN stack' :
          IF f = 1 THEN stack'[f].id = target
          ELSE Introduces(stack'[f].id, stack'[f - 1].id)
    <3> TAKE f \in DOMAIN stack'
    <3>1. f \in DOMAIN stack /\ stack'[f] = stack[f]
      BY <1>4, <1>7
    <3>2. f # 1 => stack'[f - 1] = stack[f - 1]
      BY <1>4, <1>7
    <3> QED
      BY <1>1, <3>1, <3>2 DEF StackInv
  <2>4. (\A f \in DOMAIN stack :
          IF f = 1 THEN stack[f].id = target
          ELSE Introduces(stack[f].id, stack[f - 1].id))'
    BY <1>3, <2>3, SameBundle
  <2> QED
    BY <2>1, <2>2, <2>4 DEF StackInv
<1>10. CallInv'
  <2>1. CASE Len(stack) = 1
    <3>1. stack' = <<>> /\ Top.id = target
      BY <1>1, <1>4, <1>7, <2>1, EmptySeq DEF StackInv, Top
    <3>2. Authorized(path, target)'
      BY <1>3, <1>4, <3>1
      DEF Authorized, Introduces, IsAnchor, Decisive, Records,
          Classification
    <3> QED
      BY <1>2, <3>1, <3>2 DEF CallInv, Authorized
  <2>2. CASE Len(stack) # 1
    <3>1. /\ stack' # <<>> /\ Top' = stack[Len(stack) - 1]
          /\ Introduces(Top.id, stack[Len(stack) - 1].id)
      BY <1>1, <1>4, <1>7, <2>2, EmptySeq DEF StackInv, Top
    <3>2. PICK top, caller : top = Top.id /\ caller = stack[Len(stack) - 1].id
      OBVIOUS
    <3>3. Introduces(top, caller)' /\ Top'.id = caller /\ top \in Ids
      BY <1>3, <1>4, <3>1, <3>2, SameBundle
    <3>4. answer' = memo'[top] /\ goal' = None
      BY <1>2, <1>6, <3>2
    <3> QED
      BY <3>1, <3>3, <3>4 DEF CallInv, Introduces
  <2> QED
    BY <2>1, <2>2
<1> QED
  BY <1>6, <1>8, <1>9, <1>10 DEF SearchInv

LEMMA ReturnNothingInv == SearchInv /\ ReturnNothing => SearchInv'
<1> SUFFICES ASSUME SearchInv, ReturnNothing PROVE SearchInv'
  OBVIOUS
<1>1. SearchTypeOK /\ MemoInv /\ StackInv /\ CallInv /\ stack # <<>>
  BY DEF SearchInv, ReturnNothing, Exhausted
<1>2. /\ goal' = None /\ answer' = None /\ stack' = Front(stack)
      /\ UNCHANGED <<bundle, target, memo>>
  BY DEF ReturnNothing, Give
<1>3. /\ stack' \in Seq(Frames) /\ Len(stack') = Len(stack) - 1
      /\ DOMAIN stack' = 1 .. Len(stack) - 1 /\ DOMAIN stack = 1 .. Len(stack)
      /\ \A f \in 1 .. Len(stack) - 1 : stack'[f] = stack[f]
      /\ Len(stack) \in Nat \ {0}
  BY <1>1, <1>2, Popped, EmptySeq DEF SearchTypeOK
<1>4. SearchTypeOK'
  BY <1>1, <1>2, <1>3 DEF SearchTypeOK
<1>5. MemoInv'
  BY <1>1, <1>2, SameBundle DEF MemoInv, Closed
<1>6. StackInv'
  <2>1. \A f \in DOMAIN stack' : FrameInv(stack'[f])
    BY <1>1, <1>3 DEF StackInv
  <2>2. (\A f \in DOMAIN stack : FrameInv(stack[f]))'
    BY <1>2, <2>1, SameBundle DEF FrameInv, Closed
  <2>3. \A f, g \in DOMAIN stack' : stack'[f].id = stack'[g].id => f = g
    BY <1>1, <1>3 DEF StackInv
  <2>4. \A f \in DOMAIN stack' :
          IF f = 1 THEN stack'[f].id = target
          ELSE Introduces(stack'[f].id, stack'[f - 1].id)
    <3> TAKE f \in DOMAIN stack'
    <3>1. /\ f \in DOMAIN stack /\ stack'[f] = stack[f]
          /\ f # 1 => stack'[f - 1] = stack[f - 1]
      BY <1>3
    <3> QED
      BY <1>1, <3>1 DEF StackInv
  <2>5. (\A f \in DOMAIN stack :
          IF f = 1 THEN stack[f].id = target
          ELSE Introduces(stack[f].id, stack[f - 1].id))'
    BY <1>2, <2>4, SameBundle
  <2> QED
    BY <2>2, <2>3, <2>5 DEF StackInv
<1>7. CallInv'
  BY <1>2 DEF CallInv
<1> QED
  BY <1>4, <1>5, <1>6, <1>7 DEF SearchInv

-----------------------------------------------------------------------------

LEMMA SearchStutterInv == SearchInv /\ UNCHANGED searchVars => SearchInv'
<1> SUFFICES ASSUME SearchInv, UNCHANGED searchVars PROVE SearchInv'
  OBVIOUS
<1> QED
  BY SameBundle
  DEF searchVars, SearchInv, SearchTypeOK, MemoInv, StackInv, CallInv, FrameInv,
      Closed, Top

(* The invariant holds in every state of every search.                     *)
THEOREM SearchInvariant == SearchSpec => []SearchInv
<1>1. SearchInv /\ [SearchNext]_searchVars => SearchInv'
  BY RecallInv, RefuseInv, ReachAnchorInv, DescendInv, TryParentInv,
     ReturnLeastInv, ReturnNothingInv, SearchStutterInv
  DEF SearchNext, SearchStep
<1> QED
  BY <1>1, SearchInitInv, PTL DEF SearchSpec

(* Whatever the bundle and the oracle's classification, cyclic or not, the *)
(* path _canonical_authorization_path returns runs from an anchor of the   *)
(* right kind to the record, over decisive VALID introductions of each     *)
(* next signer, and meets no record twice.                                 *)
THEOREM PathsAreAuthorized == SearchSpec => []PathIsAuthorized
<1>1. SearchInv => PathIsAuthorized
  BY DEF SearchInv, CallInv, PathIsAuthorized, Finished
<1> QED
  BY <1>1, SearchInvariant, PTL

-----------------------------------------------------------------------------
(* What a search that found nothing has ruled out.  A call turns back at   *)
(* the active records, so what it rules out are the paths that avoid them. *)

Blocked(id, set) ==
  \A path \in Seq(Ids) :
    Authorized(path, id) => \E i \in DOMAIN path : path[i] \in set

(* A parent whose paths are all blocked by the active records, or whose    *)
(* path was extended to the record of the call.                            *)
Judged(parent, id, set, found) ==
  \/ Blocked(parent, set)
  \/ memo[parent] # None /\ Append(memo[parent], id) \in found

Upto(f) == {stack[g].id : g \in 1 .. f}
Pending(f) == IF f < Len(stack) THEN stack[f + 1].id ELSE goal
FoundAt(f) == IF f < Len(stack) THEN stack[f].found ELSE Found

TriedInv ==
  \A f \in DOMAIN stack : \A m \in DOMAIN bundle.order :
    m < stack[f].next /\ Introduces(bundle.order[m], stack[f].id) =>
      \/ bundle.order[m] = Pending(f)
      \/ Judged(bundle.order[m], stack[f].id, Upto(f), FoundAt(f))

OutcomeInv ==
  /\ goal # None => answer = None
  /\ stack = <<>> /\ goal = None =>
       IF answer = None THEN Blocked(target, {}) ELSE answer = memo[target]

CompleteInv == TriedInv /\ OutcomeInv

-----------------------------------------------------------------------------

(* The records of a bundle are identifiers, and the loop meets them all.   *)
LEMMA OrderIsComplete ==
  ASSUME bundle \in Bundles
  PROVE  /\ Decisive \subseteq Ids /\ Decisive \subseteq DOMAIN Records
         /\ bundle.order \in Seq(Ids)
         /\ \A id \in Decisive : \E m \in DOMAIN bundle.order : bundle.order[m] = id
<1>1. /\ DOMAIN bundle.records \subseteq Ids /\ bundle.decisive \subseteq DOMAIN bundle.records
      /\ bundle.order \in Seq(DOMAIN bundle.records)
      /\ \A id \in DOMAIN bundle.records : \E n \in DOMAIN bundle.order : bundle.order[n] = id
  BY BundlesAssumption
<1>2. bundle.order \in Seq(Ids)
  BY <1>1
<1> QED
  BY <1>1, <1>2 DEF Decisive, Records

LEMMA JudgedStays ==
  ASSUME bundle' = bundle, NEW parent \in Ids, NEW id, NEW set, NEW found, NEW more,
         Judged(parent, id, set, found), found \subseteq more,
         memo[parent] # None => memo'[parent] = memo[parent]
  PROVE  Judged(parent, id, set, more)'
<1>1. Blocked(parent, set) => Blocked(parent, set)'
  BY SameBundle DEF Blocked
<1> QED
  BY <1>1 DEF Judged

(* An authorized path without its last member is authorized.               *)
LEMMA FrontOfPath ==
  ASSUME NEW id, NEW path \in Seq(Ids), Authorized(path, id), Len(path) # 1
  PROVE  \E front \in Seq(Ids), parent \in Ids :
           /\ Introduces(parent, id) /\ Authorized(front, parent)
           /\ Len(path) = Len(front) + 1
           /\ \A i \in 1 .. Len(front) : front[i] = path[i]
           /\ path = Append(front, id)
<1> PICK n : n = Len(path)
  OBVIOUS
<1> PICK front : front = SubSeq(path, 1, n - 1)
  OBVIOUS
<1>1. /\ path # <<>> /\ path[n] = id /\ IsAnchor(path[1])
      /\ \A i \in 1 .. n - 1 : Introduces(path[i], path[i + 1])
      /\ \A i, j \in DOMAIN path : path[i] = path[j] => i = j
  BY DEF Authorized
<1>2. n \in Nat /\ n >= 2 /\ DOMAIN path = 1 .. n
  <2>1. n \in Nat /\ DOMAIN path = 1 .. n /\ n # 0
    BY <1>1, EmptySeq
  <2> QED
    BY <2>1
<1>3. /\ front \in Seq(Ids) /\ Len(front) = n - 1
      /\ \A i \in 1 .. n - 1 : front[i] = path[i]
  BY <1>2
<1>4. Introduces(path[n - 1], id) /\ path[n - 1] \in Decisive
  BY <1>1, <1>2 DEF Introduces
<1>5. Authorized(front, path[n - 1])
  <2>1. front # <<>> /\ front[Len(front)] = path[n - 1] /\ front[1] = path[1]
    <3>1. Len(front) # 0 /\ n - 1 \in 1 .. n - 1 /\ 1 \in 1 .. n - 1
      BY <1>2, <1>3
    <3> QED
      BY <1>3, <3>1, EmptySeq
  <2>2. \A i \in 1 .. Len(front) - 1 : Introduces(front[i], front[i + 1])
    BY <1>1, <1>2, <1>3
  <2>3. \A i, j \in DOMAIN front : front[i] = front[j] => i = j
    BY <1>1, <1>2, <1>3
  <2> QED
    BY <1>1, <1>3, <1>4, <2>1, <2>2, <2>3 DEF Authorized
<1>6. path = Append(front, id)
  <2>1. id \in Ids /\ path[n] \in Ids
    BY <1>1, <1>2
  <2>2. /\ Append(front, id) \in Seq(Ids) /\ Len(Append(front, id)) = n
        /\ \A i \in 1 .. n : Append(front, id)[i] = path[i]
    BY <1>1, <1>2, <1>3, <2>1
  <2> QED
    BY <1>2, <2>2, SeqEqual
<1>7. path[n - 1] \in Ids
  BY <1>2
<1>8. n = Len(front) + 1
  BY <1>2, <1>3
<1> QED
  BY <1>3, <1>4, <1>5, <1>6, <1>7, <1>8

(* A record that is no anchor is blocked if all its parents are: its own   *)
(* paths go through one of them, and do not meet it twice.                 *)
LEMMA BlockedRecord ==
  ASSUME bundle \in Bundles, NEW id, ~ IsAnchor(id), NEW set,
         \A m \in DOMAIN bundle.order :
           Introduces(bundle.order[m], id) => Blocked(bundle.order[m], set \cup {id})
  PROVE  Blocked(id, set)
<1> SUFFICES ASSUME NEW path \in Seq(Ids), Authorized(path, id)
             PROVE  \E i \in DOMAIN path : path[i] \in set
  BY DEF Blocked
<1>1. PICK front \in Seq(Ids), parent \in Ids :
        /\ Introduces(parent, id) /\ Authorized(front, parent)
        /\ Len(path) = Len(front) + 1
        /\ \A i \in 1 .. Len(front) : front[i] = path[i]
  <2>1. Len(path) # 1
    BY DEF Authorized
  <2> QED
    BY <2>1, FrontOfPath
<1>2. PICK m \in DOMAIN bundle.order : bundle.order[m] = parent
  BY <1>1, OrderIsComplete DEF Introduces
<1>3. PICK i \in DOMAIN front : front[i] \in set \cup {id}
  BY <1>1, <1>2 DEF Blocked
<1>4. /\ i \in DOMAIN path /\ path[i] = front[i] /\ i # Len(path)
      /\ Len(path) \in DOMAIN path
  <2>1. i \in 1 .. Len(front) /\ Len(front) \in Nat
    BY <1>3
  <2>2. i \in 1 .. Len(path) /\ i # Len(path) /\ Len(path) \in 1 .. Len(path)
    BY <1>1, <2>1
  <2> QED
    BY <1>1, <2>1, <2>2
<1>5. path[i] # id
  BY <1>4 DEF Authorized
<1> QED
  BY <1>3, <1>4, <1>5

(* A call that returned at once: what it was asked for is judged.          *)
LEMMA ReturnedTried ==
  ASSUME SearchInv, CompleteInv, goal # None, goal' = None,
         UNCHANGED <<bundle, target, stack>>,
         \A id \in Ids : memo[id] # None => memo'[id] = memo[id],
         NEW asked, asked = goal,
         stack # <<>> => Judged(asked, Top.id, Active, Found)'
  PROVE  TriedInv'
<1> SUFFICES ASSUME NEW f \in DOMAIN stack, NEW m \in DOMAIN bundle.order,
                    m < stack[f].next, Introduces(bundle.order[m], stack[f].id)
             PROVE  (\/ bundle.order[m] = Pending(f)
                     \/ Judged(bundle.order[m], stack[f].id, Upto(f), FoundAt(f)))'
  BY SameBundle DEF TriedInv
<1>1. /\ stack \in Seq(Frames) /\ Len(stack) \in Nat /\ DOMAIN stack = 1 .. Len(stack)
      /\ bundle \in Bundles
  BY DEF SearchInv, SearchTypeOK
<1> PICK parent, id, set, found :
      /\ parent = bundle.order[m] /\ id = stack[f].id
      /\ set = Upto(f) /\ found = FoundAt(f)
  OBVIOUS
<1>2. parent \in Ids
  BY <1>1, OrderIsComplete
<1>3. /\ bundle'.order[m] = parent /\ stack'[f].id = id
      /\ Upto(f)' = set
  BY DEF Upto
<1>4. parent = Pending(f) \/ Judged(parent, id, set, found)
  BY DEF CompleteInv, TriedInv
<1>5. found \subseteq FoundAt(f)'
  <2>1. answer = None
    BY DEF CompleteInv, OutcomeInv
  <2>2. Top' = Top
    BY DEF Top
  <2> QED
    BY <2>1, <2>2 DEF FoundAt, Found
<1>6. CASE Judged(parent, id, set, found)
  <2> PICK more : more = FoundAt(f)'
    OBVIOUS
  <2>1. Judged(parent, id, set, more)'
    BY <1>2, <1>5, <1>6, JudgedStays
  <2> QED
    BY <1>3, <2>1 DEF Judged, Blocked
<1>7. CASE f < Len(stack) /\ parent = Pending(f)
  BY <1>3, <1>7 DEF Pending
<1>8. CASE f = Len(stack) /\ parent = goal
  <2>1. stack # <<>> /\ Top.id = id /\ Active = set /\ FoundAt(f)' = Found'
    BY <1>1, <1>8 DEF Top, Active, Upto, FoundAt
  <2>2. Top'.id = id /\ Active' = set
    BY <2>1 DEF Top, Active
  <2>3. Judged(parent, id, set, Found)'
    BY <1>8, <2>1, <2>2 DEF Judged, Blocked
  <2> QED
    BY <1>3, <2>1, <2>3 DEF Judged, Blocked
<1> QED
  BY <1>1, <1>4, <1>6, <1>7, <1>8 DEF Pending

LEMMA RecallTried == SearchInv /\ CompleteInv /\ Recall => CompleteInv'
<1> SUFFICES ASSUME SearchInv, CompleteInv, Recall PROVE CompleteInv'
  OBVIOUS
<1> PICK asked : asked = goal
  OBVIOUS
<1>1. /\ asked \in Ids /\ goal # None /\ memo[asked] # None
      /\ answer' = memo[asked] /\ goal' = None
      /\ UNCHANGED <<bundle, target, stack, memo>>
  BY IdsAssumption DEF Recall, Give, SearchInv, SearchTypeOK
<1>2. Judged(asked, Top.id, Active, Found)'
  <2>1. Top' = Top
    BY <1>1 DEF Top
  <2> QED
    BY <1>1, <2>1 DEF Judged, Found
<1>3. TriedInv'
  BY <1>1, <1>2, ReturnedTried
<1>4. OutcomeInv'
  BY <1>1 DEF OutcomeInv, SearchInv, CallInv
<1> QED
  BY <1>3, <1>4 DEF CompleteInv

LEMMA RefuseTried == SearchInv /\ CompleteInv /\ Refuse => CompleteInv'
<1> SUFFICES ASSUME SearchInv, CompleteInv, Refuse PROVE CompleteInv'
  OBVIOUS
<1> PICK asked, active : asked = goal /\ active = Active
  OBVIOUS
<1>1. /\ goal # None
      /\ asked \in active \/ ~ Known(asked)
      /\ answer' = None /\ goal' = None
      /\ UNCHANGED <<bundle, target, stack, memo>>
  BY DEF Refuse, Give
<1>2. Blocked(asked, active)
  <2> SUFFICES ASSUME NEW path \in Seq(Ids), Authorized(path, asked)
               PROVE  \E i \in DOMAIN path : path[i] \in active
    BY DEF Blocked
  <2>1. asked \in Decisive /\ path[Len(path)] = asked /\ Len(path) \in DOMAIN path
    BY EmptySeq DEF Authorized
  <2>2. Known(asked)
    BY <2>1, OrderIsComplete DEF Known, SearchInv, SearchTypeOK
  <2> QED
    BY <1>1, <2>1, <2>2
<1>3. Blocked(asked, active)'
  BY <1>1, <1>2, SameBundle DEF Blocked
<1>4. Active' = active
  BY <1>1 DEF Active
<1>5. Judged(asked, Top.id, Active, Found)'
  BY <1>3, <1>4 DEF Judged, Blocked
<1>6. TriedInv'
  <2>1. /\ goal' = None /\ UNCHANGED <<bundle, target, stack>>
        /\ \A id \in Ids : memo[id] # None => memo'[id] = memo[id]
    BY <1>1
  <2> QED
    BY <1>1, <1>5, <2>1, ReturnedTried
<1>7. OutcomeInv'
  <2>1. ASSUME stack = <<>>
        PROVE  asked = target /\ active = {}
    <3>1. DOMAIN stack = {}
      BY <2>1, EmptySeq
    <3> QED
      BY <1>1, <2>1, <3>1 DEF SearchInv, CallInv, Active
  <2> QED
    BY <1>1, <1>3, <2>1 DEF OutcomeInv, Blocked
<1> QED
  BY <1>6, <1>7 DEF CompleteInv

LEMMA ReachAnchorTried == SearchInv /\ CompleteInv /\ ReachAnchor => CompleteInv'
<1> SUFFICES ASSUME SearchInv, CompleteInv, ReachAnchor PROVE CompleteInv'
  OBVIOUS
<1> PICK asked : asked = goal
  OBVIOUS
<1>1. /\ asked \in Ids /\ goal # None /\ memo[asked] = None
      /\ answer' = <<asked>> /\ goal' = None
      /\ memo' = [memo EXCEPT ![asked] = <<asked>>]
      /\ UNCHANGED <<bundle, target, stack>>
  BY IdsAssumption DEF ReachAnchor, Give, SearchInv, SearchTypeOK
<1>2. /\ memo'[asked] = answer' /\ answer' # None
      /\ \A id \in Ids : memo[id] # None => memo'[id] = memo[id]
  <2>1. <<asked>> \in Seq(Ids)
    BY <1>1
  <2> QED
    BY <1>1, <2>1, PathsAreNotNone DEF SearchInv, SearchTypeOK
<1>3. Judged(asked, Top.id, Active, Found)'
  <2>1. Top' = Top
    BY <1>1 DEF Top
  <2> QED
    BY <1>2, <2>1 DEF Judged, Found
<1>4. TriedInv'
  BY <1>1, <1>2, <1>3, ReturnedTried
<1>5. OutcomeInv'
  BY <1>1, <1>2 DEF OutcomeInv, SearchInv, CallInv
<1> QED
  BY <1>4, <1>5 DEF CompleteInv

LEMMA DescendTried == SearchInv /\ CompleteInv /\ Descend => CompleteInv'
<1> SUFFICES ASSUME SearchInv, CompleteInv, Descend PROVE CompleteInv'
  OBVIOUS
<1> PICK asked, frame : asked = goal /\ frame = [id |-> asked, next |-> 1, found |-> {}]
  OBVIOUS
<1>1. /\ asked \in Ids /\ goal # None /\ answer' = None /\ goal' = None
      /\ stack' = Append(stack, frame)
      /\ UNCHANGED <<bundle, target, memo>>
  BY IdsAssumption DEF Descend, Give, SearchInv, SearchTypeOK
<1>2. frame \in Frames /\ stack \in Seq(Frames) /\ bundle \in Bundles
  BY <1>1 DEF Frames, SearchInv, SearchTypeOK
<1>3. /\ Len(stack) \in Nat /\ Len(stack') = Len(stack) + 1
      /\ DOMAIN stack = 1 .. Len(stack) /\ DOMAIN stack' = 1 .. Len(stack) + 1
      /\ stack'[Len(stack) + 1] = frame
      /\ \A f \in DOMAIN stack : stack'[f] = stack[f]
  BY <1>1, <1>2, AppendProperties
<1>4. bundle.order \in Seq(Ids)
  BY <1>2, OrderIsComplete
<1>5. ASSUME NEW f \in DOMAIN stack', NEW m \in DOMAIN bundle.order,
             m < stack'[f].next, Introduces(bundle.order[m], stack'[f].id)
      PROVE  (\/ bundle.order[m] = Pending(f)
              \/ Judged(bundle.order[m], stack[f].id, Upto(f), FoundAt(f)))'
  <2>1. f \in DOMAIN stack
    <3>1. m \in Nat /\ m >= 1 /\ frame.next = 1
      BY <1>4
    <3>2. stack'[f] # frame
      BY <1>5, <3>1
    <3> QED
      BY <1>3, <3>2
  <2> PICK parent, id, set, found :
        /\ parent = bundle.order[m] /\ id = stack[f].id
        /\ set = Upto(f) /\ found = FoundAt(f)
    OBVIOUS
  <2>2. /\ parent \in Ids /\ stack'[f] = stack[f] /\ stack'[f].id = id
        /\ bundle'.order[m] = parent /\ f < Len(stack')
    BY <1>1, <1>3, <1>4, <2>1
  <2>3. parent = Pending(f) \/ Judged(parent, id, set, found)
    BY <1>5, <2>1, <2>2 DEF CompleteInv, TriedInv
  <2>4. Upto(f)' = set
    BY <1>3, <2>1 DEF Upto
  <2>5. FoundAt(f)' = found
    <3>1. FoundAt(f)' = stack[f].found
      BY <1>3, <2>2 DEF FoundAt
    <3>2. f = Len(stack) => Found = stack[f].found
      BY <1>1 DEF Found, Top, CompleteInv, OutcomeInv
    <3> QED
      BY <1>3, <2>1, <3>1, <3>2 DEF FoundAt
  <2>6. Pending(f)' = Pending(f)
    <3>1. Pending(f)' = stack'[f + 1].id
      BY <1>3, <2>2 DEF Pending
    <3>2. CASE f < Len(stack)
      BY <1>3, <2>1, <3>1, <3>2 DEF Pending
    <3>3. CASE f = Len(stack)
      BY <1>3, <3>1, <3>3 DEF Pending
    <3> QED
      BY <1>3, <2>1, <3>2, <3>3
  <2>7. Judged(parent, id, set, found) => Judged(parent, id, set, found)'
    BY <1>1, <2>2, JudgedStays
  <2> QED
    BY <2>2, <2>3, <2>4, <2>5, <2>6, <2>7 DEF Judged, Blocked
<1>6. TriedInv'
  BY <1>1, <1>5, SameBundle DEF TriedInv
<1>7. OutcomeInv'
  <2>1. stack' # <<>>
    BY <1>3
  <2> QED
    BY <1>1, <2>1 DEF OutcomeInv
<1> QED
  BY <1>6, <1>7 DEF CompleteInv

LEMMA TryParentTried == SearchInv /\ CompleteInv /\ TryParent => CompleteInv'
<1> SUFFICES ASSUME SearchInv, CompleteInv, TryParent PROVE CompleteInv'
  OBVIOUS
<1>1. PICK n \in Remaining :
        /\ IsParent(n) /\ TryRecord(n)
        /\ \A m \in Top.next .. n - 1 : ~ IsParent(m)
  BY DEF TryParent
<1> PICK top, got, last : top = Top /\ got = Found /\ last = Len(stack)
  OBVIOUS
<1>2. /\ stack # <<>> /\ goal = None /\ answer' = None /\ goal' = bundle.order[n]
      /\ stack' = [stack EXCEPT ![last] = [id |-> top.id, next |-> n + 1, found |-> got]]
      /\ UNCHANGED <<bundle, target, memo>>
  BY <1>1 DEF TryParent, TryRecord
<1>3. /\ last \in DOMAIN stack /\ last \in Nat \ {0} /\ DOMAIN stack = 1 .. last
      /\ top = stack[last] /\ top.next \in Nat /\ n \in top.next .. Len(bundle.order)
      /\ bundle \in Bundles
  <2>1. last \in DOMAIN stack /\ last \in Nat \ {0} /\ top \in Frames
    BY <1>2, FoundInv
  <2>2. DOMAIN stack = 1 .. last /\ bundle \in Bundles
    BY DEF SearchInv, SearchTypeOK
  <2> QED
    BY <1>1, <2>1, <2>2 DEF Frames, Remaining, Top
<1>4. /\ DOMAIN stack' = DOMAIN stack /\ Len(stack') = last
      /\ stack'[last] = [id |-> top.id, next |-> n + 1, found |-> got]
      /\ \A f \in DOMAIN stack : f # last => stack'[f] = stack[f]
      /\ \A f \in DOMAIN stack : stack'[f].id = stack[f].id
  <2>1. stack \in Seq(Frames)
    BY DEF SearchInv, SearchTypeOK
  <2> QED
    BY <1>2, <1>3, <2>1
<1>5. bundle.order \in Seq(Ids) /\ n \in Nat
  BY <1>3, OrderIsComplete
<1>6. Found' = got
  <2>1. Top' = stack'[last]
    BY <1>4 DEF Top
  <2> QED
    BY <1>2, <1>4, <2>1 DEF Found
<1>7. ASSUME NEW f \in DOMAIN stack', NEW m \in DOMAIN bundle.order,
             m < stack'[f].next, Introduces(bundle.order[m], stack'[f].id)
      PROVE  (\/ bundle.order[m] = Pending(f)
              \/ Judged(bundle.order[m], stack[f].id, Upto(f), FoundAt(f)))'
  <2> PICK parent, id, set, found :
        /\ parent = bundle.order[m] /\ id = stack[f].id
        /\ set = Upto(f) /\ found = FoundAt(f)
    OBVIOUS
  <2>1. /\ f \in DOMAIN stack /\ f \in 1 .. last /\ m \in Nat
        /\ parent \in Ids /\ stack'[f].id = id /\ bundle'.order[m] = parent
        /\ Introduces(parent, id) /\ parent # None
    BY <1>2, <1>3, <1>4, <1>5, <1>7, IdsAssumption
  <2>2. m < stack[f].next =>
          parent = Pending(f) \/ Judged(parent, id, set, found)
    BY <2>1 DEF CompleteInv, TriedInv
  <2>3. Upto(f)' = set
    BY <1>3, <1>4, <2>1 DEF Upto
  <2>4. FoundAt(f)' = found
    <3>1. CASE f = last
      BY <1>4, <1>6, <3>1 DEF FoundAt
    <3>2. CASE f # last
      BY <1>3, <1>4, <2>1, <3>2 DEF FoundAt
    <3> QED
      BY <3>1, <3>2
  <2>5. Judged(parent, id, set, found) => Judged(parent, id, set, found)'
    BY <1>2, <2>1, JudgedStays
  <2>6. CASE f # last
    <3>1. /\ stack'[f] = stack[f] /\ f < last
          /\ f + 1 \in DOMAIN stack
      BY <1>3, <1>4, <2>1, <2>6
    <3>2. Pending(f)' = Pending(f)
      BY <1>4, <3>1 DEF Pending
    <3> QED
      BY <1>7, <2>1, <2>2, <2>3, <2>4, <2>5, <3>1, <3>2 DEF Judged, Blocked
  <2>7. CASE f = last /\ m < top.next
    <3>1. Pending(f) = None
      BY <1>2, <1>3, <2>7 DEF Pending
    <3> QED
      BY <1>3, <2>1, <2>2, <2>3, <2>4, <2>5, <2>7, <3>1 DEF Judged, Blocked
  <2>8. CASE f = last /\ ~ (m < top.next)
    <3>1. m = n
      <4>1. m <= n
        BY <1>4, <1>5, <1>7, <2>1, <2>8
      <4>2. m \in top.next .. n - 1 => ~ IsParent(m)
        BY <1>1
      <4>3. IsParent(m)
        BY <1>3, <2>1, <2>8 DEF IsParent
      <4> QED
        BY <1>3, <1>5, <2>1, <2>8, <4>1, <4>2, <4>3
    <3>2. Pending(f)' = bundle.order[n]
      BY <1>2, <1>3, <1>4, <2>8 DEF Pending
    <3> QED
      BY <2>1, <3>1, <3>2
  <2> QED
    BY <2>6, <2>7, <2>8
<1>8. TriedInv'
  BY <1>2, <1>7, SameBundle DEF TriedInv
<1>9. OutcomeInv'
  <2>1. goal' \in Ids
    BY <1>1, <1>2, <1>3, OrderIsComplete DEF IsParent, Introduces
  <2> QED
    BY <1>2, <2>1, IdsAssumption DEF OutcomeInv
<1> QED
  BY <1>8, <1>9 DEF CompleteInv

(* A call that returns to its caller: the record it derived is judged.     *)
LEMMA PoppedTried ==
  ASSUME SearchInv, CompleteInv, stack # <<>>, goal = None, goal' = None,
         stack' = Front(stack), bundle' = bundle,
         \A id \in Ids : memo[id] # None => memo'[id] = memo[id],
         NEW asked, asked = Top.id,
         Len(stack) > 1 => Judged(asked, Top.id, Active, Found)'
  PROVE  TriedInv'
<1> PICK last : last = Len(stack)
  OBVIOUS
<1>1. /\ Len(stack') = last - 1 /\ DOMAIN stack' = 1 .. last - 1
      /\ DOMAIN stack = 1 .. last /\ last \in Nat \ {0}
      /\ \A f \in 1 .. last - 1 : stack'[f] = stack[f]
      /\ bundle \in Bundles
  BY Popped, FoundInv DEF SearchInv, SearchTypeOK
<1> SUFFICES ASSUME NEW f \in DOMAIN stack', NEW m \in DOMAIN bundle.order,
                    m < stack'[f].next, Introduces(bundle.order[m], stack'[f].id)
             PROVE  (\/ bundle.order[m] = Pending(f)
                     \/ Judged(bundle.order[m], stack[f].id, Upto(f), FoundAt(f)))'
  BY SameBundle DEF TriedInv
<1> PICK parent, id, set, found :
      /\ parent = bundle.order[m] /\ id = stack[f].id
      /\ set = Upto(f) /\ found = FoundAt(f)
  OBVIOUS
<1>2. /\ f \in 1 .. last - 1 /\ f \in DOMAIN stack /\ stack'[f] = stack[f] /\ f < last
      /\ stack'[f].id = id /\ bundle'.order[m] = parent /\ parent \in Ids
  BY <1>1, OrderIsComplete
<1>3. parent = Pending(f) \/ Judged(parent, id, set, found)
  BY <1>2 DEF CompleteInv, TriedInv
<1>4. Upto(f)' = set
  BY <1>1, <1>2 DEF Upto
<1>5. found \subseteq FoundAt(f)'
  <2>1. found = stack[f].found
    BY <1>2 DEF FoundAt
  <2>2. CASE f = last - 1
    <3>1. Top' = stack[f]
      BY <1>1, <1>2, <2>2 DEF Top
    <3>2. FoundAt(f)' = Found'
      BY <1>1, <2>2 DEF FoundAt
    <3> QED
      BY <2>1, <3>1, <3>2 DEF Found
  <2>3. CASE f # last - 1
    <3>1. f < Len(stack')
      BY <1>1, <1>2, <2>3
    <3> QED
      BY <1>2, <2>1, <3>1 DEF FoundAt
  <2> QED
    BY <2>2, <2>3
<1>6. CASE Judged(parent, id, set, found)
  <2> PICK more : more = FoundAt(f)'
    OBVIOUS
  <2>1. Judged(parent, id, set, more)'
    BY <1>2, <1>5, <1>6, JudgedStays
  <2> QED
    BY <1>2, <1>4, <2>1 DEF Judged, Blocked
<1>7. CASE f < last - 1 /\ parent = Pending(f)
  <2>1. f + 1 \in 1 .. last - 1 /\ f < Len(stack')
    BY <1>1, <1>2, <1>7
  <2> QED
    BY <1>1, <1>2, <1>7, <2>1 DEF Pending
<1>8. CASE f = last - 1 /\ parent = Pending(f)
  <2>1. parent = asked /\ Len(stack) > 1
    BY <1>1, <1>2, <1>8 DEF Pending, Top
  <2>2. Top'.id = id /\ Active' = set
    <3>1. Top' = stack[f]
      BY <1>1, <1>2, <1>8 DEF Top
    <3>2. Active' = {stack'[g].id : g \in 1 .. f}
      BY <1>1, <1>8 DEF Active
    <3>3. \A g \in 1 .. f : stack'[g] = stack[g]
      BY <1>1, <1>8
    <3> QED
      BY <3>1, <3>2, <3>3 DEF Upto
  <2>3. FoundAt(f)' = Found'
    BY <1>1, <1>8 DEF FoundAt
  <2> QED
    BY <1>2, <1>4, <2>1, <2>2, <2>3 DEF Judged, Blocked
<1> QED
  BY <1>1, <1>2, <1>3, <1>6, <1>7, <1>8

LEMMA ReturnLeastTried == SearchInv /\ CompleteInv /\ ReturnLeast => CompleteInv'
<1> SUFFICES ASSUME SearchInv, CompleteInv, ReturnLeast PROVE CompleteInv'
  OBVIOUS
<1>1. PICK path \in Found :
        /\ goal' = None /\ answer' = path
        /\ memo' = [memo EXCEPT ![Top.id] = path]
  BY DEF ReturnLeast, Give
<1>2. /\ stack # <<>> /\ goal = None /\ stack' = Front(stack)
      /\ bundle' = bundle /\ target' = target
  BY DEF ReturnLeast, Exhausted
<1> PICK asked : asked = Top.id
  OBVIOUS
<1>3. /\ asked \in Ids /\ memo[asked] = None /\ path # None
      /\ memo \in [Ids -> Seq(Ids) \cup {None}]
  BY <1>2, FoundInv, PathsAreNotNone DEF FrameInv, SearchInv, SearchTypeOK
<1>4. /\ memo'[asked] = path
      /\ \A id \in Ids : memo[id] # None => memo'[id] = memo[id]
  BY <1>1, <1>3
<1>5. Judged(asked, Top.id, Active, Found)'
  BY <1>1, <1>3, <1>4 DEF Judged, Found
<1>6. TriedInv'
  BY <1>1, <1>2, <1>4, <1>5, PoppedTried
<1>7. stack' = <<>> => asked = target
  <2>1. Len(stack') = Len(stack) - 1 /\ Len(stack) \in DOMAIN stack
    BY <1>2, Popped, FoundInv
  <2>2. stack' = <<>> => Len(stack) = 1
    BY <1>2, <2>1, FoundInv, EmptySeq
  <2> QED
    BY <2>1, <2>2 DEF SearchInv, StackInv, Top
<1>8. OutcomeInv'
  BY <1>1, <1>2, <1>3, <1>4, <1>7 DEF OutcomeInv
<1> QED
  BY <1>6, <1>8 DEF CompleteInv

LEMMA ReturnNothingTried == SearchInv /\ CompleteInv /\ ReturnNothing => CompleteInv'
<1> SUFFICES ASSUME SearchInv, CompleteInv, ReturnNothing PROVE CompleteInv'
  OBVIOUS
<1>1. /\ stack # <<>> /\ goal = None /\ goal' = None /\ answer' = None
      /\ stack' = Front(stack) /\ Found = {}
      /\ \A n \in Remaining : ~ IsParent(n)
      /\ UNCHANGED <<bundle, target, memo>>
  BY DEF ReturnNothing, Give, Exhausted
<1> PICK asked, last, above : /\ asked = Top.id /\ last = Len(stack)
                              /\ above = Upto(last - 1)
  OBVIOUS
<1>2. /\ last \in DOMAIN stack /\ last \in Nat \ {0} /\ DOMAIN stack = 1 .. last
      /\ Top.next \in Nat /\ ~ IsAnchor(asked) /\ bundle \in Bundles
      /\ Top = stack[last]
  BY <1>1, FoundInv DEF FrameInv, Frames, SearchInv, SearchTypeOK, Top
<1>3. bundle.order \in Seq(Ids)
  BY <1>2, OrderIsComplete
<1>4. Upto(last) = above \cup {asked}
  BY <1>2 DEF Upto
<1>5. ASSUME NEW m \in DOMAIN bundle.order, Introduces(bundle.order[m], asked)
      PROVE  Blocked(bundle.order[m], above \cup {asked})
  <2>1. bundle.order[m] # None
    BY <1>3, IdsAssumption
  <2>2. m < Top.next
    BY <1>1, <1>2, <1>3, <1>5 DEF Remaining, IsParent
  <2>3. Pending(last) = None /\ FoundAt(last) = {}
    BY <1>1 DEF Pending, FoundAt
  <2>4. Judged(bundle.order[m], asked, Upto(last), FoundAt(last))
    BY <1>2, <1>5, <2>1, <2>2, <2>3 DEF CompleteInv, TriedInv
  <2> QED
    BY <1>4, <2>3, <2>4 DEF Judged
<1>6. Blocked(asked, above)
  BY <1>2, <1>5, BlockedRecord
<1>7. Blocked(asked, above)'
  BY <1>1, <1>6, SameBundle DEF Blocked
<1>8. /\ Len(stack') = last - 1 /\ DOMAIN stack' = 1 .. last - 1
      /\ \A f \in 1 .. last - 1 : stack'[f] = stack[f]
  BY <1>1, Popped
<1>9. Active' = above
  BY <1>8 DEF Active, Upto
<1>10. Judged(asked, Top.id, Active, Found)'
  BY <1>7, <1>9 DEF Judged, Blocked
<1>11. TriedInv'
  <2>1. \A id \in Ids : memo[id] # None => memo'[id] = memo[id]
    BY <1>1
  <2> QED
    BY <1>1, <1>10, <2>1, PoppedTried
<1>12. stack' = <<>> => asked = target /\ above = {}
  <2>1. ASSUME stack' = <<>>
        PROVE  last = 1
    <3>1. Len(stack') = 0
      BY <2>1, EmptySeq
    <3>2. last \in Nat /\ last - 1 = 0
      BY <1>2, <1>8, <3>1
    <3> QED
      BY <3>2
  <2>2. last = 1 => asked = target
    BY <1>2 DEF SearchInv, StackInv
  <2>3. last = 1 => above = {}
    BY DEF Upto
  <2> QED
    BY <2>1, <2>2, <2>3
<1>13. OutcomeInv'
  BY <1>1, <1>7, <1>12 DEF OutcomeInv, Blocked
<1> QED
  BY <1>11, <1>13 DEF CompleteInv

LEMMA CompleteNext ==
  SearchInv /\ CompleteInv /\ [SearchNext]_searchVars => CompleteInv'
<1>1. SearchInv /\ CompleteInv /\ UNCHANGED searchVars => CompleteInv'
  <2> SUFFICES ASSUME CompleteInv, UNCHANGED searchVars PROVE CompleteInv'
    OBVIOUS
  <2> QED
    BY SameBundle
    DEF searchVars, CompleteInv, TriedInv, OutcomeInv, Judged, Blocked, Upto, Pending,
        FoundAt, Found, Top
<1> QED
  BY <1>1, RecallTried, RefuseTried, ReachAnchorTried, DescendTried, TryParentTried,
     ReturnLeastTried, ReturnNothingTried
  DEF SearchNext, SearchStep

LEMMA CompleteInit == SearchInit => CompleteInv
  BY EmptySeq, IdsAssumption, BundlesAssumption
  DEF SearchInit, CompleteInv, TriedInv, OutcomeInv

THEOREM SearchTriesAll == SearchSpec => []CompleteInv
  BY CompleteInit, CompleteNext, SearchInvariant, PTL DEF SearchSpec

-----------------------------------------------------------------------------
(* The paths that PathsOfLength enumerates.                                *)

(* Induction over the numbers, for a set.                                  *)
LEMMA SetInduction ==
  ASSUME NEW S, 0 \in S, \A n \in Nat : n \in S => n + 1 \in S
  PROVE  Nat \subseteq S
<1> DEFINE T == Nat \ S
<1> SUFFICES ASSUME T # {} PROVE FALSE
  OBVIOUS
<1>1. PICK n \in T : \A k \in T : ~ (<<k, n>> \in OpToRel(<, Nat))
  BY NatLessThanWellFounded, WFMin
<1>2. \A k \in T : ~ (k < n)
  BY <1>1 DEF OpToRel
<1>3. n # 0 /\ n - 1 \in Nat /\ n - 1 < n /\ (n - 1) + 1 = n
  OBVIOUS
<1>4. n - 1 \in S
  BY <1>2, <1>3
<1> QED
  BY <1>3, <1>4

(* A function that is defined at a number from its value at the one before *)
(* exists: parts of it up to a number do, and they agree.                  *)
LEMMA Recursion ==
  ASSUME NEW D, NEW base \in D, NEW step \in [D -> D]
  PROVE  \E f \in [Nat -> D] :
           \A n \in Nat : f[n] = IF n <= 1 THEN base ELSE step[f[n - 1]]
<1> DEFINE Part(n) == {f \in [0 .. n -> D] :
                         \A m \in 0 .. n : f[m] = IF m <= 1 THEN base ELSE step[f[m - 1]]}
           S == {n \in Nat : Part(n) # {}}
           Same == {m \in Nat : \A n, k \in Nat : m <= n /\ m <= k =>
                      \A f \in Part(n), g \in Part(k) : f[m] = g[m]}
<1>1. Nat \subseteq S
  <2>1. 0 \in S
    <3>1. [m \in 0 .. 0 |-> base] \in Part(0)
      OBVIOUS
    <3> QED
      BY <3>1
  <2>2. ASSUME NEW n \in Nat, n \in S
        PROVE  n + 1 \in S
    <3>1. PICK f : f \in Part(n)
      BY <2>2
    <3> DEFINE g == [m \in 0 .. n + 1 |-> IF m <= n THEN f[m]
                                           ELSE IF m <= 1 THEN base ELSE step[f[m - 1]]]
    <3>2. f \in [0 .. n -> D]
          /\ \A m \in 0 .. n : f[m] = IF m <= 1 THEN base ELSE step[f[m - 1]]
      BY <3>1
    <3>3. g \in [0 .. n + 1 -> D]
      <4> SUFFICES ASSUME NEW m \in 0 .. n + 1
                   PROVE  (IF m <= n THEN f[m]
                           ELSE IF m <= 1 THEN base ELSE step[f[m - 1]]) \in D
        OBVIOUS
      <4>1. CASE m <= n
        BY <3>2, <4>1
      <4>2. CASE ~ (m <= n)
        <5>1. m - 1 \in 0 .. n
          BY <4>2
        <5> QED
          BY <3>2, <4>2, <5>1
      <4> QED
        BY <4>1, <4>2
    <3>4. ASSUME NEW m \in 0 .. n + 1
          PROVE  g[m] = IF m <= 1 THEN base ELSE step[g[m - 1]]
      <4>1. ~ (m <= 1) => m - 1 \in 0 .. n /\ m - 1 \in 0 .. n + 1 /\ m - 1 <= n
        OBVIOUS
      <4>2. ~ (m <= 1) => g[m - 1] = f[m - 1]
        BY <4>1
      <4>3. g[m] = IF m <= n THEN f[m] ELSE IF m <= 1 THEN base ELSE step[f[m - 1]]
        OBVIOUS
      <4> HIDE DEF g
      <4> QED
        BY <3>2, <4>2, <4>3
    <3> HIDE DEF g
    <3>5. g \in Part(n + 1)
      BY <3>3, <3>4
    <3> QED
      BY <3>5
  <2> HIDE DEF S
  <2> QED
    BY <2>1, <2>2, SetInduction
<1>2. Nat \subseteq Same
  <2>1. 0 \in Same
    OBVIOUS
  <2>2. ASSUME NEW m \in Nat, m \in Same
        PROVE  m + 1 \in Same
    <3> SUFFICES ASSUME NEW n \in Nat, NEW k \in Nat, m + 1 <= n, m + 1 <= k,
                        NEW f \in Part(n), NEW g \in Part(k)
                 PROVE  f[m + 1] = g[m + 1]
      OBVIOUS
    <3>1. f[m] = g[m]
      <4>1. m <= n /\ m <= k
        OBVIOUS
      <4> HIDE DEF Part
      <4> QED
        BY <2>2, <4>1
    <3>2. m + 1 \in 0 .. n /\ m + 1 \in 0 .. k /\ (m + 1) - 1 = m
      OBVIOUS
    <3>3. /\ f[m + 1] = IF m + 1 <= 1 THEN base ELSE step[f[(m + 1) - 1]]
          /\ g[m + 1] = IF m + 1 <= 1 THEN base ELSE step[g[(m + 1) - 1]]
      BY <3>2
    <3> QED
      BY <3>1, <3>2, <3>3
  <2> HIDE DEF Same
  <2> QED
    BY <2>1, <2>2, SetInduction
<1>3. PICK part : \A n \in Nat : part[n] \in Part(n)
  <2> DEFINE part == [n \in Nat |-> CHOOSE f : f \in Part(n)]
  <2>1. \A n \in Nat : part[n] \in Part(n)
    <3> TAKE n \in Nat
    <3>1. \E f : f \in Part(n)
      BY <1>1
    <3>2. part[n] = CHOOSE f : f \in Part(n)
      OBVIOUS
    <3> HIDE DEF Part, part
    <3> QED
      BY <3>1, <3>2
  <2> HIDE DEF part, Part
  <2> QED
    BY <2>1
<1> DEFINE whole == [n \in Nat |-> part[n][n]]
<1>4. whole \in [Nat -> D]
  <2> SUFFICES ASSUME NEW n \in Nat PROVE part[n][n] \in D
    OBVIOUS
  <2>1. part[n] \in [0 .. n -> D] /\ n \in 0 .. n
    BY <1>3
  <2> QED
    BY <2>1
<1>5. ASSUME NEW n \in Nat
      PROVE  whole[n] = IF n <= 1 THEN base ELSE step[whole[n - 1]]
  <2>1. part[n] \in Part(n) /\ n \in 0 .. n
    BY <1>3
  <2>2. part[n][n] = IF n <= 1 THEN base ELSE step[part[n][n - 1]]
    BY <2>1
  <2>3. ASSUME ~ (n <= 1)
        PROVE  part[n][n - 1] = part[n - 1][n - 1] /\ n - 1 \in Nat
    <3>1. n - 1 \in Nat /\ n - 1 <= n /\ n - 1 <= n - 1
      BY <2>3
    <3>2. n - 1 \in Same /\ part[n - 1] \in Part(n - 1)
      BY <1>2, <1>3, <3>1
    <3> HIDE DEF Part
    <3>3. \A f \in Part(n), g \in Part(n - 1) : f[n - 1] = g[n - 1]
      BY <3>1, <3>2
    <3> QED
      BY <2>1, <3>1, <3>2, <3>3
  <2> QED
    BY <2>2, <2>3
<1> HIDE DEF whole
<1> QED
  BY <1>4, <1>5

(* The paths that end in anchors, and the paths one record longer.         *)
Anchors == {<<id>> : id \in {a \in Decisive : IsAnchor(a)}}
Longer(paths) ==
  UNION {{Append(path, id) :
            id \in {x \in Decisive : /\ Introduces(Last(path), x)
                                     /\ ~ Contains(path, x)}} :
          path \in paths}

LEMMA PathsByLength ==
  ASSUME bundle \in Bundles
  PROVE  /\ PathsOfLength \in [Nat -> SUBSET Seq(Ids)]
         /\ \A n \in Nat : PathsOfLength[n] =
              IF n <= 1 THEN Anchors ELSE Longer(PathsOfLength[n - 1])
<1> DEFINE D == SUBSET Seq(Ids)
           step == [paths \in D |-> Longer(paths)]
<1>1. Anchors \in D
  <2> SUFFICES ASSUME NEW id \in Decisive PROVE <<id>> \in Seq(Ids)
    BY DEF Anchors
  <2> QED
    BY OrderIsComplete
<1>2. step \in [D -> D]
  <2> SUFFICES ASSUME NEW paths \in D, NEW path \in paths, NEW id \in Decisive
               PROVE  Append(path, id) \in Seq(Ids)
    BY DEF Longer
  <2>1. path \in Seq(Ids) /\ id \in Ids
    BY OrderIsComplete
  <2> QED
    BY <2>1
<1>3. PICK f \in [Nat -> D] :
        \A n \in Nat : f[n] = IF n <= 1 THEN Anchors ELSE step[f[n - 1]]
  <2> HIDE DEF D, step
  <2> QED
    BY <1>1, <1>2, Recursion
<1>4. f = [n \in Nat |-> IF n <= 1 THEN Anchors ELSE Longer(f[n - 1])]
  <2>1. ASSUME NEW n \in Nat
        PROVE  f[n] = IF n <= 1 THEN Anchors ELSE Longer(f[n - 1])
    <3>1. ~ (n <= 1) => n - 1 \in Nat
      OBVIOUS
    <3>2. ~ (n <= 1) => step[f[n - 1]] = Longer(f[n - 1])
      BY <1>3, <3>1
    <3> QED
      BY <1>3, <3>2
  <2> QED
    BY <1>3, <2>1
<1>5. PathsOfLength = CHOOSE g :
        g = [n \in Nat |-> IF n <= 1 THEN Anchors ELSE Longer(g[n - 1])]
  BY DEF PathsOfLength, Anchors, Longer
<1>6. PathsOfLength =
        [n \in Nat |-> IF n <= 1 THEN Anchors ELSE Longer(PathsOfLength[n - 1])]
  <2> HIDE DEF PathsOfLength
  <2> QED
    BY <1>4, <1>5
<1>7. \A n \in Nat : PathsOfLength[n] =
              IF n <= 1 THEN Anchors ELSE Longer(PathsOfLength[n - 1])
  BY <1>6
<1>8. \A n \in Nat : PathsOfLength[n] \in D
  <2> DEFINE S == {n \in Nat : PathsOfLength[n] \in D}
  <2>1. 0 \in S
    BY <1>1, <1>7
  <2>2. ASSUME NEW n \in Nat, n \in S
        PROVE  n + 1 \in S
    <3>1. n + 1 \in Nat /\ (n + 1) - 1 = n
      OBVIOUS
    <3>2. PathsOfLength[n + 1] =
            IF n + 1 <= 1 THEN Anchors ELSE Longer(PathsOfLength[n])
      BY <1>7, <3>1
    <3>3. Longer(PathsOfLength[n]) \in D
      BY <1>2, <2>2
    <3> HIDE DEF D
    <3> QED
      BY <1>1, <3>1, <3>2, <3>3
  <2> HIDE DEF S
  <2>3. Nat \subseteq S
    BY <2>1, <2>2, SetInduction
  <2> QED
    BY <2>3 DEF S
<1> QED
  BY <1>6, <1>7, <1>8

(* With a record that its last member introduces, and that it does not     *)
(* hold, an authorized path is authorized.                                 *)
LEMMA LongerPath ==
  ASSUME bundle \in Bundles,
         NEW p, Authorized(p, Last(p)), NEW id \in Decisive,
         Introduces(Last(p), id), ~ Contains(p, id)
  PROVE  Authorized(Append(p, id), id)
<1> DEFINE q == Append(p, id)
<1>1. p \in Seq(Ids) /\ p # <<>> /\ id \in Ids
  BY OrderIsComplete DEF Authorized
<1>2. /\ q \in Seq(Ids) /\ Len(q) = Len(p) + 1 /\ q[Len(p) + 1] = id
      /\ \A i \in 1 .. Len(p) : q[i] = p[i]
      /\ Len(p) \in Nat \ {0} /\ DOMAIN p = 1 .. Len(p)
  BY <1>1, AppendProperties, EmptySeq
<1> HIDE DEF q
<1>3. q # <<>> /\ q[Len(q)] = id
  BY <1>2
<1>4. IsAnchor(q[1])
  BY <1>1, <1>2 DEF Authorized
<1>5. \A i \in 1 .. Len(q) - 1 : Introduces(q[i], q[i + 1])
  <2> TAKE i \in 1 .. Len(q) - 1
  <2>1. CASE i = Len(p)
    BY <1>1, <1>2, <2>1 DEF Last
  <2>2. CASE i # Len(p)
    <3>1. i \in 1 .. Len(p) - 1 /\ i + 1 \in 1 .. Len(p)
      <4>1. Len(q) - 1 = Len(p) /\ Len(p) \in Nat
        BY <1>2
      <4> QED
        BY <2>2, <4>1
    <3> QED
      BY <1>1, <1>2, <3>1 DEF Authorized
  <2> QED
    BY <2>1, <2>2
<1>6. \A i, j \in DOMAIN q : q[i] = q[j] => i = j
  <2>1. DOMAIN q = 1 .. Len(p) + 1
    BY <1>2
  <2>2. \A i \in 1 .. Len(p) : q[i] # id
    BY <1>2 DEF Contains
  <2>3. \A i, j \in 1 .. Len(p) : p[i] = p[j] => i = j
    BY <1>1, <1>2 DEF Authorized
  <2> QED
    BY <1>2, <2>1, <2>2, <2>3
<1> QED
  BY <1>2, <1>3, <1>4, <1>5, <1>6 DEF Authorized, q

(* The paths enumerated are the authorized ones.                           *)
LEMMA EnumeratedPaths ==
  ASSUME bundle \in Bundles, NEW n \in Nat, NEW path \in PathsOfLength[n]
  PROVE  Authorized(path, Last(path))
<1> DEFINE S == {k \in Nat : \A p \in PathsOfLength[k] : Authorized(p, Last(p))}
<1>1. ASSUME NEW p \in Anchors
      PROVE  Authorized(p, Last(p))
  <2>1. PICK id \in Decisive : IsAnchor(id) /\ p = <<id>>
    BY DEF Anchors
  <2>2. id \in Ids
    BY OrderIsComplete
  <2> QED
    BY <2>1, <2>2 DEF Authorized, Last
<1>2. 0 \in S
  BY <1>1, PathsByLength
<1>3. ASSUME NEW k \in Nat, k \in S
      PROVE  k + 1 \in S
  <2> SUFFICES ASSUME NEW p \in PathsOfLength[k + 1]
               PROVE  Authorized(p, Last(p))
    OBVIOUS
  <2>1. k + 1 \in Nat /\ (k + 1) - 1 = k
    OBVIOUS
  <2>2. p \in Anchors \/ p \in Longer(PathsOfLength[k])
    BY <2>1, PathsByLength
  <2>3. CASE p \in Longer(PathsOfLength[k])
    <3>1. PICK q \in PathsOfLength[k], id \in Decisive :
            Introduces(Last(q), id) /\ ~ Contains(q, id) /\ p = Append(q, id)
      BY <2>3 DEF Longer
    <3>2. Authorized(q, Last(q))
      BY <1>3
    <3>3. Authorized(p, id)
      BY <3>1, <3>2, LongerPath
    <3>4. Last(p) = id
      BY <3>3 DEF Authorized, Last
    <3> QED
      BY <3>3, <3>4
  <2> QED
    BY <1>1, <2>2, <2>3
<1> HIDE DEF S
<1>4. Nat \subseteq S
  BY <1>2, <1>3, SetInduction
<1> QED
  BY <1>4 DEF S

LEMMA PathsAreEnumerated ==
  ASSUME bundle \in Bundles, NEW path, NEW id, Authorized(path, id)
  PROVE  path \in PathsOfLength[Len(path)]
<1> DEFINE S == {k \in Nat : \A p \in Seq(Ids) : \A x \in Ids :
                   Authorized(p, x) /\ Len(p) = k => p \in PathsOfLength[k]}
<1>1. 0 \in S
  BY EmptySeq DEF Authorized
<1>2. ASSUME NEW k \in Nat, k \in S
      PROVE  k + 1 \in S
  <2> SUFFICES ASSUME NEW p \in Seq(Ids), NEW x \in Ids,
                      Authorized(p, x), Len(p) = k + 1
               PROVE  p \in PathsOfLength[k + 1]
    OBVIOUS
  <2>1. k + 1 \in Nat /\ (k + 1) - 1 = k
    OBVIOUS
  <2>2. CASE k = 0
    <3>1. x = p[1] /\ x \in Decisive /\ IsAnchor(x)
      BY <2>2 DEF Authorized
    <3>2. p = <<x>>
      BY <2>2, <3>1
    <3>3. p \in Anchors
      BY <3>1, <3>2 DEF Anchors
    <3> QED
      BY <2>1, <2>2, <3>3, PathsByLength
  <2>3. CASE k # 0
    <3>1. PICK front \in Seq(Ids), y \in Ids :
            /\ Introduces(y, x) /\ Authorized(front, y)
            /\ Len(p) = Len(front) + 1
            /\ \A i \in 1 .. Len(front) : front[i] = p[i]
            /\ p = Append(front, x)
      <4>1. Len(p) # 1
        BY <2>3
      <4> QED
        BY <4>1, FrontOfPath
    <3>2. Len(front) = k /\ y = Last(front)
      <4>1. Len(front) \in Nat
        OBVIOUS
      <4> QED
        BY <3>1, <4>1 DEF Last, Authorized
    <3>3. front \in PathsOfLength[k]
      BY <1>2, <3>1, <3>2
    <3>4. x \in Decisive /\ ~ Contains(front, x)
      <4>1. x \in Decisive /\ p[k + 1] = x
            /\ \A i, j \in DOMAIN p : p[i] = p[j] => i = j
        BY DEF Authorized
      <4>2. DOMAIN p = 1 .. k + 1 /\ k + 1 \in DOMAIN p
        OBVIOUS
      <4>3. \A i \in 1 .. k : i \in DOMAIN p /\ i # k + 1
        BY <4>2
      <4>4. \A i \in 1 .. k : front[i] # x
        BY <3>1, <3>2, <4>1, <4>2, <4>3
      <4> QED
        BY <3>2, <4>1, <4>4 DEF Contains
    <3>5. p \in Longer(PathsOfLength[k])
      <4>1. x \in {z \in Decisive : Introduces(Last(front), z) /\ ~ Contains(front, z)}
        BY <3>1, <3>2, <3>4
      <4>2. p \in {Append(front, z) : z \in
                    {z \in Decisive : Introduces(Last(front), z) /\ ~ Contains(front, z)}}
        BY <3>1, <4>1
      <4> QED
        BY <3>3, <4>2 DEF Longer
    <3>6. ~ (k + 1 <= 1)
      BY <2>3
    <3> QED
      BY <2>1, <3>5, <3>6, PathsByLength
  <2> QED
    BY <2>2, <2>3
<1> HIDE DEF S
<1>3. Nat \subseteq S
  BY <1>1, <1>2, SetInduction
<1>4. path \in Seq(Ids) /\ id \in Ids /\ Len(path) \in Nat
  BY OrderIsComplete DEF Authorized
<1> QED
  BY <1>3, <1>4 DEF S

LEMMA DecisiveIsFinite ==
  ASSUME bundle \in Bundles
  PROVE  IsFiniteSet(Decisive) /\ Cardinality(Decisive) \in Nat
<1> DEFINE met == bundle.order
<1>1. /\ met \in Seq(DOMAIN Records) /\ Decisive \in SUBSET DOMAIN Records
      /\ \A id \in DOMAIN Records : \E n \in DOMAIN met : met[n] = id
  BY BundlesAssumption DEF Records, Decisive
<1>2. Len(met) \in Nat /\ DOMAIN met = 1 .. Len(met) /\ met \in [1 .. Len(met) -> DOMAIN Records]
  BY <1>1
<1>3. met \in Surjection(1 .. Len(met), DOMAIN Records)
  BY <1>1, <1>2 DEF Surjection
<1>4. IsFiniteSet(1 .. Len(met))
  BY <1>2, FS_Interval
<1>5. IsFiniteSet(DOMAIN Records)
  <2> HIDE DEF met
  <2> QED
    BY <1>3, <1>4, FS_Surjection
<1> QED
  BY <1>1, <1>5, FS_Subset, FS_CardinalityType

(* AllPaths holds the authorized paths and no other: none of them is       *)
(* longer than there are decisive records.                                 *)
LEMMA AllPathsAreAuthorized ==
  ASSUME bundle \in Bundles, NEW path, NEW id
  PROVE  path \in PathsTo(id) <=> Authorized(path, id)
<1>1. ASSUME path \in PathsTo(id)
      PROVE  Authorized(path, id)
  <2>1. PICK n \in 1 .. Cardinality(Decisive) : path \in PathsOfLength[n] /\ Last(path) = id
    BY <1>1 DEF PathsTo, AllPaths
  <2>2. n \in Nat
    BY <2>1, DecisiveIsFinite
  <2> QED
    BY <2>1, <2>2, EnumeratedPaths
<1>2. ASSUME Authorized(path, id)
      PROVE  path \in PathsTo(id)
  <2>1. /\ path \in Seq(Ids) /\ path # <<>> /\ Last(path) = id /\ id \in Decisive
        /\ Len(path) \in Nat /\ Len(path) # 0 /\ DOMAIN path = 1 .. Len(path)
        /\ \A i, j \in DOMAIN path : path[i] = path[j] => i = j
    BY <1>2, EmptySeq DEF Authorized, Last
  <2>2. \A i \in 1 .. Len(path) : path[i] \in Decisive
    <3> TAKE i \in 1 .. Len(path)
    <3>1. CASE i = Len(path)
      BY <2>1, <3>1 DEF Last
    <3>2. CASE i # Len(path)
      <4>1. i \in 1 .. Len(path) - 1
        <5>1. Len(path) \in Nat
          BY <2>1
        <5> QED
          BY <3>2, <5>1
      <4> QED
        BY <1>2, <4>1 DEF Authorized, Introduces
    <3> QED
      BY <3>1, <3>2
  <2>3. path \in Injection(1 .. Len(path), Decisive)
    <3>1. path \in [1 .. Len(path) -> Decisive]
      BY <2>1, <2>2
    <3> QED
      BY <2>1, <3>1 DEF Injection, IsInjective
  <2>4. Len(path) <= Cardinality(Decisive)
    <3>1. Cardinality(1 .. Len(path)) = Len(path)
      <4>1. Cardinality(1 .. Len(path)) =
              IF 1 > Len(path) THEN 0 ELSE Len(path) - 1 + 1
        BY <2>1, FS_Interval
      <4> QED
        BY <2>1, <4>1
    <3> QED
      BY <2>3, <3>1, DecisiveIsFinite, FS_Injection
  <2>5. Len(path) \in 1 .. Cardinality(Decisive)
    BY <2>1, <2>4, DecisiveIsFinite
  <2>6. path \in PathsOfLength[Len(path)]
    BY <1>2, PathsAreEnumerated
  <2> QED
    BY <2>1, <2>5, <2>6 DEF PathsTo, AllPaths
<1> QED
  BY <1>1, <1>2

LEMMA NothingIsMissed == SearchInv /\ CompleteInv => SearchIsComplete
<1> SUFFICES ASSUME SearchInv, CompleteInv, Finished, answer = None,
                    NEW path \in PathsTo(target)
             PROVE  FALSE
  BY DEF SearchIsComplete
<1>1. Blocked(target, {})
  BY DEF CompleteInv, OutcomeInv, Finished
<1>2. Authorized(path, target)
  BY AllPathsAreAuthorized DEF SearchInv, SearchTypeOK
<1> QED
  BY <1>1, <1>2 DEF Blocked, Authorized

(* Whatever the bundle and the oracle's classification, cyclic or not,     *)
(* _canonical_authorization_path returns None only for a record that no    *)
(* authorized path leads to, though derive() turns back at every record    *)
(* that is being derived further up.                                       *)
THEOREM SearchFindsAPath == SearchSpec => []SearchIsComplete
  BY NothingIsMissed, SearchInvariant, SearchTriesAll, PTL

-----------------------------------------------------------------------------
(* The order of the paths.                                                 *)

LEMMA BeforeIsTransitive ==
  ASSUME NEW p \in Seq(Nat), NEW q \in Seq(Nat), NEW r \in Seq(Nat),
         Before(p, q), Before(q, r)
  PROVE  Before(p, r)
<1>1. PICK i \in 1 .. Len(q) :
        /\ \A j \in 1 .. i - 1 : j <= Len(p) /\ p[j] = q[j]
        /\ i <= Len(p) => p[i] < q[i]
  BY DEF Before
<1>2. PICK k \in 1 .. Len(r) :
        /\ \A j \in 1 .. k - 1 : j <= Len(q) /\ q[j] = r[j]
        /\ k <= Len(q) => q[k] < r[k]
  BY DEF Before
<1>3. /\ Len(p) \in Nat /\ Len(q) \in Nat /\ Len(r) \in Nat
      /\ \A n \in 1 .. Len(p) : p[n] \in Nat
      /\ \A n \in 1 .. Len(q) : q[n] \in Nat
      /\ \A n \in 1 .. Len(r) : r[n] \in Nat
  OBVIOUS
<1>4. CASE i < k
  <2>1. i \in 1 .. Len(r) /\ i \in 1 .. k - 1 /\ \A j \in 1 .. i - 1 : j \in 1 .. k - 1
    BY <1>3, <1>4
  <2> QED
    BY <1>1, <1>2, <2>1 DEF Before
<1>5. CASE i = k
  <2>1. ASSUME i <= Len(p) PROVE p[i] < r[i]
    <3>1. p[i] < q[i] /\ q[i] < r[i] /\ i \in 1 .. Len(p)
      BY <1>1, <1>2, <1>3, <1>5, <2>1
    <3>2. p[i] \in Nat /\ q[i] \in Nat /\ r[i] \in Nat
      BY <1>3, <1>5, <3>1
    <3> QED
      BY <3>1, <3>2
  <2> QED
    BY <1>1, <1>2, <1>5, <2>1 DEF Before
<1>6. CASE k < i
  <2>1. k \in 1 .. i - 1 /\ k <= Len(q) /\ \A j \in 1 .. k - 1 : j \in 1 .. i - 1
    BY <1>3, <1>6
  <2> QED
    BY <1>1, <1>2, <2>1 DEF Before
<1> QED
  BY <1>3, <1>4, <1>5, <1>6

LEMMA BeforeIsTotal ==
  ASSUME NEW p \in Seq(Nat), NEW q \in Seq(Nat), p # q
  PROVE  Before(p, q) \/ Before(q, p)
<1> DEFINE D == {i \in Nat \ {0} : ~ (i <= Len(p) /\ i <= Len(q) /\ p[i] = q[i])}
<1>1. /\ Len(p) \in Nat /\ Len(q) \in Nat
      /\ \A n \in 1 .. Len(p) : p[n] \in Nat
      /\ \A n \in 1 .. Len(q) : q[n] \in Nat
  OBVIOUS
<1>2. Len(p) + 1 \in D
  BY <1>1
<1>3. PICK i \in D : \A k \in D : ~ (<<k, i>> \in OpToRel(<, Nat))
  <2>1. D \subseteq Nat /\ D # {}
    BY <1>2
  <2> HIDE DEF D
  <2> QED
    BY <2>1, NatLessThanWellFounded, WFMin
<1>4. i \in Nat \ {0} /\ \A k \in D : ~ (k < i)
  BY <1>3 DEF OpToRel
<1>5. \A j \in 1 .. i - 1 : j <= Len(p) /\ j <= Len(q) /\ p[j] = q[j]
  <2> TAKE j \in 1 .. i - 1
  <2>1. j \in Nat \ {0} /\ j < i
    BY <1>4
  <2>2. j \notin D
    BY <1>4, <2>1
  <2> QED
    BY <2>1, <2>2
<1>6. ~ (i <= Len(p) /\ i <= Len(q) /\ p[i] = q[i])
  BY <1>3
<1> HIDE DEF D
<1>7. CASE i <= Len(p) /\ i <= Len(q)
  <2>1. i \in 1 .. Len(p) /\ i \in 1 .. Len(q)
    BY <1>1, <1>4, <1>7
  <2>2. p[i] < q[i] \/ q[i] < p[i]
    <3>1. p[i] \in Nat /\ q[i] \in Nat /\ p[i] # q[i]
      BY <1>1, <1>6, <1>7, <2>1
    <3> QED
      BY <3>1
  <2> QED
    BY <1>5, <2>1, <2>2 DEF Before
<1>8. CASE i <= Len(q) /\ ~ (i <= Len(p))
  <2>1. i \in 1 .. Len(q)
    BY <1>1, <1>4, <1>8
  <2> QED
    BY <1>5, <1>8, <2>1 DEF Before
<1>9. CASE i <= Len(p) /\ ~ (i <= Len(q))
  <2>1. i \in 1 .. Len(p)
    BY <1>1, <1>4, <1>9
  <2> QED
    BY <1>5, <1>9, <2>1 DEF Before
<1>10. CASE ~ (i <= Len(p)) /\ ~ (i <= Len(q))
  <2>1. Len(p) = i - 1
    <3>1. ~ (Len(p) > i - 1)
      BY <1>1, <1>4, <1>10
    <3>2. i - 1 # 0 => i - 1 \in 1 .. i - 1
      BY <1>4
    <3>3. i - 1 # 0 => i - 1 <= Len(p)
      BY <1>5, <3>2
    <3> QED
      BY <1>1, <1>4, <3>1, <3>3
  <2>2. Len(q) = i - 1
    <3>1. ~ (Len(q) > i - 1)
      BY <1>1, <1>4, <1>10
    <3>2. i - 1 # 0 => i - 1 \in 1 .. i - 1
      BY <1>4
    <3>3. i - 1 # 0 => i - 1 <= Len(q)
      BY <1>5, <3>2
    <3> QED
      BY <1>1, <1>4, <3>1, <3>3
  <2>3. p = q
    BY <1>5, <2>1, <2>2, SeqEqual
  <2> QED
    BY <2>3
<1> QED
  BY <1>7, <1>8, <1>9, <1>10

(* Extended with the same record, two paths to the same parent keep their  *)
(* order: neither is a part of the other, since it would meet the parent   *)
(* twice.                                                                  *)
LEMMA BeforeExtended ==
  ASSUME NEW parent, NEW id \in Ids, NEW p, NEW q,
         Authorized(p, parent), Authorized(q, parent), Before(p, q)
  PROVE  Before(Append(p, id), Append(q, id))
<1>1. /\ p \in Seq(Ids) /\ q \in Seq(Ids) /\ p # <<>> /\ q # <<>>
      /\ p[Len(p)] = parent /\ q[Len(q)] = parent
      /\ \A i, j \in DOMAIN q : q[i] = q[j] => i = j
  BY DEF Authorized
<1>2. /\ Len(p) \in Nat \ {0} /\ Len(q) \in Nat \ {0} /\ DOMAIN q = 1 .. Len(q)
  BY <1>1, EmptySeq
<1>3. PICK i \in 1 .. Len(q) :
        /\ \A j \in 1 .. i - 1 : j <= Len(p) /\ p[j] = q[j]
        /\ i <= Len(p) => p[i] < q[i]
  BY DEF Before
<1>4. i <= Len(p)
  <2> SUFFICES ASSUME ~ (i <= Len(p)) PROVE FALSE
    OBVIOUS
  <2>1. Len(p) \in 1 .. i - 1 /\ Len(p) \in 1 .. Len(q) /\ Len(q) \in 1 .. Len(q)
    BY <1>2
  <2>2. q[Len(p)] = q[Len(q)]
    BY <1>1, <1>3, <2>1
  <2>3. Len(p) = Len(q)
    BY <1>1, <1>2, <2>1, <2>2
  <2> QED
    BY <1>2, <2>3
<1> DEFINE pp == Append(p, id)
           qq == Append(q, id)
<1>5. /\ Len(pp) = Len(p) + 1 /\ Len(qq) = Len(q) + 1
      /\ \A j \in 1 .. Len(p) : pp[j] = p[j]
      /\ \A j \in 1 .. Len(q) : qq[j] = q[j]
  BY <1>1, AppendProperties
<1>6. i \in 1 .. Len(q) + 1 /\ i \in 1 .. Len(p)
      /\ \A j \in 1 .. i - 1 : j \in 1 .. Len(p) /\ j \in 1 .. Len(q) /\ j <= Len(p) + 1
  BY <1>2, <1>4
<1> HIDE DEF pp, qq
<1>7. \A j \in 1 .. i - 1 : j <= Len(pp) /\ pp[j] = qq[j]
  BY <1>3, <1>5, <1>6
<1>8. pp[i] < qq[i]
  BY <1>3, <1>4, <1>5, <1>6
<1>9. i \in 1 .. Len(qq)
  BY <1>5, <1>6
<1>10. Before(pp, qq)
  BY <1>7, <1>8, <1>9 DEF Before
<1> QED
  BY <1>10 DEF pp, qq

-----------------------------------------------------------------------------
(* The least path, where introductions have no cycle.                      *)

NoWayBack ==
  \A path \in Seq(Ids) : \A id \in Ids :
    Authorized(path, id) => \A i \in DOMAIN path : ~ Introduces(id, path[i])

(* What is remembered is the least path to its record.                     *)
LeastInv ==
  NoWayBack =>
    \A id \in Ids : memo[id] # None =>
      \A other \in Seq(Ids) : Authorized(other, id) => ~ Before(other, memo[id])

(* A record's paths do not meet the ones its derivation came from: each    *)
(* introduces the one below it, and such a path would lead back.           *)
LEMMA NoDetour ==
  ASSUME SearchInv, NoWayBack, NEW f \in DOMAIN stack,
         NEW path, Authorized(path, stack[f].id), NEW g \in 1 .. f - 1,
         NEW i \in DOMAIN path
  PROVE  path[i] # stack[g].id
<1> DEFINE S == {k \in Nat : k \in DOMAIN stack =>
                   \A p \in Seq(Ids) : Authorized(p, stack[k].id) =>
                     \A h \in 1 .. k - 1 : \A n \in DOMAIN p : p[n] # stack[h].id}
<1>1. /\ Len(stack) \in Nat /\ DOMAIN stack = 1 .. Len(stack) /\ bundle \in Bundles
      /\ \A k \in DOMAIN stack : stack[k].id \in Ids /\ stack[k].id \in Decisive
      /\ \A k \in DOMAIN stack : k # 1 => Introduces(stack[k].id, stack[k - 1].id)
  <2>1. /\ stack \in Seq(Frames) /\ bundle \in Bundles
        /\ \A k \in DOMAIN stack : stack[k].id \in Decisive
        /\ \A k \in DOMAIN stack : k # 1 => Introduces(stack[k].id, stack[k - 1].id)
    BY DEF SearchInv, SearchTypeOK, StackInv, FrameInv
  <2> QED
    BY <2>1, OrderIsComplete
<1>2. 0 \in S
  BY <1>1
<1>3. ASSUME NEW k \in Nat, k \in S
      PROVE  k + 1 \in S
  <2> SUFFICES ASSUME k + 1 \in DOMAIN stack,
                      NEW p \in Seq(Ids), Authorized(p, stack[k + 1].id),
                      NEW h \in 1 .. (k + 1) - 1, NEW n \in DOMAIN p,
                      p[n] = stack[h].id
               PROVE  FALSE
    OBVIOUS
  <2>1. k \in DOMAIN stack /\ k + 1 # 1 /\ (k + 1) - 1 = k /\ h \in 1 .. k
    BY <1>1
  <2>2. Introduces(stack[k + 1].id, stack[k].id) /\ stack[k + 1].id \in Ids
        /\ stack[k].id \in Decisive
    <3>1. Introduces(stack[k + 1].id, stack[(k + 1) - 1].id)
      BY <1>1, <2>1
    <3> QED
      BY <1>1, <2>1, <3>1
  <2> PICK upper, lower : upper = stack[k + 1].id /\ lower = stack[k].id
    OBVIOUS
  <2>3. \A m \in DOMAIN p : p[m] # lower
    BY <2>2 DEF NoWayBack
  <2>4. Last(p) = upper
    BY DEF Authorized, Last
  <2>5. Authorized(Append(p, lower), lower)
    <3>1. ~ Contains(p, lower)
      BY <2>3 DEF Contains
    <3> QED
      BY <1>1, <2>2, <2>4, <3>1, LongerPath
  <2>6. h # k /\ h \in 1 .. k - 1
    BY <2>1, <2>3
  <2>7. Append(p, lower) \in Seq(Ids) /\ n \in DOMAIN Append(p, lower)
        /\ Append(p, lower)[n] = p[n]
    <3>1. lower \in Ids
      BY <1>1, <2>1
    <3> QED
      BY <3>1, AppendProperties
  <2> QED
    BY <1>3, <2>1, <2>5, <2>6, <2>7
<1> HIDE DEF S
<1>4. Nat \subseteq S
  BY <1>2, <1>3, SetInduction
<1>5. f \in S /\ path \in Seq(Ids)
  BY <1>1, <1>4 DEF Authorized
<1> QED
  BY <1>5 DEF S

(* When its parents are exhausted, the least path of those found is the    *)
(* least of all.                                                           *)
LEMMA LeastFound ==
  ASSUME SearchInv, CompleteInv, LeastInv, NoWayBack, goal = None, Exhausted,
         NEW path \in Found, \A other \in Found : ~ Before(other, path),
         NEW other \in Seq(Ids), Authorized(other, Top.id)
  PROVE  ~ Before(other, path)
<1> SUFFICES ASSUME Before(other, path) PROVE FALSE
  OBVIOUS
<1> PICK last, id : last = Len(stack) /\ id = Top.id
  OBVIOUS
<1>1. /\ stack # <<>> /\ last \in DOMAIN stack /\ last \in Nat \ {0}
      /\ stack[last].id = id /\ id \in Ids /\ id \in Decisive /\ ~ IsAnchor(id)
      /\ Top.next \in Nat /\ Top = stack[last]
      /\ bundle \in Bundles /\ path \in Seq(Ids)
      /\ memo \in [Ids -> Seq(Ids) \cup {None}]
  <2>1. stack # <<>>
    BY DEF Exhausted
  <2> QED
    BY <2>1, FoundInv DEF Top, FrameInv, Frames, SearchInv, SearchTypeOK
<1>2. PICK front \in Seq(Ids), parent \in Ids :
        /\ Introduces(parent, id) /\ Authorized(front, parent)
        /\ Len(other) = Len(front) + 1
        /\ \A i \in 1 .. Len(front) : front[i] = other[i]
        /\ other = Append(front, id)
  <2>1. Len(other) # 1
    BY <1>1 DEF Authorized
  <2> QED
    BY <2>1, FrontOfPath
<1>3. Judged(parent, id, Active, Found)
  <2>1. PICK m \in DOMAIN bundle.order : bundle.order[m] = parent
    BY <1>1, <1>2, OrderIsComplete DEF Introduces
  <2>2. m < Top.next
    <3>1. m \in Nat /\ m <= Len(bundle.order) /\ Len(bundle.order) \in Nat
      BY <1>1, OrderIsComplete
    <3>2. m \notin Remaining
      BY <1>2, <2>1 DEF Exhausted, IsParent
    <3>3. ~ (Top.next <= m /\ m <= Len(bundle.order))
      BY <1>1, <3>1, <3>2 DEF Remaining
    <3> QED
      BY <1>1, <3>1, <3>3
  <2>3. parent # Pending(last)
    BY <1>2, IdsAssumption DEF Pending
  <2>4. Judged(parent, stack[last].id, Upto(last), FoundAt(last))
    BY <1>1, <1>2, <2>1, <2>2, <2>3 DEF CompleteInv, TriedInv
  <2>5. Upto(last) = Active
    <3>1. DOMAIN stack = 1 .. last
      BY DEF SearchInv, SearchTypeOK
    <3> QED
      BY <3>1 DEF Upto, Active
  <2>6. FoundAt(last) = Found
    BY <1>1 DEF FoundAt
  <2> QED
    BY <1>1, <2>4, <2>5, <2>6
<1>4. CASE Blocked(parent, Active)
  <2>1. PICK i \in DOMAIN front, g \in DOMAIN stack : front[i] = stack[g].id
    BY <1>2, <1>4 DEF Blocked, Active
  <2>2. /\ i \in DOMAIN other /\ other[i] = stack[g].id /\ i # Len(other)
        /\ other[Len(other)] = id /\ Len(other) \in DOMAIN other
    <3>1. i \in 1 .. Len(front) /\ Len(front) \in Nat
      BY <2>1
    <3>2. i \in 1 .. Len(other) /\ i # Len(other) /\ Len(other) \in 1 .. Len(other)
      BY <1>2, <3>1
    <3>3. other[Len(other)] = id
      BY DEF Authorized
    <3> QED
      BY <1>2, <2>1, <3>1, <3>2, <3>3
  <2>3. g # last
    BY <1>1, <2>2 DEF Authorized
  <2>4. g \in 1 .. last - 1
    <3>1. g \in 1 .. last
      BY <1>1 DEF SearchInv, SearchTypeOK
    <3> QED
      BY <1>1, <2>3, <3>1
  <2> QED
    BY <1>1, <2>2, <2>4, NoDetour
<1>5. CASE memo[parent] # None /\ Append(memo[parent], id) \in Found
  <2> PICK least : least = memo[parent]
    OBVIOUS
  <2>1. least \in Seq(Ids) /\ Authorized(least, parent) /\ ~ Before(front, least)
    BY <1>1, <1>2, <1>5 DEF LeastInv, SearchInv, MemoInv
  <2>2. ASSUME NEW s \in Seq(Ids) PROVE s \in Seq(Nat)
    BY IdsAssumption, SeqMonotonic
  <2>3. CASE front = least
    BY <1>2, <1>5, <2>3
  <2>4. CASE front # least
    <3>1. Before(least, front)
      BY <2>1, <2>2, <2>4, BeforeIsTotal
    <3>2. Before(Append(least, id), other)
      BY <1>1, <1>2, <2>1, <3>1, BeforeExtended
    <3>3. Append(least, id) \in Seq(Ids)
      BY <1>1, <2>1
    <3>4. Before(Append(least, id), path)
      BY <1>1, <2>2, <3>2, <3>3, BeforeIsTransitive
    <3> QED
      BY <1>5, <3>4
  <2> QED
    BY <2>3, <2>4
<1> QED
  BY <1>3, <1>4, <1>5 DEF Judged

(* Whatever remembers nothing new leaves the remembered paths least.       *)
LEMMA LeastStays ==
  ASSUME LeastInv, bundle' = bundle, memo' = memo
  PROVE  LeastInv'
<1>1. NoWayBack' => NoWayBack
  BY SameBundle DEF NoWayBack
<1>2. ASSUME NEW id \in Ids, NEW other \in Seq(Ids)
      PROVE  Authorized(other, id)' => Authorized(other, id)
  BY SameBundle
<1> SUFFICES ASSUME NoWayBack', NEW id \in Ids, memo'[id] # None,
                    NEW other \in Seq(Ids), Authorized(other, id)'
             PROVE  ~ Before(other, memo'[id])
  BY DEF LeastInv, Before
<1> QED
  BY <1>1, <1>2 DEF LeastInv

(* One more path is remembered, the least to its record.                   *)
LEMMA LeastRemembered ==
  ASSUME SearchInv, LeastInv, bundle' = bundle,
         NEW id \in Ids, NEW path, memo' = [memo EXCEPT ![id] = path],
         NoWayBack =>
           \A other \in Seq(Ids) : Authorized(other, id) => ~ Before(other, path)
  PROVE  LeastInv'
<1>1. NoWayBack' => NoWayBack
  BY SameBundle DEF NoWayBack
<1>2. ASSUME NEW x \in Ids, NEW other \in Seq(Ids)
      PROVE  Authorized(other, x)' => Authorized(other, x)
  BY SameBundle
<1> SUFFICES ASSUME NoWayBack', NEW x \in Ids, memo'[x] # None,
                    NEW other \in Seq(Ids), Authorized(other, x)'
             PROVE  ~ Before(other, memo'[x])
  BY DEF LeastInv, Before
<1>3. memo'[id] = path /\ (x # id => memo'[x] = memo[x])
  BY DEF SearchInv, SearchTypeOK
<1> QED
  BY <1>1, <1>2, <1>3 DEF LeastInv

LEMMA ReachAnchorLeast == SearchInv /\ LeastInv /\ ReachAnchor => LeastInv'
<1> SUFFICES ASSUME SearchInv, LeastInv, ReachAnchor PROVE LeastInv'
  OBVIOUS
<1> PICK id : id = goal
  OBVIOUS
<1>1. /\ id \in Ids /\ IsAnchor(id) /\ bundle' = bundle
      /\ memo' = [memo EXCEPT ![id] = <<id>>]
  BY IdsAssumption DEF ReachAnchor, SearchInv, SearchTypeOK
<1>2. ASSUME NEW other \in Seq(Ids), Authorized(other, id)
      PROVE  ~ Before(other, <<id>>)
  <2>1. Len(other) = 1
    BY <1>1, <1>2, FrontOfPath DEF Introduces
  <2>2. other[1] = id
    BY <1>2, <2>1 DEF Authorized
  <2> SUFFICES ASSUME NEW i \in 1 .. 1, i <= Len(other) => other[i] < id
               PROVE  FALSE
    BY DEF Before
  <2>3. other[1] < id /\ id \in Nat
    BY <1>1, <2>1, IdsAssumption
  <2> QED
    BY <2>2, <2>3
<1> QED
  BY <1>1, <1>2, LeastRemembered

LEMMA ReturnLeastLeast ==
  SearchInv /\ CompleteInv /\ LeastInv /\ ReturnLeast => LeastInv'
<1> SUFFICES ASSUME SearchInv, CompleteInv, LeastInv, ReturnLeast PROVE LeastInv'
  OBVIOUS
<1> PICK id : id = Top.id
  OBVIOUS
<1>1. PICK path \in Found :
        /\ \A other \in Found : ~ Before(other, path)
        /\ memo' = [memo EXCEPT ![id] = path]
  BY DEF ReturnLeast
<1>2. goal = None /\ Exhausted /\ bundle' = bundle
  BY DEF ReturnLeast
<1>3. id \in Ids
  BY <1>2, FoundInv DEF Exhausted
<1>4. ASSUME NoWayBack, NEW other \in Seq(Ids), Authorized(other, id)
      PROVE  ~ Before(other, path)
  BY <1>1, <1>2, <1>4, LeastFound
<1> QED
  BY <1>1, <1>2, <1>3, <1>4, LeastRemembered

LEMMA LeastNext ==
  SearchInv /\ CompleteInv /\ LeastInv /\ [SearchNext]_searchVars => LeastInv'
<1> SUFFICES ASSUME SearchInv, CompleteInv, LeastInv, [SearchNext]_searchVars
             PROVE  LeastInv'
  OBVIOUS
<1>1. CASE Recall
  BY <1>1, LeastStays DEF Recall
<1>2. CASE Refuse
  BY <1>2, LeastStays DEF Refuse
<1>3. CASE Descend
  BY <1>3, LeastStays DEF Descend
<1>4. CASE TryParent
  BY <1>4, LeastStays DEF TryParent, TryRecord
<1>5. CASE ReturnNothing
  BY <1>5, LeastStays DEF ReturnNothing
<1>6. CASE UNCHANGED searchVars
  BY <1>6, LeastStays DEF searchVars
<1> QED
  BY <1>1, <1>2, <1>3, <1>4, <1>5, <1>6, ReachAnchorLeast, ReturnLeastLeast
  DEF SearchNext, SearchStep

LEMMA NothingIsLess ==
  SearchInv /\ CompleteInv /\ LeastInv => LeastIfAcyclic
<1> SUFFICES ASSUME SearchInv, CompleteInv, LeastInv, Finished, answer # None,
                    Acyclic, NEW other \in PathsTo(target)
             PROVE  ~ Before(other, answer)
  BY DEF LeastIfAcyclic, IsLeast
<1>1. bundle \in Bundles /\ target \in Ids
  BY DEF SearchInv, SearchTypeOK
<1>2. answer = memo[target]
  BY DEF CompleteInv, OutcomeInv, Finished
<1>3. NoWayBack
  <2> SUFFICES ASSUME NEW path \in Seq(Ids), NEW id \in Ids, Authorized(path, id),
                      NEW i \in DOMAIN path
               PROVE  ~ Introduces(id, path[i])
    BY DEF NoWayBack
  <2>1. path \in PathsTo(id)
    BY <1>1, AllPathsAreAuthorized
  <2> QED
    BY <2>1 DEF Acyclic, PathsTo
<1>4. Authorized(other, target) /\ other \in Seq(Ids)
  BY <1>1, AllPathsAreAuthorized DEF Authorized
<1> QED
  BY <1>1, <1>2, <1>3, <1>4 DEF LeastInv

LEMMA LeastInit == SearchInit => LeastInv
  BY DEF SearchInit, LeastInv

(* Where introductions have no cycle, the path that                        *)
(* _canonical_authorization_path returns is the least of all authorized    *)
(* paths to the record, though it is chosen among extensions of the paths  *)
(* remembered for the record's parents alone.                              *)
THEOREM PathIsLeastIfAcyclic == SearchSpec => []LeastIfAcyclic
  BY LeastInit, LeastNext, NothingIsLess, SearchInvariant, SearchTriesAll, PTL
  DEF SearchSpec

-----------------------------------------------------------------------------
(* Every step of the search leaves less to do.                             *)

(* An active call looks at a place of the order, or is past its end.       *)
PlacesInv == \A f \in DOMAIN stack : stack[f].next \in 1 .. Len(bundle.order) + 1

PlacesLeft ==
  /\ Len(stack) \in Nat /\ DOMAIN stack = 1 .. Len(stack)
  /\ Len(bundle.order) \in Nat
  /\ DOMAIN CallsLeft = 1 .. Len(bundle.order) + 1
  /\ \A i \in DOMAIN CallsLeft :
       /\ i <= Len(stack) => CallsLeft[i] = Len(bundle.order) + 2 - stack[i].next
       /\ i = Len(stack) + 1 =>
            CallsLeft[i] = IF goal = None THEN 0 ELSE Len(bundle.order) + 2
       /\ i > Len(stack) + 1 => CallsLeft[i] = 0

LEMMA LeftAtPlaces == SearchTypeOK => PlacesLeft
<1> SUFFICES ASSUME SearchTypeOK PROVE PlacesLeft
  OBVIOUS
<1>1. Len(stack) \in Nat /\ DOMAIN stack = 1 .. Len(stack)
  BY DEF SearchTypeOK
<1>2. Len(bundle.order) \in Nat
  BY BundlesAssumption DEF SearchTypeOK
<1> QED
  BY <1>1, <1>2 DEF CallsLeft, PlacesLeft

(* Records are derived once in the nested calls, so these are no more than *)
(* the records there are.                                                  *)
LEMMA DepthIsBounded == SearchInv => Len(stack) <= Len(bundle.order)
<1> SUFFICES ASSUME SearchInv PROVE Len(stack) <= Len(bundle.order)
  OBVIOUS
<1> DEFINE met == bundle.order
           derived == [f \in 1 .. Len(stack) |-> stack[f].id]
<1>1. bundle \in Bundles /\ stack \in Seq(Frames)
  BY DEF SearchInv, SearchTypeOK
<1>2. /\ met \in Seq(DOMAIN Records) /\ Decisive \in SUBSET DOMAIN Records
      /\ \A id \in DOMAIN Records : \E n \in DOMAIN met : met[n] = id
  BY <1>1, BundlesAssumption DEF Records, Decisive
<1>3. Len(met) \in Nat /\ DOMAIN met = 1 .. Len(met) /\ met \in [1 .. Len(met) -> DOMAIN Records]
  BY <1>2
<1>4. met \in Surjection(1 .. Len(met), DOMAIN Records)
  BY <1>2, <1>3 DEF Surjection
<1>5. IsFiniteSet(1 .. Len(met)) /\ Cardinality(1 .. Len(met)) = Len(met)
  BY <1>3, FS_Interval
<1>6. IsFiniteSet(DOMAIN Records) /\ Cardinality(DOMAIN Records) <= Len(met)
  <2> HIDE DEF met
  <2> QED
    BY <1>4, <1>5, FS_Surjection
<1>7. Len(stack) \in Nat /\ DOMAIN stack = 1 .. Len(stack)
  BY <1>1
<1>8. derived \in Injection(1 .. Len(stack), DOMAIN Records)
  <2>1. \A f \in 1 .. Len(stack) : stack[f].id \in DOMAIN Records
    BY <1>2, <1>7 DEF SearchInv, StackInv, FrameInv
  <2>2. \A f, g \in 1 .. Len(stack) : stack[f].id = stack[g].id => f = g
    BY <1>7 DEF SearchInv, StackInv
  <2>3. derived \in [1 .. Len(stack) -> DOMAIN Records]
    BY <2>1
  <2>4. IsInjective(derived)
    BY <2>2 DEF IsInjective
  <2> QED
    BY <2>3, <2>4 DEF Injection
<1>9. Cardinality(1 .. Len(stack)) <= Cardinality(DOMAIN Records)
  <2> HIDE DEF derived
  <2> QED
    BY <1>6, <1>8, FS_Injection
<1>10. Cardinality(1 .. Len(stack)) = Len(stack)
  <2>1. \A n \in Nat : Cardinality(1 .. n) = n
    BY FS_Interval
  <2> QED
    BY <1>7, <2>1
<1>11. Cardinality(DOMAIN Records) \in Nat
  BY <1>6, FS_CardinalityType
<1> QED
  BY <1>3, <1>6, <1>7, <1>9, <1>10, <1>11

(* What lowers the rank: less at one place, and the calls outside of it as *)
(* they were.                                                              *)
LEMMA LowerAt ==
  ASSUME PlacesLeft, PlacesLeft', bundle' = bundle,
         NEW place \in 1 .. Len(bundle.order) + 1,
         CallsLeft'[place] < CallsLeft[place],
         place - 1 <= Len(stack), place - 1 <= Len(stack'),
         \A j \in 1 .. place - 1 : stack'[j] = stack[j]
  PROVE  Lower(CallsLeft', CallsLeft)
<1>1. ASSUME NEW j \in 1 .. place - 1 PROVE CallsLeft'[j] = CallsLeft[j]
  <2>1. /\ j \in DOMAIN CallsLeft /\ j \in DOMAIN CallsLeft'
        /\ j <= Len(stack) /\ j <= Len(stack') /\ stack'[j] = stack[j]
    BY DEF PlacesLeft
  <2> QED
    BY <2>1 DEF PlacesLeft
<1> QED
  BY <1>1 DEF Lower, PlacesLeft

LEMMA PlacesLeftNext == ASSUME SearchInv, SearchInv' PROVE PlacesLeft /\ PlacesLeft'
<1>1. (SearchTypeOK => PlacesLeft)'
  BY LeftAtPlaces, PTL
<1> QED
  BY <1>1, LeftAtPlaces DEF SearchInv

(* A call that is answered or refused at once.                             *)
LEMMA AnswerAdvances ==
  ASSUME SearchInv, SearchInv', bundle' = bundle, stack' = stack, goal # None, goal' = None
  PROVE  Lower(CallsLeft', CallsLeft)
<1>1. PlacesLeft /\ PlacesLeft' /\ Len(stack) <= Len(bundle.order)
  BY PlacesLeftNext, DepthIsBounded
<1>2. Len(stack) + 1 \in 1 .. Len(bundle.order) + 1
  BY <1>1 DEF PlacesLeft
<1>3. CallsLeft'[Len(stack) + 1] < CallsLeft[Len(stack) + 1]
  BY <1>1, <1>2 DEF PlacesLeft
<1>4. Len(stack) + 1 - 1 <= Len(stack)
  BY <1>1 DEF PlacesLeft
<1> QED
  BY <1>1, <1>2, <1>3, <1>4, LowerAt

LEMMA DescendAdvances ==
  ASSUME SearchInv, SearchInv', PlacesInv, Descend
  PROVE  PlacesInv' /\ Lower(CallsLeft', CallsLeft)
<1>1. PlacesLeft /\ PlacesLeft' /\ Len(stack) <= Len(bundle.order)
  BY PlacesLeftNext, DepthIsBounded
<1>2. /\ stack' = Append(stack, [id |-> goal, next |-> 1, found |-> {}])
      /\ goal # None /\ goal' = None /\ bundle' = bundle
  BY DEF Descend, Give
<1>3. /\ Len(stack') = Len(stack) + 1 /\ stack'[Len(stack) + 1].next = 1
      /\ \A f \in 1 .. Len(stack) : stack'[f] = stack[f]
  BY <1>2 DEF SearchInv, SearchTypeOK
<1>4. /\ Len(stack) + 1 \in 1 .. Len(bundle.order) + 1
      /\ Len(stack) + 1 - 1 <= Len(stack) /\ Len(stack) + 1 - 1 <= Len(stack')
      /\ 1 .. Len(stack) + 1 - 1 = 1 .. Len(stack)
  BY <1>1, <1>3 DEF PlacesLeft
<1>5. CallsLeft'[Len(stack) + 1] < CallsLeft[Len(stack) + 1]
  BY <1>1, <1>2, <1>3, <1>4 DEF PlacesLeft
<1>6. PlacesInv'
  BY <1>1, <1>2, <1>3 DEF PlacesInv, PlacesLeft
<1> QED
  BY <1>1, <1>2, <1>3, <1>4, <1>5, <1>6, LowerAt

(* A caller goes on behind the place it has looked at.                     *)
LEMMA TryParentAdvances ==
  ASSUME SearchInv, SearchInv', PlacesInv, TryParent
  PROVE  PlacesInv' /\ Lower(CallsLeft', CallsLeft)
<1> DEFINE depth == Len(stack)
<1>1. PlacesLeft /\ PlacesLeft' /\ depth <= Len(bundle.order)
  BY PlacesLeftNext, DepthIsBounded
<1>2. depth \in Nat \ {0} /\ depth \in DOMAIN stack /\ Top.next \in 1 .. Len(bundle.order) + 1
  BY <1>1, EmptySeq DEF PlacesLeft, TryParent, PlacesInv, Top, SearchInv, SearchTypeOK
<1>3. PICK n \in Remaining : TryRecord(n)
  BY DEF TryParent
<1>4. n \in Int /\ Top.next <= n /\ n <= Len(bundle.order)
  BY <1>1, <1>2, <1>3 DEF Remaining, PlacesLeft
<1> DEFINE frame == [id |-> Top.id, next |-> n + 1, found |-> Found]
<1>5. frame.next = n + 1
  OBVIOUS
<1>6. bundle' = bundle /\ stack' = [stack EXCEPT ![depth] = frame]
  BY <1>3 DEF TryRecord
<1> HIDE DEF frame
<1>7. /\ DOMAIN stack' = DOMAIN stack /\ Len(stack') = depth /\ stack'[depth] = frame
      /\ \A f \in DOMAIN stack \ {depth} : stack'[f] = stack[f]
  <2>1. stack \in Seq(Frames)
    BY DEF SearchInv, SearchTypeOK
  <2> QED
    BY <1>2, <1>6, <2>1
<1>8. \A f \in 1 .. depth - 1 : stack'[f] = stack[f]
  <2>1. 1 .. depth - 1 \subseteq DOMAIN stack \ {depth}
    BY <1>1, <1>2 DEF PlacesLeft
  <2> QED
    BY <1>7, <2>1
<1>9. depth \in 1 .. Len(bundle.order) + 1 /\ depth - 1 <= depth /\ depth - 1 <= Len(stack')
  BY <1>1, <1>2, <1>7 DEF PlacesLeft
<1>10. CallsLeft'[depth] < CallsLeft[depth]
  <2>1. CallsLeft[depth] = Len(bundle.order) + 2 - Top.next
    BY <1>1, <1>9 DEF PlacesLeft, Top
  <2>2. CallsLeft'[depth] = Len(bundle.order) + 2 - (n + 1)
    BY <1>1, <1>2, <1>5, <1>6, <1>7, <1>9 DEF PlacesLeft
  <2> QED
    BY <1>1, <1>2, <1>4, <2>1, <2>2 DEF PlacesLeft
<1>11. PlacesInv'
  <2>1. n + 1 \in 1 .. Len(bundle.order) + 1
    BY <1>1, <1>2, <1>4 DEF PlacesLeft
  <2>2. \A f \in DOMAIN stack' : stack'[f].next \in 1 .. Len(bundle.order) + 1
    BY <1>5, <1>7, <2>1 DEF PlacesInv
  <2> QED
    BY <1>6, <2>2 DEF PlacesInv
<1>12. bundle' = bundle
  BY <1>6
<1> QED
  BY <1>1, <1>8, <1>9, <1>10, <1>11, <1>12, LowerAt

LEMMA ReturnAdvances ==
  ASSUME SearchInv, SearchInv', PlacesInv, ReturnLeast \/ ReturnNothing
  PROVE  PlacesInv' /\ Lower(CallsLeft', CallsLeft)
<1> DEFINE depth == Len(stack)
<1>1. PlacesLeft /\ PlacesLeft' /\ depth <= Len(bundle.order)
  BY PlacesLeftNext, DepthIsBounded
<1>2. stack # <<>> /\ stack' = Front(stack) /\ bundle' = bundle /\ goal' = None
  BY DEF ReturnLeast, ReturnNothing, Exhausted, Give
<1>3. /\ depth \in Nat \ {0} /\ depth \in DOMAIN stack
      /\ stack[depth].next \in 1 .. Len(bundle.order) + 1
  BY <1>1, <1>2, EmptySeq DEF PlacesLeft, PlacesInv, SearchInv, SearchTypeOK
<1>4. /\ Len(stack') = depth - 1 /\ DOMAIN stack' = 1 .. depth - 1
      /\ \A f \in 1 .. depth - 1 : stack'[f] = stack[f]
  BY <1>2, Popped
<1>5. depth \in 1 .. Len(bundle.order) + 1 /\ depth - 1 <= depth /\ depth - 1 <= Len(stack')
  BY <1>1, <1>3, <1>4 DEF PlacesLeft
<1>6. CallsLeft'[depth] < CallsLeft[depth]
  BY <1>1, <1>2, <1>3, <1>4, <1>5 DEF PlacesLeft
<1>7. PlacesInv'
  <2>1. ASSUME NEW f \in DOMAIN stack' PROVE stack'[f].next \in 1 .. Len(bundle.order) + 1
    <3>1. f \in DOMAIN stack /\ stack'[f] = stack[f]
      BY <1>1, <1>3, <1>4 DEF PlacesLeft
    <3> QED
      BY <3>1 DEF PlacesInv
  <2> QED
    BY <1>2, <2>1 DEF PlacesInv
<1> QED
  BY <1>1, <1>2, <1>4, <1>5, <1>6, <1>7, LowerAt

LEMMA SearchStepAdvances ==
  ASSUME SearchInv, SearchInv', PlacesInv, SearchStep
  PROVE  PlacesInv' /\ Lower(CallsLeft', CallsLeft)
<1>1. CASE Recall \/ Refuse \/ ReachAnchor
  <2>1. bundle' = bundle /\ stack' = stack /\ goal # None /\ goal' = None
    BY <1>1 DEF Recall, Refuse, ReachAnchor, Give
  <2> QED
    BY <2>1, AnswerAdvances DEF PlacesInv
<1> QED
  BY <1>1, DescendAdvances, TryParentAdvances, ReturnAdvances DEF SearchStep

LEMMA CallsLeftAreNat ==
  ASSUME SearchTypeOK, PlacesInv PROVE CallsLeft \in [1 .. Len(bundle.order) + 1 -> Nat]
<1>1. PlacesLeft
  BY LeftAtPlaces
<1>2. \A i \in 1 .. Len(bundle.order) + 1 : CallsLeft[i] \in Nat
  BY <1>1 DEF PlacesLeft, PlacesInv
<1>3. CallsLeft = [i \in 1 .. Len(bundle.order) + 1 |-> CallsLeft[i]]
  BY <1>1 DEF PlacesLeft, CallsLeft
<1> QED
  BY <1>2, <1>3

(* The rank falls only finitely often: a number of checks, and then what   *)
(* is left of the calls, compared at the outermost place they differ.      *)
RankOrder(n) ==
  {r \in (Nat \X [1 .. n -> Nat]) \X (Nat \X [1 .. n -> Nat]) :
     \/ r[1][1] < r[2][1]
     \/ r[1][1] = r[2][1] /\ Lower(r[1][2], r[2][2])}

LEMMA RankIsLexicographic ==
  ASSUME NEW less, IsWellFoundedOn(less, Nat),
         \A x, y \in Nat : x < y => <<x, y>> \in less,
         NEW n \in Nat
  PROVE  IsWellFoundedOn(RankOrder(n), Nat \X [1 .. n -> Nat])
<1> DEFINE calls == LexProductOrdering(less, Nat, n)
           both == LexPairOrdering(less, calls, Nat, [1 .. n -> Nat])
<1>1. IsWellFoundedOn(calls, [1 .. n -> Nat])
  BY WFLexProductOrdering
<1>2. ASSUME NEW p \in [1 .. n -> Nat], NEW q \in [1 .. n -> Nat], Lower(p, q)
      PROVE  <<p, q>> \in calls
  <2>1. PICK j \in 1 .. n : p[j] < q[j] /\ \A i \in 1 .. j - 1 : p[i] = q[i]
    BY <1>2 DEF Lower
  <2>2. <<p[j], q[j]>> \in less
    BY <2>1
  <2> QED
    BY <2>1, <2>2 DEF LexProductOrdering
<1> HIDE DEF calls
<1>3. IsWellFoundedOn(both, Nat \X [1 .. n -> Nat])
  BY <1>1, WFLexPairOrdering
<1>4. ASSUME NEW r \in RankOrder(n)
      PROVE  r \in both
  <2>1. /\ r \in (Nat \X [1 .. n -> Nat]) \X (Nat \X [1 .. n -> Nat])
        /\ \/ r[1][1] < r[2][1]
           \/ r[1][1] = r[2][1] /\ Lower(r[1][2], r[2][2])
    BY DEF RankOrder
  <2>2. /\ r[1][1] \in Nat /\ r[2][1] \in Nat
        /\ r[1][2] \in [1 .. n -> Nat] /\ r[2][2] \in [1 .. n -> Nat]
    BY <2>1
  <2>3. \/ <<r[1][1], r[2][1]>> \in less
        \/ r[1][1] = r[2][1] /\ <<r[1][2], r[2][2]>> \in calls
    BY <1>2, <2>1, <2>2
  <2> QED
    BY <2>1, <2>3 DEF LexPairOrdering
<1> HIDE DEF both
<1> QED
  BY <1>3, <1>4, IsWellFoundedOnSubrelation

THEOREM RanksAreWellFounded ==
  \A n \in Nat : IsWellFoundedOn(RankOrder(n), Nat \X [1 .. n -> Nat])
<1> DEFINE less == {r \in Nat \X Nat : r[1] < r[2]}
<1>1. IsWellFoundedOn(less, Nat)
  BY NatLessThanWellFounded DEF OpToRel
<1>2. \A x, y \in Nat : x < y => <<x, y>> \in less
  OBVIOUS
<1> HIDE DEF less
<1> TAKE n \in Nat
<1> QED
  BY <1>1, <1>2, RankIsLexicographic, Zenon
============================================================================
