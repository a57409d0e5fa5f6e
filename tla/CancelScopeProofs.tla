--------------------------- MODULE CancelScopeProofs ---------------------------
(***************************************************************************)
(* Proofs about CancelScope and Nursery, for every set of tasks and        *)
(* scopes: that the recalculation of effectively_cancelled is exact, how   *)
(* nurseries, tasks and scopes hang together while started() moves them,   *)
(* and that no exception is lost on its way out.                           *)
(***************************************************************************)
EXTENDS Nursery, FiniteSetTheorems, TLAPS

--------------------------------------------------------------------------------
(***************************************************************************)
(* Lemmas about recalculate().  They say nothing of finiteness: what the   *)
(* work list reaches is a least set, and each fact follows by comparing    *)
(* that set with a smaller one that would do as well.                      *)
(***************************************************************************)

(***************************************************************************)
(* The set of statuses that recalculate() flips is closed: it holds the    *)
(* roots that change and the children that must follow.                    *)
(***************************************************************************)
LEMMA ChangedIsClosed ==
    ASSUME NEW c, NEW sh, NEW p \in [Scope -> Scope \cup {None}], NEW e,
           NEW R \in SUBSET Scope
    PROVE  /\ Changed(c, sh, p, e, R) \subseteq Scope
           /\ ChangeClosed(c, sh, p, e, R, Changed(c, sh, p, e, R))
<1> DEFINE ch == Changed(c, sh, p, e, R)
<1>1. ch \subseteq Scope
    BY DEF Changed
<1>2. ChangedRoot(c, sh, p, e, R) \subseteq ch
    <2>1. ChangedRoot(c, sh, p, e, R) \subseteq Scope
        BY DEF ChangedRoot
    <2> QED
        BY <2>1 DEF Changed, ChangeClosed
<1>3. ASSUME NEW x \in Scope, p[x] \in ch, ChangedChild(c, sh, p, e, x)
      PROVE  x \in ch
    <2>1. ASSUME NEW A \in SUBSET Scope, ChangeClosed(c, sh, p, e, R, A)
          PROVE  x \in A
        <3>1. p[x] \in A
            BY <1>3, <2>1 DEF Changed
        <3> QED
            BY <1>3, <2>1, <3>1 DEF ChangeClosed
    <2> QED
        BY <2>1 DEF Changed
<1> QED
    BY <1>1, <1>2, <1>3 DEF ChangeClosed

(***************************************************************************)
(* The set is also the least one: any closed set contains it.              *)
(***************************************************************************)
LEMMA ChangedIsLeast ==
    ASSUME NEW c, NEW sh, NEW p, NEW e, NEW R,
           NEW A \in SUBSET Scope, ChangeClosed(c, sh, p, e, R, A)
    PROVE  Changed(c, sh, p, e, R) \subseteq A
BY DEF Changed

(***************************************************************************)
(* Only a status on the work list flips.                                   *)
(***************************************************************************)
LEMMA ChangedIsVisited ==
    ASSUME NEW c, NEW sh, NEW p \in [Scope -> Scope \cup {None}], NEW e,
           NEW R \in SUBSET Scope
    PROVE  Changed(c, sh, p, e, R)
             \subseteq Visited(p, R, Changed(c, sh, p, e, R))
<1> DEFINE ch == Changed(c, sh, p, e, R)
           A  == ch \cap Visited(p, R, ch)
<1>1. ch \subseteq Scope /\ ChangeClosed(c, sh, p, e, R, ch)
    BY ChangedIsClosed
<1>2. ChangedRoot(c, sh, p, e, R) \subseteq A
    BY <1>1 DEF ChangeClosed, ChangedRoot, Visited
<1>3. ASSUME NEW x \in Scope, p[x] \in A, ChangedChild(c, sh, p, e, x)
      PROVE  x \in A
    BY <1>1, <1>3 DEF ChangeClosed, Visited
<1>4. ChangeClosed(c, sh, p, e, R, A)
    BY <1>2, <1>3 DEF ChangeClosed
<1> QED
    BY <1>1, <1>4, ChangedIsLeast

(***************************************************************************)
(* A root flips exactly when its new state differs, provided that its      *)
(* parent does not flip (or that the root itself is cancelled, when the    *)
(* parent does not matter).                                                *)
(***************************************************************************)
LEMMA RootFlips ==
    ASSUME NEW c, NEW sh, NEW p \in [Scope -> Scope \cup {None}], NEW e,
           NEW R \in SUBSET Scope, NEW r \in R,
           r \in c \/ p[r] \notin Changed(c, sh, p, e, R)
    PROVE  r \in Changed(c, sh, p, e, R) <=> (NewState(c, sh, p, e, r) # (r \in e))
<1> DEFINE ch == Changed(c, sh, p, e, R)
           A  == ch \ {r}
<1>1. ch \subseteq Scope /\ ChangeClosed(c, sh, p, e, R, ch)
    BY ChangedIsClosed
<1>2. CASE NewState(c, sh, p, e, r) # (r \in e)
    <2>1. r \in ChangedRoot(c, sh, p, e, R)
        BY <1>2 DEF ChangedRoot
    <2> QED
        BY <1>1, <1>2, <2>1 DEF ChangeClosed
<1>3. CASE ~(NewState(c, sh, p, e, r) # (r \in e))
    <2>1. ChangedRoot(c, sh, p, e, R) \subseteq A
        BY <1>1, <1>3 DEF ChangedRoot, ChangeClosed
    <2>2. ASSUME NEW x \in Scope, p[x] \in A, ChangedChild(c, sh, p, e, x)
          PROVE  x \in A
        <3>1. x \in ch
            BY <1>1, <2>2 DEF ChangeClosed
        <3>2. x # r
            BY <1>3, <2>2 DEF ChangedChild, NewState
        <3> QED
            BY <3>1, <3>2
    <2>3. ChangeClosed(c, sh, p, e, R, A)
        BY <2>1, <2>2 DEF ChangeClosed
    <2> QED
        BY <1>1, <1>3, <2>3, ChangedIsLeast
<1> QED
    BY <1>2, <1>3

(***************************************************************************)
(* A child of a flipped status flips exactly when it must follow.          *)
(***************************************************************************)
LEMMA ChildFlips ==
    ASSUME NEW c, NEW sh, NEW p \in [Scope -> Scope \cup {None}], NEW e,
           NEW R \in SUBSET Scope, NEW x \in Scope \ R,
           p[x] \in Changed(c, sh, p, e, R)
    PROVE  x \in Changed(c, sh, p, e, R) <=> ChangedChild(c, sh, p, e, x)
<1> DEFINE ch == Changed(c, sh, p, e, R)
           A  == ch \ {x}
<1>1. ch \subseteq Scope /\ ChangeClosed(c, sh, p, e, R, ch)
    BY ChangedIsClosed
<1>2. CASE ChangedChild(c, sh, p, e, x)
    BY <1>1, <1>2 DEF ChangeClosed
<1>3. CASE ~ChangedChild(c, sh, p, e, x)
    <2>1. ChangedRoot(c, sh, p, e, R) \subseteq A
        BY <1>1 DEF ChangedRoot, ChangeClosed
    <2>2. ASSUME NEW y \in Scope, p[y] \in A, ChangedChild(c, sh, p, e, y)
          PROVE  y \in A
        BY <1>1, <1>3, <2>2 DEF ChangeClosed
    <2>3. ChangeClosed(c, sh, p, e, R, A)
        BY <2>1, <2>2 DEF ChangeClosed
    <2> QED
        BY <1>1, <1>3, <2>3, ChangedIsLeast
<1> QED
    BY <1>2, <1>3

(***************************************************************************)
(* recalculate() repairs the tree: if every status of X outside of R       *)
(* agrees with its scope and its parent before, then every status of X     *)
(* does after, with the scopes Late that the walk cancels on its way.      *)
(***************************************************************************)
LEMMA RecalculateRepairs ==
    ASSUME NEW c, NEW sh, NEW p \in [Scope -> Scope \cup {None}], NEW e,
           NEW R \in SUBSET Scope, NEW Late, NEW X \in SUBSET Scope,
           \A x \in X \ R : x \in e <=> NewState(c, sh, p, e, x),
           \A r \in R : r \in c \/ p[r] \notin Changed(c \cup Late, sh, p, e, R)
    PROVE  LET ch == Changed(c \cup Late, sh, p, e, R)
           IN  \A x \in X :
                  x \in (e \ ch) \cup (ch \ e)
                    <=> NewState(c \cup (Visited(p, R, ch) \cap Late), sh, p,
                                 (e \ ch) \cup (ch \ e), x)
<1> DEFINE ch == Changed(c \cup Late, sh, p, e, R)
           e2 == (e \ ch) \cup (ch \ e)
           c2 == c \cup (Visited(p, R, ch) \cap Late)
<1> SUFFICES ASSUME NEW x \in X
             PROVE  x \in e2 <=> NewState(c2, sh, p, e2, x)
    OBVIOUS
<1>1. ch \subseteq Scope /\ ch \subseteq Visited(p, R, ch)
    BY ChangedIsClosed, ChangedIsVisited
<1>2. CASE x \in R
    <2>1. x \in c2 <=> x \in c \cup Late
        BY <1>2 DEF Visited
    <2>2. x \in ch <=> (NewState(c \cup Late, sh, p, e, x) # (x \in e))
        BY <1>2, RootFlips
    <2>3. x \in e2 <=> NewState(c \cup Late, sh, p, e, x)
        BY <2>2 DEF NewState, ParentCancellationIsVisible
    <2>4. x \in c \/ p[x] \notin ch
        BY <1>2
    <2> QED
        BY <2>1, <2>3, <2>4 DEF NewState, ParentCancellationIsVisible
<1>3. CASE x \notin R /\ p[x] \in ch
    <2>1. x \in c2 <=> x \in c \cup Late
        BY <1>3 DEF Visited
    <2>2. x \in ch <=> ChangedChild(c \cup Late, sh, p, e, x)
        BY <1>3, ChildFlips
    <2>3. p[x] # None
        BY <1>1, <1>3, CancelScopeAssumption
    <2>4. p[x] \in e2 <=> p[x] \notin e
        BY <1>3
    <2> QED
        BY <2>1, <2>2, <2>3, <2>4
        DEF ChangedChild, NewState, ParentCancellationIsVisible
<1>4. CASE x \notin R /\ p[x] \notin ch
    <2>1. x \notin Visited(p, R, ch)
        BY <1>4 DEF Visited
    <2>2. (x \in c2 <=> x \in c) /\ (x \in e2 <=> x \in e)
        BY <1>1, <2>1
    <2>3. p[x] \in e2 <=> p[x] \in e
        BY <1>4
    <2> QED
        BY <1>4, <2>2, <2>3 DEF NewState, ParentCancellationIsVisible
<1> QED
    BY <1>2, <1>3, <1>4

(***************************************************************************)
(* No strict ancestor of the only root flips: the walk goes down.          *)
(***************************************************************************)
LEMMA WalkGoesDown ==
    ASSUME NEW c, NEW sh, NEW p \in [Scope -> Scope \cup {None}], NEW e,
           NEW r \in Scope, p[r] # None => ~Encloses(p, r, p[r])
    PROVE  p[r] \notin Changed(c, sh, p, e, {r})
<1> DEFINE ch == Changed(c, sh, p, e, {r})
<1>1. ch \subseteq Scope /\ ChangeClosed(c, sh, p, e, {r}, ch)
    BY ChangedIsClosed
<1>2. CASE p[r] = None
    BY <1>1, <1>2, CancelScopeAssumption
<1>3. CASE p[r] # None
    <2>1. PICK Up \in SUBSET Scope :
              p[r] \in Up /\ UpwardClosed(p, Up) /\ r \notin Up
        BY <1>3 DEF Encloses
    <2> DEFINE A == ch \ Up
    <2>2. ChangedRoot(c, sh, p, e, {r}) \subseteq A
        BY <1>1, <2>1 DEF ChangedRoot, ChangeClosed
    <2>3. ASSUME NEW x \in Scope, p[x] \in A, ChangedChild(c, sh, p, e, x)
          PROVE  x \in A
        <3>1. x \in ch
            BY <1>1, <2>3 DEF ChangeClosed
        <3>2. p[x] # None
            BY <1>1, <2>3, CancelScopeAssumption
        <3> QED
            BY <2>1, <2>3, <3>1, <3>2 DEF UpwardClosed
    <2>4. ChangeClosed(c, sh, p, e, {r}, A)
        BY <2>2, <2>3 DEF ChangeClosed
    <2> QED
        BY <1>1, <2>1, <2>4, ChangedIsLeast
<1> QED
    BY <1>2, <1>3

--------------------------------------------------------------------------------
(***************************************************************************)
(* The inductive invariant.  Tree says how the links hang together, and    *)
(* OneStateAtATime that a task is running, blocked or in the run queue.    *)
(***************************************************************************)
Tree ==
    /\ \A s \in Scope \ active : parent[s] = None
    /\ \A s \in active \ {Root} : parent[s] # None
    /\ \A s \in Scope : parent[s] # None => parent[s] \in has_been_entered
    /\ \A s \in Scope \ has_been_entered : s \notin effectively_cancelled
    /\ Root \in active
    /\ \A t \in Task : status[t] \in has_been_entered
    /\ Forest

OneStateAtATime ==
    /\ \A t \in Task : next_send[t] # "none" => wait[t] = "none" /\ t # current
    /\ \A t \in Task : t = current => wait[t] = "none"

IInv ==
    /\ TypeOK
    /\ Tree
    /\ OneStateAtATime
    /\ Consistent
    /\ NoLostCancel
    /\ CaughtImpliesCancelled

(***************************************************************************)
(* The type invariant holds in every step.                                 *)
(***************************************************************************)
LEMMA DeliverType ==
    ASSUME TypeOK, NEW c \in SUBSET Scope, NEW st \in [Task -> Scope],
           NEW T \in SUBSET Task, Deliver(c, st, T)
    PROVE  /\ cancel_called' \subseteq Scope
           /\ wait' \in [Task -> Wait]
           /\ next_send' \in [Task -> {"none", "Value", "Cancelled"}]
BY DEF TypeOK, Deliver, AfterAbort, Wait, AbortKind

(***************************************************************************)
(* recalculate() keeps the types of all it assigns.                        *)
(***************************************************************************)
LEMMA RecalculateType ==
    ASSUME TypeOK, NEW c \in SUBSET Scope, NEW sh,
           NEW p \in [Scope -> Scope \cup {None}],
           NEW e \in SUBSET Scope, NEW st \in [Task -> Scope],
           NEW R \in SUBSET Scope,
           Recalculate(c, sh, p, e, st, R)
    PROVE  /\ effectively_cancelled' \subseteq Scope
           /\ cancel_called' \subseteq Scope
           /\ wait' \in [Task -> Wait]
           /\ next_send' \in [Task -> {"none", "Value", "Cancelled"}]
<1> DEFINE ch == Changed(c \cup LateScopes, sh, p, e, R)
<1>1. ch \subseteq Scope
    BY ChangedIsClosed
<1> DEFINE c2 == c \cup (Visited(p, R, ch) \cap LateScopes)
           T  == {t \in Task : st[t] \in ch \ e}
<1>2. effectively_cancelled' \subseteq Scope
    BY <1>1 DEF Recalculate
<1>3. Deliver(c2, st, T)
    BY DEF Recalculate
<1>4. c2 \in SUBSET Scope /\ T \in SUBSET Task
    BY DEF LateScopes, TypeOK
<1> HIDE DEF c2, T
<1> QED
    BY <1>2, <1>3, <1>4, DeliverType

(***************************************************************************)
(* _close keeps the types, in whichever of its branches.                   *)
(***************************************************************************)
LEMMA CloseScopeType ==
    ASSUME IInv, NEW t \in Task, NEW s \in active \ {Root}, NEW exc \in Exception,
           NEW st \in [Task -> Scope], CloseScope(t, s, exc, st)
    PROVE  TypeOK'
<1> DEFINE p  == [parent EXCEPT ![s] = None]
           cs == Children(parent, s)
           e  == effectively_cancelled \cup {s}
           ch == Changed(cancel_called \cup LateScopes, shield, p, e, cs)
<1>0. s \in Scope /\ p \in [Scope -> Scope \cup {None}] /\ cs \in SUBSET Scope
    BY DEF IInv, TypeOK, Children
<1>1. ch \subseteq Scope
    BY <1>0, ChangedIsClosed
<1>2. parent' \in [Scope -> Scope \cup {None}]
    BY <1>0 DEF CloseScope, CloseStatus
<1>3. effectively_cancelled' \subseteq Scope /\ abandoned' \subseteq Scope
    <2>1. /\ \/ effectively_cancelled' = effectively_cancelled
             \/ effectively_cancelled' = (e \ ch) \cup (ch \ e)
          /\ \/ abandoned' = abandoned
             \/ abandoned' = abandoned \cup {x \in Scope : Encloses(parent, s, x)}
        BY DEF CloseScope, CloseStatus
    <2> HIDE DEF ch
    <2> QED
        BY <1>0, <1>1, <2>1 DEF IInv, TypeOK
<1>4. /\ cancel_called' \subseteq Scope
      /\ wait' \in [Task -> Wait]
      /\ next_send' \in [Task -> {"none", "Value", "Cancelled"}]
    <2> DEFINE c2 == cancel_called \cup (Visited(p, cs, ch) \cap LateScopes)
               T  == {u \in Task : st[u] = s} \cup {u \in Task : st[u] \in ch \ e}
    <2>1. CASE UNCHANGED <<cancel_called, wait, next_send>>
        BY <2>1 DEF IInv, TypeOK
    <2>2. CASE Deliver(c2, st, T)
        <3>1. c2 \in SUBSET Scope /\ T \in SUBSET Task
            BY DEF LateScopes, IInv, TypeOK
        <3> HIDE DEF c2, T
        <3> QED
            BY <2>2, <3>1, DeliverType DEF IInv
    <2> QED
        BY <2>1, <2>2 DEF CloseScope, CloseStatus
<1>5. raised' \in [Scope \cup Task -> Exception]
    <2>1. Remaining(s, exc) \in Exception
        BY DEF Remaining, Exception
    <2>2. {} \in Exception
        BY DEF Exception
    <2>3. raised \in [Scope \cup Task -> Exception]
        BY DEF IInv, TypeOK
    <2> QED
        BY <2>1, <2>2, <2>3 DEF CloseScope
<1> QED
    BY <1>0, <1>2, <1>3, <1>4, <1>5 DEF CloseScope, IInv, TypeOK

--------------------------------------------------------------------------------
(***************************************************************************)
(* The tasks that a delivery reaches no longer have an abort function, and *)
(* no task is both blocked and about to run afterwards.                    *)
(***************************************************************************)
LEMMA DeliverFacts ==
    ASSUME TypeOK, OneStateAtATime, NEW c, NEW st, NEW T \in SUBSET Task,
           Deliver(c, st, T), UNCHANGED current
    PROVE  /\ OneStateAtATime'
           /\ \A t \in Task : HasAbortFunc(t)' => HasAbortFunc(t) /\ t \notin T
           /\ c \subseteq cancel_called'
           /\ \A x \in cancel_called' \ c : \E t \in T : x = st[t]
BY DEF TypeOK, OneStateAtATime, Deliver, AfterAbort, HasAbortFunc, Wait, AbortKind

(***************************************************************************)
(* Cancelling scopes that are effectively cancelled already disturbs no    *)
(* status.                                                                 *)
(***************************************************************************)
LEMMA CancelAgain ==
    ASSUME NEW c, NEW c2, NEW sh, NEW p, NEW e, NEW X,
           c \subseteq c2, \A x \in c2 \ c : x \in e,
           \A x \in X : x \in e <=> NewState(c, sh, p, e, x)
    PROVE  \A x \in X : x \in e <=> NewState(c2, sh, p, e, x)
BY DEF NewState

(***************************************************************************)
(* A step that changes scope flags only through recalculate() keeps the    *)
(* invariant, if the statuses outside of its roots were consistent.        *)
(***************************************************************************)
LEMMA RecalculateStep ==
    ASSUME IInv, NEW c \in SUBSET Scope, NEW sh \in SUBSET Scope,
           NEW R \in SUBSET active,
           Recalculate(c, sh, parent, effectively_cancelled, status, R),
           shield' = sh, cancel_called \subseteq c,
           \A x \in active \ R : x \in effectively_cancelled
               <=> NewState(c, sh, parent, effectively_cancelled, x),
           \A r \in R : r \in c \/ parent[r] \notin
               Changed(c \cup LateScopes, sh, parent, effectively_cancelled, R),
           UNCHANGED <<has_been_entered, active, cancelled_caught, overdue,
                       abandoned, parent, owner, status, current, raised>>
    PROVE  IInv'
<1> DEFINE e  == effectively_cancelled
           ch == Changed(c \cup LateScopes, sh, parent, e, R)
<1>0. /\ R \in SUBSET Scope /\ active \in SUBSET Scope
      /\ parent \in [Scope -> Scope \cup {None}] /\ e \in SUBSET Scope
    BY DEF IInv, TypeOK
<1>1. TypeOK'
    <2>1. /\ effectively_cancelled' \subseteq Scope
          /\ cancel_called' \subseteq Scope
          /\ wait' \in [Task -> Wait]
          /\ next_send' \in [Task -> {"none", "Value", "Cancelled"}]
        <3>1. TypeOK /\ status \in [Task -> Scope]
            BY DEF IInv, TypeOK
        <3> QED
            BY <1>0, <3>1, RecalculateType
    <2> QED
        BY <2>1 DEF IInv, TypeOK
<1>2. ch \subseteq Scope /\ ch \subseteq Visited(parent, R, ch)
    BY <1>0, ChangedIsClosed, ChangedIsVisited
<1> DEFINE c2 == c \cup (Visited(parent, R, ch) \cap LateScopes)
           T  == {t \in Task : status[t] \in ch \ e}
<1>3. effectively_cancelled' = (e \ ch) \cup (ch \ e) /\ Deliver(c2, status, T)
    BY DEF Recalculate
<1>3a. /\ OneStateAtATime'
       /\ \A t \in Task : HasAbortFunc(t)' => HasAbortFunc(t) /\ t \notin T
       /\ c2 \subseteq cancel_called'
       /\ \A x \in cancel_called' \ c2 : \E t \in T : x = status[t]
    <2>1. T \in SUBSET Task
        OBVIOUS
    <2> HIDE DEF c2, T
    <2> QED
        BY <1>3, <2>1, DeliverFacts DEF IInv
<1>4. ch \subseteq active
    <2>1. ASSUME NEW x \in Scope, parent[x] \in ch
          PROVE  x \in active
        BY <1>2, <2>1, CancelScopeAssumption DEF IInv, Tree
    <2> QED
        BY <1>2, <2>1 DEF Visited
<1>5. Tree'
    BY <1>3, <1>4 DEF IInv, Tree, Forest, Encloses, UpwardClosed, TypeOK
<1>6. Consistent'
    <2>1. \A x \in active :
             x \in (e \ ch) \cup (ch \ e)
               <=> NewState(c \cup (Visited(parent, R, ch) \cap LateScopes), sh,
                            parent, (e \ ch) \cup (ch \ e), x)
        BY <1>0, RecalculateRepairs
    <2>2. \A x \in cancel_called' \ c2 : x \in (e \ ch) \cup (ch \ e)
        BY <1>3a
    <2>3. \A x \in active :
             x \in (e \ ch) \cup (ch \ e)
               <=> NewState(cancel_called', sh, parent, (e \ ch) \cup (ch \ e), x)
        <3> DEFINE e2 == (e \ ch) \cup (ch \ e)
        <3>1. /\ c2 \subseteq cancel_called'
              /\ \A x \in cancel_called' \ c2 : x \in e2
              /\ \A x \in active : x \in e2 <=> NewState(c2, sh, parent, e2, x)
            BY <1>3a, <2>1, <2>2
        <3> HIDE DEF e2, c2
        <3>2. \A x \in active : x \in e2 <=> NewState(cancel_called', sh, parent, e2, x)
            BY <3>1, CancelAgain
        <3> QED
            BY <3>2 DEF e2
    <2> QED
        BY <1>3, <2>3 DEF Consistent
<1>7. NoLostCancel'
    BY <1>3, <1>3a DEF IInv, NoLostCancel
<1>8. CaughtImpliesCancelled'
    BY <1>3a DEF IInv, CaughtImpliesCancelled
<1> QED
    BY <1>1, <1>3a, <1>5, <1>6, <1>7, <1>8 DEF IInv

(***************************************************************************)
(* cancel() keeps the invariant: one root, whose status the walk starts    *)
(* from.                                                                   *)
(***************************************************************************)
LEMMA CancelStep ==
    ASSUME IInv, NEW s \in Scope, Cancel(s)
    PROVE  IInv'
<1>1. CASE s \in active
    <2> DEFINE c == cancel_called \cup {s}
    <2>1. Recalculate(c, shield, parent, effectively_cancelled, status, {s})
        BY <1>1 DEF Cancel
    <2>2. c \in SUBSET Scope /\ shield \in SUBSET Scope /\ {s} \in SUBSET active
        BY <1>1 DEF IInv, TypeOK
    <2>3. \A x \in active \ {s} : x \in effectively_cancelled
              <=> NewState(c, shield, parent, effectively_cancelled, x)
        BY DEF IInv, Consistent, NewState
    <2>4. /\ shield' = shield
          /\ UNCHANGED <<has_been_entered, active, cancelled_caught, overdue,
                         abandoned, parent, owner, status, current, raised>>
        BY DEF Cancel
    <2> QED
        BY <2>1, <2>2, <2>3, <2>4, RecalculateStep
<1>2. CASE s \notin active
    BY <1>2 DEF Cancel, IInv, TypeOK, Tree, Forest, Encloses, UpwardClosed,
        OneStateAtATime, Consistent, NewState, ParentCancellationIsVisible,
        NoLostCancel, HasAbortFunc, AbortKind, CaughtImpliesCancelled
<1> QED
    BY <1>1, <1>2

(***************************************************************************)
(* Setting shield keeps the invariant, whichever way it goes.              *)
(***************************************************************************)
LEMMA SetShieldStep ==
    ASSUME IInv, NEW s \in Scope, SetShield(s)
    PROVE  IInv'
<1>1. CASE s \in active
    <2>1. Recalculate(cancel_called, shield', parent, effectively_cancelled,
                      status, {s})
        BY <1>1 DEF SetShield
    <2>2. /\ cancel_called \in SUBSET Scope /\ shield' \in SUBSET Scope
          /\ {s} \in SUBSET active
        BY <1>1 DEF IInv, TypeOK, SetShield
    <2>3. \A x \in active \ {s} : x \in effectively_cancelled
              <=> NewState(cancel_called, shield', parent, effectively_cancelled, x)
        BY DEF IInv, Consistent, NewState, ParentCancellationIsVisible, SetShield
    <2>4. parent[s] \notin Changed(cancel_called \cup LateScopes, shield', parent,
                                   effectively_cancelled, {s})
        BY WalkGoesDown DEF IInv, Tree, Forest, TypeOK
    <2>5. UNCHANGED <<has_been_entered, active, cancelled_caught, overdue,
                      abandoned, parent, owner, status, current, raised>>
        BY DEF SetShield
    <2> QED
        BY <2>1, <2>2, <2>3, <2>4, <2>5, RecalculateStep
<1>2. CASE s \notin active
    BY <1>2 DEF SetShield, IInv, TypeOK, Tree, Forest, Encloses, UpwardClosed,
        OneStateAtATime, Consistent, NewState, ParentCancellationIsVisible,
        NoLostCancel, HasAbortFunc, AbortKind, CaughtImpliesCancelled
<1> QED
    BY <1>1, <1>2

(***************************************************************************)
(* A pass of Deadlines.expire() keeps the invariant: all its roots are     *)
(* cancelled themselves, so none depends on another's flip.                *)
(***************************************************************************)
LEMMA ExpireStep ==
    ASSUME IInv, Expire
    PROVE  IInv'
<1> DEFINE expired == LateScopes \ cancel_called
           c == cancel_called \cup expired
<1>1. Recalculate(c, shield, parent, effectively_cancelled, status, expired)
    BY DEF Expire
<1>2. c \in SUBSET Scope /\ shield \in SUBSET Scope /\ expired \in SUBSET active
    BY DEF IInv, TypeOK, LateScopes
<1>3. \A x \in active \ expired : x \in effectively_cancelled
          <=> NewState(c, shield, parent, effectively_cancelled, x)
    BY DEF IInv, Consistent, NewState
<1>4. /\ shield' = shield
      /\ UNCHANGED <<has_been_entered, active, cancelled_caught, overdue,
                     abandoned, parent, owner, status, current, raised>>
    BY DEF Expire
<1> QED
    BY <1>1, <1>2, <1>3, <1>4, RecalculateStep

(***************************************************************************)
(* The forest stays one when a status is cut off from its parent.          *)
(***************************************************************************)
LEMMA CutKeepsForest ==
    ASSUME TypeOK, Forest, NEW s \in Scope,
           parent' = [parent EXCEPT ![s] = None]
    PROVE  Forest'
<1>1. \A A \in SUBSET Scope : UpwardClosed(parent, A) => UpwardClosed(parent', A)
    BY DEF UpwardClosed, TypeOK
<1>2. ASSUME NEW x \in Scope, parent'[x] # None
      PROVE  ~Encloses(parent', x, parent'[x])
    <2>1. parent[x] # None /\ parent'[x] = parent[x]
        BY <1>2 DEF TypeOK
    <2>2. ~Encloses(parent, x, parent[x])
        BY <2>1 DEF Forest
    <2> QED
        BY <1>1, <2>1, <2>2 DEF Encloses
<1> QED
    BY <1>2 DEF Forest

(***************************************************************************)
(* _close keeps the invariant, whichever status st it leaves its task in.  *)
(***************************************************************************)
LEMMA CloseScopeStep ==
    ASSUME IInv, NEW t \in Task, t = current, NEW s \in active \ {Root},
           NEW exc \in Exception, NEW st \in [Task -> Scope],
           \A u \in Task \ {t} : st[u] = status[u],
           st[t] \in has_been_entered,
           CloseScope(t, s, exc, st)
    PROVE  IInv'
<1> DEFINE p  == [parent EXCEPT ![s] = None]
           cs == Children(parent, s)
           e  == effectively_cancelled \cup {s}
           ch == Changed(cancel_called \cup LateScopes, shield, p, e, cs)
           T  == {u \in Task : st[u] = s}
<1>0. /\ s \in Scope /\ p \in [Scope -> Scope \cup {None}]
      /\ cs \in SUBSET Scope /\ active \ {s} \in SUBSET Scope
    BY DEF IInv, TypeOK, Children
<1>1. TypeOK'
    BY CloseScopeType
<1>2. /\ parent' = p
      /\ active' = active \ {s}
      /\ status' = st
      /\ UNCHANGED <<has_been_entered, shield, overdue, owner, current>>
    BY DEF CloseScope, CloseStatus
<1>3. Forest'
    BY <1>0, <1>2, CutKeepsForest DEF IInv, Tree
<1>4. s \notin cs /\ (\A x \in cs : p[x] = s /\ x \in active)
    <2>1. parent[s] # s
        BY <1>0, CancelScopeAssumption DEF IInv, Tree, Forest, Encloses
    <2> QED
        BY <1>0, <2>1, CancelScopeAssumption DEF Children, IInv, Tree, TypeOK
<1>5. ch \subseteq Scope /\ ch \subseteq Visited(p, cs, ch)
    BY <1>0, ChangedIsClosed, ChangedIsVisited
<1>6. s \notin ch
    <2>1. p[s] = None
        BY <1>0 DEF IInv, TypeOK
    <2> HIDE DEF p, cs, ch
    <2> QED
        BY <1>4, <1>5, <2>1, CancelScopeAssumption DEF Visited
<1>7. ch \subseteq active
    <2>1. ASSUME NEW x \in Scope, p[x] \in ch
          PROVE  x \in active
        BY <1>0, <1>5, <2>1, CancelScopeAssumption DEF IInv, Tree, TypeOK
    <2> QED
        BY <1>4, <1>5, <2>1 DEF Visited
<1>8. CASE T = {} /\ cs = {}
    <2>1. UNCHANGED <<abandoned, effectively_cancelled, cancel_called, wait,
                      next_send>>
        BY <1>8 DEF CloseScope, CloseStatus
    <2>2. Tree'
        BY <1>0, <1>2, <1>3, <2>1, CancelScopeAssumption DEF IInv, Tree, TypeOK
    <2>3. \A x \in active \ {s} : p[x] = parent[x] /\ parent[x] # s
        BY <1>0, <1>8 DEF Children, IInv, TypeOK
    <2>4. Consistent'
        BY <1>2, <2>1, <2>3 DEF IInv, Consistent, NewState,
            ParentCancellationIsVisible, CloseScope
    <2>5. OneStateAtATime' /\ NoLostCancel'
        BY <1>2, <2>1 DEF IInv, OneStateAtATime, NoLostCancel, HasAbortFunc,
            AbortKind
    <2>6. CaughtImpliesCancelled'
        BY <2>1 DEF CloseScope, CaughtImpliesCancelled, IInv, Remaining,
            Consistent, NewState
    <2> QED
        BY <1>1, <2>2, <2>4, <2>5, <2>6 DEF IInv
<1>9. CASE ~(T = {} /\ cs = {})
    <2> DEFINE c2 == cancel_called \cup (Visited(p, cs, ch) \cap LateScopes)
               U  == T \cup {u \in Task : st[u] \in ch \ e}
    <2>1. effectively_cancelled' = (e \ ch) \cup (ch \ e) /\ Deliver(c2, st, U)
        BY <1>9 DEF CloseScope, CloseStatus
    <2>1a. /\ OneStateAtATime'
           /\ \A u \in Task : HasAbortFunc(u)' => HasAbortFunc(u) /\ u \notin U
           /\ c2 \subseteq cancel_called'
           /\ \A x \in cancel_called' \ c2 : \E u \in U : x = st[u]
        <3>1. U \in SUBSET Task
            OBVIOUS
        <3> HIDE DEF c2, U
        <3> QED
            BY <1>2, <2>1, <3>1, DeliverFacts DEF IInv
    <2>2. Tree'
        <3>1. \A x \in Scope : p[x] = IF x = s THEN None ELSE parent[x]
            BY DEF IInv, TypeOK
        <3> HIDE DEF p, ch
        <3> QED
            BY <1>0, <1>2, <1>3, <1>7, <2>1, <3>1, CancelScopeAssumption
            DEF IInv, Tree, TypeOK
    <2>3. Consistent'
        <3>1. \A x \in (active \ {s}) \ cs :
                 x \in e <=> NewState(cancel_called, shield, p, e, x)
            <4>1. \A x \in (active \ {s}) \ cs :
                     /\ p[x] = parent[x]
                     /\ p[x] \in e <=> parent[x] \in effectively_cancelled
                     /\ x \in e <=> x \in effectively_cancelled
                BY <1>0 DEF Children, IInv, TypeOK
            <4> QED
                BY <4>1 DEF IInv, Consistent, NewState,
                    ParentCancellationIsVisible
        <3>2. \A r \in cs : p[r] \notin ch
            BY <1>4, <1>6
        <3>3. \A x \in active \ {s} :
                 x \in (e \ ch) \cup (ch \ e)
                   <=> NewState(cancel_called \cup (Visited(p, cs, ch) \cap LateScopes),
                                shield, p, (e \ ch) \cup (ch \ e), x)
            <4> DEFINE X == active \ {s}
            <4>1. /\ p \in [Scope -> Scope \cup {None}] /\ cs \in SUBSET Scope
                  /\ X \in SUBSET Scope
                BY <1>0
            <4>2. \A x \in X \ cs :
                     x \in e <=> NewState(cancel_called, shield, p, e, x)
                BY <3>1
            <4>3. \A r \in cs : r \in cancel_called \/ p[r] \notin
                     Changed(cancel_called \cup LateScopes, shield, p, e, cs)
                BY <3>2
            <4> HIDE DEF p, cs, e, X
            <4>4. \A x \in X :
                     x \in (e \ ch) \cup (ch \ e)
                       <=> NewState(cancel_called
                                      \cup (Visited(p, cs, ch) \cap LateScopes),
                                    shield, p, (e \ ch) \cup (ch \ e), x)
                BY <4>1, <4>2, <4>3, RecalculateRepairs
            <4> QED
                BY <4>4 DEF X
        <3>4. \A x \in cancel_called' \ c2 : x \in (e \ ch) \cup (ch \ e)
            <4>1. \A u \in U : st[u] \in (e \ ch) \cup (ch \ e)
                <5> HIDE DEF ch
                <5> QED
                    BY <1>6
            <4> HIDE DEF ch, c2, U
            <4> QED
                BY <2>1a, <4>1
        <3>5. \A x \in active \ {s} :
                 x \in (e \ ch) \cup (ch \ e)
                   <=> NewState(cancel_called', shield, p, (e \ ch) \cup (ch \ e), x)
            <4> DEFINE e2 == (e \ ch) \cup (ch \ e)
                       X  == active \ {s}
            <4>1. /\ c2 \subseteq cancel_called'
                  /\ \A x \in cancel_called' \ c2 : x \in e2
                  /\ \A x \in X : x \in e2 <=> NewState(c2, shield, p, e2, x)
                BY <2>1a, <3>3, <3>4
            <4> HIDE DEF e2, c2, p, X
            <4>2. \A x \in X : x \in e2 <=> NewState(cancel_called', shield, p, e2, x)
                BY <4>1, CancelAgain
            <4> QED
                BY <4>2 DEF e2, X
        <3> QED
            BY <1>2, <2>1, <3>5 DEF Consistent
    <2>4. NoLostCancel'
        <3>1. ~HasAbortFunc(t)
            BY DEF IInv, OneStateAtATime, HasAbortFunc, AbortKind
        <3> QED
            BY <1>2, <2>1, <2>1a, <3>1, ZenonT(30) DEF IInv, NoLostCancel
    <2>5. CaughtImpliesCancelled'
        BY <2>1a DEF CloseScope, CaughtImpliesCancelled, IInv, Remaining,
            Consistent, NewState
    <2> QED
        BY <1>1, <2>1a, <2>2, <2>3, <2>4, <2>5 DEF IInv
<1> QED
    BY <1>8, <1>9

(***************************************************************************)
(* __enter__ puts a fresh leaf under the status of the running task.       *)
(***************************************************************************)
LEMMA EnterStep ==
    ASSUME IInv, NEW t \in Task, NEW s \in Scope, Enter(t, s)
    PROVE  IInv'
<1> DEFINE q == status[t]
           c == IF s \in overdue THEN cancel_called \cup {s} ELSE cancel_called
           p == [parent EXCEPT ![s] = q]
<1>0. /\ current = t /\ s \notin has_been_entered /\ s \notin active
      /\ q \in has_been_entered /\ q \in Scope /\ q # s
      /\ parent[s] = None /\ s \notin effectively_cancelled
      /\ \A x \in Scope : parent[x] # s
    BY CancelScopeAssumption DEF Enter, Used, IInv, Tree, TypeOK
<1>1. /\ cancel_called' = c
      /\ parent' = p
      /\ has_been_entered' = has_been_entered \cup {s}
      /\ active' = active \cup {s}
      /\ status' = [status EXCEPT ![t] = s]
      /\ UNCHANGED <<shield, cancelled_caught, overdue, abandoned, current, wait,
                     next_send, raised>>
      /\ effectively_cancelled' =
            IF NewState(c, shield, p, effectively_cancelled, s)
            THEN effectively_cancelled \cup {s} ELSE effectively_cancelled
    BY DEF Enter
<1>2. p \in [Scope -> Scope \cup {None}]
      /\ \A x \in Scope : p[x] = IF x = s THEN q ELSE parent[x]
    BY <1>0 DEF IInv, TypeOK
<1>3. TypeOK'
    BY <1>0, <1>1, <1>2 DEF IInv, TypeOK, Enter
<1>4. Forest'
    <2>1. ASSUME NEW x \in Scope, p[x] # None
          PROVE  ~Encloses(p, x, p[x])
        <3>1. PICK A \in SUBSET Scope :
                 p[x] \in A /\ x \notin A /\ UpwardClosed(parent, A)
            <4>1. CASE x = s
                <5> DEFINE B == {y \in Scope : y \in has_been_entered}
                <5>1. UpwardClosed(parent, B)
                    BY DEF UpwardClosed, IInv, Tree, TypeOK
                <5>2. B \in SUBSET Scope /\ q \in B /\ s \notin B
                    BY <1>0
                <5>3. p[x] = q
                    BY <1>2, <4>1
                <5> HIDE DEF B, p, q
                <5> QED
                    BY <4>1, <5>1, <5>2, <5>3
            <4>2. CASE x # s
                BY <1>2, <2>1, <4>2 DEF IInv, Tree, Forest, Encloses
            <4> QED
                BY <4>1, <4>2
        <3> DEFINE B == A \ {s}
        <3>2. p[x] # s
            BY <1>0, <1>2
        <3>3. UpwardClosed(p, B)
            BY <1>0, <1>2, <3>1 DEF UpwardClosed
        <3> QED
            BY <3>1, <3>2, <3>3 DEF Encloses
    <2> QED
        BY <1>1, <2>1 DEF Forest
<1> HIDE DEF p
<1>5. Tree'
    BY <1>0, <1>1, <1>2, <1>4, CancelScopeAssumption DEF IInv, Tree, TypeOK
<1>6. Consistent'
    <2>1. ASSUME NEW x \in active
          PROVE  x \in effectively_cancelled'
                   <=> NewState(c, shield, p, effectively_cancelled', x)
        BY <1>0, <1>1, <1>2
        DEF IInv, Consistent, NewState, ParentCancellationIsVisible, TypeOK
    <2>2. s \in effectively_cancelled'
            <=> NewState(c, shield, p, effectively_cancelled', s)
        BY <1>0, <1>1, <1>2 DEF NewState, ParentCancellationIsVisible
    <2> QED
        BY <1>1, <2>1, <2>2 DEF Consistent
<1>7. OneStateAtATime'
    BY <1>1 DEF IInv, OneStateAtATime
<1>8. NoLostCancel'
    BY <1>0, <1>1 DEF IInv, NoLostCancel, HasAbortFunc, AbortKind,
        OneStateAtATime, Tree, TypeOK
<1>9. CaughtImpliesCancelled'
    BY <1>1 DEF IInv, CaughtImpliesCancelled
<1> QED
    BY <1>3, <1>5, <1>6, <1>7, <1>8, <1>9 DEF IInv

(***************************************************************************)
(* Steps that leave the scopes alone.                                      *)
(***************************************************************************)
LEMMA TaskOnlyStep ==
    ASSUME IInv, UNCHANGED scopeVars, TypeOK', OneStateAtATime', NoLostCancel',
           \A t \in Task : status'[t] \in has_been_entered
    PROVE  IInv'
BY DEF IInv, scopeVars, Tree, Forest, Encloses, UpwardClosed, Consistent,
    NewState, ParentCancellationIsVisible, CaughtImpliesCancelled

(***************************************************************************)
(* Raising an exception in a block gives a block's record a legal value.   *)
(***************************************************************************)
LEMMA RaiseType ==
    ASSUME TypeOK, NEW b, NEW exc \in Exception, Raise(b, exc)
    PROVE  raised' \in [Scope \cup Task -> Exception]
<1>1. raised \in [Scope \cup Task -> Exception]
    BY DEF TypeOK
<1> QED
    BY <1>1 DEF Raise

(***************************************************************************)
(* A new task starts in the parent's status, which has been entered.       *)
(***************************************************************************)
LEMMA SpawnStep ==
    ASSUME IInv, NEW u \in Task, NEW s \in Scope, Spawn(u, s)
    PROVE  IInv'
<1>1. TypeOK'
    BY DEF Spawn, IInv, TypeOK, scopeVars
<1>2. OneStateAtATime' /\ NoLostCancel'
    BY DEF Spawn, Unborn, IInv, TypeOK, scopeVars, OneStateAtATime, NoLostCancel,
        HasAbortFunc, AbortKind
<1>3. UNCHANGED scopeVars /\ \A t \in Task : status'[t] \in has_been_entered
    BY DEF Spawn, IInv, Tree, TypeOK
<1> QED
    BY <1>1, <1>2, <1>3, TaskOnlyStep

(***************************************************************************)
(* The loop takes up a runnable task; its outcome is used up.              *)
(***************************************************************************)
LEMMA ResumeStep ==
    ASSUME IInv, NEW t \in Task, Resume(t)
    PROVE  IInv'
<1>1. TypeOK'
    <2>1. raised' \in [Scope \cup Task -> Exception]
        BY RaiseType DEF Resume, IInv, Exception
    <2> QED
        BY <2>1 DEF Resume, IInv, TypeOK, scopeVars
<1>2. OneStateAtATime' /\ NoLostCancel'
    BY DEF Resume, IInv, TypeOK, scopeVars, OneStateAtATime, NoLostCancel,
        HasAbortFunc, AbortKind
<1>3. UNCHANGED scopeVars /\ \A u \in Task : status'[u] \in has_been_entered
    BY DEF Resume, IInv, Tree
<1> QED
    BY <1>1, <1>2, <1>3, TaskOnlyStep

(***************************************************************************)
(* wait_task_rescheduled() keeps the invariant: a cancellation that is     *)
(* pending when the task blocks is delivered at once.                      *)
(***************************************************************************)
LEMMA WaitStep ==
    ASSUME IInv, NEW t \in Task, NEW k \in AbortKind, WaitTaskRescheduled(t, k)
    PROVE  IInv'
<1>1. TypeOK'
    BY DEF WaitTaskRescheduled, AfterAbort, IInv, TypeOK, Wait, AbortKind
<1>2. OneStateAtATime' /\ NoLostCancel'
    BY CancelScopeAssumption DEF WaitTaskRescheduled, AfterAbort, IInv, TypeOK,
        OneStateAtATime, NoLostCancel, HasAbortFunc, AbortKind
<1>3. Tree'
    BY DEF WaitTaskRescheduled, IInv, Tree, Forest, Encloses, UpwardClosed
<1>4. Consistent'
    BY DEF WaitTaskRescheduled, IInv, Consistent, NewState,
        ParentCancellationIsVisible
<1>5. CaughtImpliesCancelled'
    BY DEF WaitTaskRescheduled, IInv, CaughtImpliesCancelled
<1> QED
    BY <1>1, <1>2, <1>3, <1>4, <1>5 DEF IInv

(***************************************************************************)
(* The other steps of a task keep the invariant.                           *)
(***************************************************************************)
LEMMA OtherTaskStep ==
    ASSUME IInv, NEW t \in Task,
           \/ CancelShieldedCheckpoint(t)
           \/ \E o \in {"Value", "Cancelled"} : Reschedule(t, o)
           \/ UserCode(t)
    PROVE  IInv'
<1>1. UNCHANGED scopeVars /\ \A u \in Task : status'[u] \in has_been_entered
    BY DEF CancelShieldedCheckpoint, Reschedule, UserCode, IInv, Tree
<1>2. CASE CancelShieldedCheckpoint(t)
    <2>1. TypeOK' /\ OneStateAtATime' /\ NoLostCancel'
        BY <1>2, CancelScopeAssumption DEF CancelShieldedCheckpoint, IInv, TypeOK, scopeVars,
            OneStateAtATime, NoLostCancel, HasAbortFunc,
            AbortKind
    <2> QED
        BY <1>1, <2>1, TaskOnlyStep
<1>3. CASE \E o \in {"Value", "Cancelled"} : Reschedule(t, o)
    <2>1. TypeOK' /\ OneStateAtATime' /\ NoLostCancel'
        BY <1>3 DEF Reschedule, IInv, TypeOK, scopeVars, OneStateAtATime,
            NoLostCancel, HasAbortFunc, AbortKind, Wait
    <2> QED
        BY <1>1, <2>1, TaskOnlyStep
<1>4. CASE UserCode(t)
    <2>1. raised' \in [Scope \cup Task -> Exception]
        <3> DEFINE b == Block(status, owner, t)
        <3>1. PICK exc \in {{}, {"Error"}} :
                 raised' = [raised EXCEPT ![b] = exc]
            BY <1>4 DEF UserCode
        <3>2. raised \in [Scope \cup Task -> Exception]
            BY DEF IInv, TypeOK
        <3>3. exc \in Exception
            BY <3>1 DEF Exception
        <3> HIDE DEF b
        <3> QED
            BY <3>1, <3>2, <3>3
    <2>2. TypeOK' /\ OneStateAtATime' /\ NoLostCancel'
        BY <1>4, <2>1 DEF UserCode, IInv, TypeOK, scopeVars, OneStateAtATime,
            NoLostCancel, HasAbortFunc,
            AbortKind
    <2> QED
        BY <1>1, <2>2, TaskOnlyStep
<1> QED
    BY <1>2, <1>3, <1>4

(***************************************************************************)
(* The calls that are refused change nothing but the exception in flight.  *)
(***************************************************************************)
LEMMA RefusedStep ==
    ASSUME IInv, NEW t \in Task, NEW s \in Scope,
           EnterAgain(t, s) \/ ExitRefused(t, s)
    PROVE  IInv'
<1>1. /\ UNCHANGED <<scopeVars, status, current, wait, next_send>>
      /\ Raise(Block(status, owner, t), {"Error"})
    BY DEF EnterAgain, ExitRefused
<1>2. raised' \in [Scope \cup Task -> Exception]
    BY <1>1, RaiseType DEF IInv, Exception
<1>3. TypeOK' /\ OneStateAtATime' /\ NoLostCancel'
    BY <1>1, <1>2 DEF IInv, TypeOK, scopeVars, OneStateAtATime, NoLostCancel,
        HasAbortFunc, AbortKind
<1>4. \A u \in Task : status'[u] \in has_been_entered
    BY <1>1 DEF IInv, Tree
<1> QED
    BY <1>1, <1>3, <1>4, TaskOnlyStep

(***************************************************************************)
(* __exit__ keeps the invariant in each of its cases: well nested,         *)
(* abandoned, and mis-nested.                                              *)
(***************************************************************************)
LEMMA ExitStep ==
    ASSUME IInv, NEW t \in Task, NEW s \in Scope,
           Exit(t, s) \/ ExitAbandoned(t, s) \/ ExitMisnested(t, s)
    PROVE  IInv'
<1> DEFINE out == [status EXCEPT ![t] = parent[s]]
<1>1. t = current /\ s \in active \ {Root}
    BY DEF Exit, ExitAbandoned, ExitMisnested
<1>2. /\ out \in [Task -> Scope]
      /\ out[t] \in has_been_entered
      /\ \A u \in Task \ {t} : out[u] = status[u]
    BY <1>1 DEF IInv, Tree, TypeOK
<1>3. /\ status \in [Task -> Scope]
      /\ status[t] \in has_been_entered
    BY DEF IInv, Tree, TypeOK
<1>4. InFlight(t) \in Exception /\ {"Error"} \in Exception
    <2>1. Block(status, owner, t) \in Scope \cup Task
        BY DEF Block, IInv, TypeOK
    <2>2. raised \in [Scope \cup Task -> Exception]
        BY DEF IInv, TypeOK
    <2> QED
        BY <2>1, <2>2 DEF InFlight, Exception
<1> HIDE DEF out
<1>5. CASE Exit(t, s)
    <2>1. CloseScope(t, s, InFlight(t), out)
        BY <1>5 DEF Exit, out
    <2> QED
        BY <1>1, <1>2, <1>4, <2>1, CloseScopeStep
<1>6. CASE ExitAbandoned(t, s)
    <2>1. CloseScope(t, s, InFlight(t), status)
        BY <1>6 DEF ExitAbandoned
    <2> QED
        BY <1>1, <1>3, <1>4, <2>1, CloseScopeStep
<1>7. CASE ExitMisnested(t, s)
    <2>1. CloseScope(t, s, {"Error"}, out)
        BY <1>7 DEF ExitMisnested, out
    <2> QED
        BY <1>1, <1>2, <1>4, <2>1, CloseScopeStep
<1> QED
    BY <1>5, <1>6, <1>7

(***************************************************************************)
(* The invariant holds in the initial states.                              *)
(***************************************************************************)
LEMMA InitInv == Init => IInv
<1> SUFFICES ASSUME Init
             PROVE  IInv
    OBVIOUS
<1>1. TypeOK
    <2>1. {} \in Exception
        BY DEF Exception
    <2>2. raised \in [Scope \cup Task -> Exception]
        BY <2>1 DEF Init
    <2> QED
        BY <2>2, CancelScopeAssumption DEF Init, TypeOK, Wait
<1> QED
    BY <1>1, CancelScopeAssumption DEF Init, IInv, Tree, Forest, OneStateAtATime,
        Consistent, NewState, ParentCancellationIsVisible, NoLostCancel,
        HasAbortFunc, AbortKind, CaughtImpliesCancelled

(***************************************************************************)
(* Every step keeps the invariant: one case per operation.                 *)
(***************************************************************************)
LEMMA NextInv == IInv /\ [Next]_vars => IInv'
<1> SUFFICES ASSUME IInv, [Next]_vars
             PROVE  IInv'
    OBVIOUS
<1>1. CASE \E t \in Task : TaskStep(t)
    BY <1>1, ResumeStep, WaitStep, OtherTaskStep DEF TaskStep
<1>2. CASE \E t \in Task, s \in Scope : ScopeStep(t, s)
    BY <1>2, SpawnStep, EnterStep, ExitStep, RefusedStep DEF ScopeStep
<1>3. CASE \E s \in Scope : Cancel(s)
    BY <1>3, CancelStep
<1>4. CASE \E s \in Shielding : SetShield(s)
    BY <1>4, SetShieldStep, CancelScopeAssumption
<1>5. CASE \E s \in Deadlined : MoveDeadline(s)
    BY <1>5, CancelScopeAssumption
    DEF MoveDeadline, taskVars, IInv, TypeOK, Tree, Forest, Encloses,
        UpwardClosed, OneStateAtATime, Consistent, NewState,
        ParentCancellationIsVisible, NoLostCancel, HasAbortFunc,
        CaughtImpliesCancelled
<1>6. CASE Expire
    BY <1>6, ExpireStep
<1>7. CASE UNCHANGED vars
    BY <1>7 DEF vars, scopeVars, taskVars, IInv, TypeOK, Tree, Forest, Encloses,
        UpwardClosed, OneStateAtATime, Consistent, NewState,
        ParentCancellationIsVisible, NoLostCancel, HasAbortFunc,
        CaughtImpliesCancelled
<1> QED
    BY <1>1, <1>2, <1>3, <1>4, <1>5, <1>6, <1>7 DEF Next

(***************************************************************************)
(* So it is an invariant.                                                  *)
(***************************************************************************)
LEMMA Invariance == Spec => []IInv
BY InitInv, NextInv, PTL DEF Spec

--------------------------------------------------------------------------------
(***************************************************************************)
(* Every variable keeps its type.                                          *)
(***************************************************************************)
THEOREM TypeCorrect == Spec => []TypeOK
<1>1. IInv => TypeOK
    BY DEF IInv
<1> QED
    BY <1>1, Invariance, PTL

(***************************************************************************)
(* recalculate() keeps effectively_cancelled in agreement with the scope   *)
(* and the parent of every active status, through any sequence of          *)
(* __enter__, __exit__ (mis-nested or not), cancel, shield changes and     *)
(* deadline expiry.                                                        *)
(***************************************************************************)
THEOREM CancellationConsistent == Spec => []Consistent
<1>1. IInv => Consistent
    BY DEF IInv
<1> QED
    BY <1>1, Invariance, PTL

(***************************************************************************)
(* No task sleeps through a cancellation: wherever _abort_func is set, the *)
(* task's status is not cancelled.                                         *)
(***************************************************************************)
THEOREM CancelNotLost == Spec => []NoLostCancel
<1>1. IInv => NoLostCancel
    BY DEF IInv
<1> QED
    BY <1>1, Invariance, PTL

(***************************************************************************)
(* The links _parent never form a cycle, even after mis-nested exits, so   *)
(* encloses() and recalculate() come to an end.                            *)
(***************************************************************************)
THEOREM StatusesFormAForest == Spec => []Forest
<1>1. IInv => Forest
    BY DEF IInv, Tree
<1> QED
    BY <1>1, Invariance, PTL

(***************************************************************************)
(* cancelled_caught is only ever set on a scope that was cancelled itself. *)
(***************************************************************************)
THEOREM CaughtWasCancelled == Spec => []CaughtImpliesCancelled
<1>1. IInv => CaughtImpliesCancelled
    BY DEF IInv
<1> QED
    BY <1>1, Invariance, PTL

(***************************************************************************)
(* Delivering a cancellation leaves alone every task that already has an   *)
(* outcome to be sent.                                                     *)
(***************************************************************************)
LEMMA DeliverSends ==
    ASSUME IInv, NEW c, NEW st, NEW T, Deliver(c, st, T), NEW t \in Task,
           next_send[t] # "none"
    PROVE  next_send'[t] = next_send[t]
BY DEF IInv, OneStateAtATime, TypeOK, Deliver

(***************************************************************************)
(* A waiting outcome changes in one step only, the one in which the loop   *)
(* takes up its task.                                                      *)
(***************************************************************************)
LEMMA SentOnceStep ==
    ASSUME IInv, Next, NEW t \in Task, next_send[t] # "none",
           next_send'[t] # next_send[t]
    PROVE  next_send'[t] = "none" /\ current' = t
<1>0. /\ wait[t] = "none" /\ t # current
      /\ next_send \in [Task -> {"none", "Value", "Cancelled"}]
    BY DEF IInv, OneStateAtATime, TypeOK
<1>1. ASSUME NEW c, NEW st, NEW T, Deliver(c, st, T)
      PROVE  FALSE
    BY <1>1, DeliverSends
<1>2. CASE \E u \in Task : TaskStep(u)
    BY <1>0, <1>2 DEF TaskStep, Resume, WaitTaskRescheduled, Reschedule,
        CancelShieldedCheckpoint, UserCode
<1>3. CASE \E u \in Task, s \in Scope : ScopeStep(u, s)
    BY <1>0, <1>1, <1>3 DEF ScopeStep, Spawn, Unborn, Enter, EnterAgain, Exit,
        ExitAbandoned, ExitMisnested, ExitRefused, CloseScope, CloseStatus
<1>4. CASE \E s \in Scope : Cancel(s)
    BY <1>1, <1>4 DEF Cancel, Recalculate
<1>5. CASE \E s \in Shielding : SetShield(s)
    BY <1>1, <1>5 DEF SetShield, Recalculate
<1>6. CASE \E s \in Deadlined : MoveDeadline(s)
    BY <1>6 DEF MoveDeadline, taskVars
<1>7. CASE Expire
    BY <1>1, <1>7 DEF Expire, Recalculate
<1> QED
    BY <1>2, <1>3, <1>4, <1>5, <1>6, <1>7 DEF Next

(***************************************************************************)
(* The assertion in reschedule() never fails: an outcome waiting to be     *)
(* sent to a task is not replaced before the task runs.                    *)
(***************************************************************************)
THEOREM OutcomeSentOnce == Spec => SentOnce
<1>1. IInv /\ [Next]_vars =>
         [\A t \in Task : next_send[t] # "none" /\ next_send'[t] # next_send[t]
              => next_send'[t] = "none" /\ current' = t]_vars
    <2>1. CASE UNCHANGED vars
        BY <2>1
    <2>2. ASSUME IInv, Next
          PROVE  \A t \in Task :
                    next_send[t] # "none" /\ next_send'[t] # next_send[t]
                        => next_send'[t] = "none" /\ current' = t
        BY <2>2, SentOnceStep
    <2> QED
        BY <2>1, <2>2
<1> QED
    BY <1>1, Invariance, PTL DEF Spec, SentOnce

--------------------------------------------------------------------------------
(***************************************************************************)
(* Lemmas about encloses().  Each is proved by giving a set of statuses    *)
(* that goes on to the parents, never by following the links.              *)
(***************************************************************************)

(***************************************************************************)
(* A status encloses itself, and so does its parent.                       *)
(***************************************************************************)
LEMMA EnclosesSelf ==
    ASSUME NEW p, NEW x
    PROVE  /\ Encloses(p, x, x)
           /\ x \in Scope /\ p[x] # None => Encloses(p, p[x], x)
BY DEF Encloses, UpwardClosed

(***************************************************************************)
(* What encloses a status encloses all that this one encloses.             *)
(***************************************************************************)
LEMMA EnclosesTransitive ==
    ASSUME NEW p, NEW a, NEW b, NEW x, Encloses(p, a, b), Encloses(p, b, x)
    PROVE  Encloses(p, a, x)
BY DEF Encloses

(***************************************************************************)
(* What encloses a status from outside encloses its parent.                *)
(***************************************************************************)
LEMMA EnclosesStep ==
    ASSUME NEW p \in [Scope -> Scope \cup {None}], NEW a \in Scope,
           NEW x \in Scope, Encloses(p, a, x), a # x
    PROVE  p[x] \in Scope /\ p[x] # None /\ Encloses(p, a, p[x])
<1>1. p[x] # None
    <2>1. SUFFICES ASSUME p[x] = None PROVE FALSE
        OBVIOUS
    <2>2. UpwardClosed(p, {x}) /\ {x} \in SUBSET Scope
        BY <2>1 DEF UpwardClosed
    <2> QED
        BY <2>2 DEF Encloses
<1>2. ASSUME NEW A \in SUBSET Scope, p[x] \in A, UpwardClosed(p, A)
      PROVE  a \in A
    <2>1. UpwardClosed(p, A \cup {x}) /\ A \cup {x} \in SUBSET Scope
        BY <1>2 DEF UpwardClosed
    <2> QED
        BY <2>1 DEF Encloses
<1> QED
    BY <1>1, <1>2 DEF Encloses

(***************************************************************************)
(* What encloses a status other than itself is somebody's parent.          *)
(***************************************************************************)
LEMMA EnclosesHasChild ==
    ASSUME NEW p \in [Scope -> Scope \cup {None}], NEW a \in Scope,
           NEW x \in Scope, Encloses(p, a, x), a # x
    PROVE  \E y \in Scope : p[y] = a
<1> SUFFICES ASSUME \A y \in Scope : p[y] # a
             PROVE  FALSE
    OBVIOUS
<1>1. UpwardClosed(p, Scope \ {a}) /\ Scope \ {a} \in SUBSET Scope
    BY DEF UpwardClosed
<1> QED
    BY <1>1 DEF Encloses

(***************************************************************************)
(* Two statuses that enclose a third are one above the other.              *)
(***************************************************************************)
LEMMA EnclosesChain ==
    ASSUME NEW p \in [Scope -> Scope \cup {None}], NEW a \in Scope,
           NEW b \in Scope, NEW x \in Scope,
           Encloses(p, a, x), Encloses(p, b, x)
    PROVE  Encloses(p, a, b) \/ Encloses(p, b, a)
<1> SUFFICES ASSUME ~Encloses(p, a, b), ~Encloses(p, b, a)
             PROVE  FALSE
    OBVIOUS
<1> DEFINE D == {y \in Scope : Encloses(p, a, y) /\ Encloses(p, b, y)}
<1>1. x \in D /\ a \notin D /\ b \notin D /\ D \in SUBSET Scope
    OBVIOUS
<1>2. UpwardClosed(p, D)
    <2>1. ASSUME NEW y \in D
          PROVE  p[y] \in D
        <3>1. y \in Scope /\ y # a /\ y # b /\ Encloses(p, a, y) /\ Encloses(p, b, y)
            BY <1>1, <2>1
        <3>2. p[y] \in Scope /\ Encloses(p, a, p[y]) /\ Encloses(p, b, p[y])
            BY <3>1, EnclosesStep
        <3> QED
            BY <3>2
    <2> QED
        BY <2>1 DEF UpwardClosed
<1> QED
    BY <1>1, <1>2 DEF Encloses

(***************************************************************************)
(* In every set of statuses one has its parent outside: the links go       *)
(* nowhere for ever.                                                       *)
(***************************************************************************)
Grounded(p) == \A A \in SUBSET Scope : A # {} => \E x \in A : p[x] \notin A

(***************************************************************************)
(* In such a tree no status is below itself.                               *)
(***************************************************************************)
LEMMA GroundedNoCycle ==
    ASSUME NEW p \in [Scope -> Scope \cup {None}], Grounded(p),
           NEW x \in Scope, p[x] # None
    PROVE  ~Encloses(p, x, p[x])
<1> SUFFICES ASSUME Encloses(p, x, p[x])
             PROVE  FALSE
    OBVIOUS
<1> DEFINE D == {y \in Scope : Encloses(p, x, y) /\ Encloses(p, y, x)}
<1>1. x \in D /\ D \in SUBSET Scope
    BY EnclosesSelf
<1>2. ASSUME NEW y \in D
      PROVE  p[y] \in D
    <2>1. CASE y = x
        BY <2>1, EnclosesSelf
    <2>2. CASE y # x
        <3>1. p[y] \in Scope /\ p[y] # None /\ Encloses(p, x, p[y])
            BY <2>2, EnclosesStep
        <3>2. Encloses(p, p[y], x)
            BY <3>1, EnclosesSelf, EnclosesTransitive
        <3> QED
            BY <3>1, <3>2
    <2> QED
        BY <2>1, <2>2
<1> HIDE DEF D
<1> QED
    BY <1>1, <1>2 DEF Grounded

(***************************************************************************)
(* Two statuses that enclose each other are the same.                      *)
(***************************************************************************)
LEMMA EnclosesAntisymmetric ==
    ASSUME NEW p \in [Scope -> Scope \cup {None}], Grounded(p),
           NEW a \in Scope, NEW b \in Scope, Encloses(p, a, b), Encloses(p, b, a)
    PROVE  a = b
<1> SUFFICES ASSUME a # b
             PROVE  FALSE
    OBVIOUS
<1>1. p[a] # None /\ Encloses(p, b, p[a])
    BY EnclosesStep
<1>2. Encloses(p, a, p[a])
    BY <1>1, EnclosesTransitive
<1> QED
    BY <1>1, <1>2, GroundedNoCycle

--------------------------------------------------------------------------------
(***************************************************************************)
(* What effectively_cancelled promises follows from its local form, given  *)
(* that the links are grounded and that a status whose scope was closed    *)
(* around a task or a child is cancelled for good.                         *)
(***************************************************************************)
Orphans ==
    \A s \in Scope \ active :
        (\E t \in Task : status[t] = s) \/ Children(parent, s) # {}
            => s \in effectively_cancelled

Settled == Grounded(parent) /\ Orphans

(***************************************************************************)
(* A cancellation that reaches a status is seen there: otherwise the       *)
(* statuses on the way that do not see it would go on past its origin.     *)
(***************************************************************************)
LEMMA ReachedIsCancelled ==
    ASSUME IInv, Settled, NEW s \in Scope, InUse(s), CancellationReaches(s)
    PROVE  s \in effectively_cancelled
<1>0. parent \in [Scope -> Scope \cup {None}] /\ active \subseteq Scope
    BY DEF IInv, TypeOK
<1>1. PICK a \in Scope :
         /\ Encloses(parent, a, s)
         /\ a \in cancel_called \/ a \notin active
         /\ \A x \in Scope :
               Encloses(parent, a, x) /\ Encloses(parent, x, s) /\ x # a
                   => x \notin shield
    BY DEF CancellationReaches
<1>2. a \in effectively_cancelled
    <2>1. CASE a \in active
        BY <1>1, <2>1 DEF IInv, Consistent, NewState
    <2>2. CASE a \notin active /\ a = s
        BY <2>2 DEF Settled, Orphans, InUse
    <2>3. CASE a \notin active /\ a # s
        <3>1. Children(parent, a) # {}
            BY <1>0, <1>1, <2>3, EnclosesHasChild DEF Children
        <3> QED
            BY <2>3, <3>1 DEF Settled, Orphans
    <2> QED
        BY <2>1, <2>2, <2>3
<1> SUFFICES ASSUME s \notin effectively_cancelled
             PROVE  FALSE
    OBVIOUS
<1> DEFINE Blind  == {x \in Scope : /\ Encloses(parent, x, s)
                                    /\ Encloses(parent, a, x)
                                    /\ x \notin effectively_cancelled}
           Beyond == {x \in Scope : Encloses(parent, x, s) /\ ~Encloses(parent, a, x)}
           B == Blind \cup Beyond
<1>3. s \in B /\ a \notin B /\ B \in SUBSET Scope
    BY <1>1, <1>2, EnclosesSelf
<1>4. ASSUME NEW x \in B, parent[x] # None
      PROVE  parent[x] \in B
    <2>1. x \in Scope /\ parent[x] \in Scope /\ Encloses(parent, parent[x], s)
        BY <1>0, <1>4, EnclosesSelf, EnclosesTransitive
    <2>2. CASE x \in Blind
        <3>1. x # a /\ Encloses(parent, a, parent[x])
            BY <1>0, <1>2, <2>1, <2>2, EnclosesStep
        <3>2. x \in active /\ x \notin shield
            BY <1>1, <1>4, <2>1, <2>2, <3>1 DEF IInv, Tree
        <3>3. parent[x] \notin effectively_cancelled
            BY <1>4, <2>2, <3>2 DEF IInv, Consistent, NewState,
                ParentCancellationIsVisible
        <3> QED
            BY <2>1, <3>1, <3>3
    <2>3. CASE x \in Beyond
        <3>1. ~Encloses(parent, a, parent[x])
            BY <1>4, <2>1, <2>3, EnclosesSelf, EnclosesTransitive
        <3> QED
            BY <2>1, <3>1
    <2> QED
        BY <1>4, <2>2, <2>3
<1>5. UpwardClosed(parent, B)
    BY <1>4 DEF UpwardClosed
<1> HIDE DEF B
<1> QED
    BY <1>1, <1>3, <1>5 DEF Encloses

(***************************************************************************)
(* Conversely, a cancelled status is reached by some cancellation:         *)
(* otherwise each cancelled status above it would have its cancellation    *)
(* from the next one, and so on without end.                               *)
(***************************************************************************)
LEMMA CancelledIsReached ==
    ASSUME IInv, Settled, NEW s \in Scope, s \in effectively_cancelled
    PROVE  CancellationReaches(s)
<1>0. /\ parent \in [Scope -> Scope \cup {None}] /\ active \subseteq Scope
      /\ Grounded(parent)
    BY DEF IInv, TypeOK, Settled
<1> DEFINE Open(x) == \A y \in Scope :
                         Encloses(parent, x, y) /\ Encloses(parent, y, s) /\ y # x
                             => y \notin shield
<1> SUFFICES ASSUME ~CancellationReaches(s)
             PROVE  FALSE
    OBVIOUS
<1> DEFINE M == {x \in Scope : /\ Encloses(parent, x, s)
                               /\ x \in effectively_cancelled
                               /\ Open(x)}
<1>1. s \in M /\ M \in SUBSET Scope
    <2>1. Open(s)
        BY <1>0, EnclosesAntisymmetric
    <2> QED
        BY <2>1, EnclosesSelf
<1>2. ASSUME NEW x \in M
      PROVE  parent[x] \in M
    <2>1. x \in Scope /\ x \in active /\ x \notin cancel_called
        BY <1>2 DEF CancellationReaches
    <2>2. /\ parent[x] # None /\ x \notin shield
          /\ parent[x] \in effectively_cancelled
        BY <1>2, <2>1 DEF IInv, Consistent, NewState, ParentCancellationIsVisible
    <2>3. parent[x] \in Scope /\ Encloses(parent, parent[x], s)
        BY <1>0, <1>2, <2>1, <2>2, EnclosesSelf, EnclosesTransitive
    <2>4. ASSUME NEW y \in Scope, Encloses(parent, parent[x], y),
                 Encloses(parent, y, s), y # parent[x]
          PROVE  y \notin shield
        <3>1. CASE y = x
            BY <2>2, <3>1
        <3>2. CASE y # x /\ Encloses(parent, x, y)
            BY <1>2, <2>4, <3>2
        <3>3. CASE y # x /\ Encloses(parent, y, x)
            <4>1. Encloses(parent, y, parent[x])
                BY <1>0, <2>1, <3>3, EnclosesStep
            <4> QED
                BY <1>0, <2>3, <2>4, <4>1, EnclosesAntisymmetric
        <3> QED
            BY <1>0, <1>2, <2>1, <2>4, <3>1, <3>2, <3>3, EnclosesChain
    <2> QED
        BY <2>2, <2>3, <2>4
<1> HIDE DEF M
<1> QED
    BY <1>0, <1>1, <1>2 DEF Grounded

(***************************************************************************)
(* A step that leaves the links alone, cancels no status whose scope is    *)
(* closed and moves tasks into open scopes only.                           *)
(***************************************************************************)
LEMMA SettledSameTree ==
    ASSUME Settled, parent' = parent, active' = active,
           \A x \in Scope \ active :
               x \in effectively_cancelled => x \in effectively_cancelled',
           \A t \in Task : status'[t] = status[t] \/ status'[t] \in active
    PROVE  Settled'
BY DEF Settled, Grounded, Orphans, Children

(***************************************************************************)
(* recalculate() on open scopes flips open scopes only.                    *)
(***************************************************************************)
LEMMA RecalculateStaysOpen ==
    ASSUME TypeOK, Tree, NEW c, NEW sh, NEW st, NEW R \in SUBSET active,
           Recalculate(c, sh, parent, effectively_cancelled, st, R)
    PROVE  \A x \in Scope \ active :
               x \in effectively_cancelled' <=> x \in effectively_cancelled
<1> DEFINE ch == Changed(c \cup LateScopes, sh, parent, effectively_cancelled, R)
<1>1. R \in SUBSET Scope /\ parent \in [Scope -> Scope \cup {None}]
    BY DEF TypeOK
<1>2. ch \subseteq Scope /\ ch \subseteq Visited(parent, R, ch)
    BY <1>1, ChangedIsClosed, ChangedIsVisited
<1>3. effectively_cancelled' = (effectively_cancelled \ ch) \cup (ch \ effectively_cancelled)
    BY DEF Recalculate
<1> HIDE DEF ch
<1>4. ch \subseteq active
    <2>1. ASSUME NEW x \in Scope, parent[x] \in ch
          PROVE  x \in active
        BY <1>2, <2>1, CancelScopeAssumption DEF Tree
    <2> QED
        BY <1>2, <2>1 DEF Visited
<1> QED
    BY <1>3, <1>4

(***************************************************************************)
(* __enter__ adds a leaf.                                                  *)
(***************************************************************************)
LEMMA EnterSettled ==
    ASSUME IInv, Settled, NEW t \in Task, NEW s \in Scope, Enter(t, s)
    PROVE  Settled'
<1>0. /\ s \notin has_been_entered /\ s \notin active
      /\ status[t] \in Scope /\ status[t] # s /\ status[t] \in has_been_entered
      /\ \A x \in Scope : parent[x] # s
    BY CancelScopeAssumption DEF Enter, Used, IInv, Tree, TypeOK
<1>1. /\ \A x \in Scope : parent'[x] = IF x = s THEN status[t] ELSE parent[x]
      /\ active' = active \cup {s}
      /\ effectively_cancelled \subseteq effectively_cancelled'
      /\ \A u \in Task : status'[u] = IF u = t THEN s ELSE status[u]
    BY DEF Enter, IInv, TypeOK
<1>2. Grounded(parent')
    <2> SUFFICES ASSUME NEW A \in SUBSET Scope, A # {}, \A x \in A : parent'[x] \in A
                 PROVE  FALSE
        BY DEF Grounded
    <2>1. \A x \in A \ {s} : parent[x] \in A \ {s}
        BY <1>0, <1>1
    <2>2. A \ {s} # {}
        BY <1>0, <1>1
    <2> QED
        BY <2>1, <2>2 DEF Settled, Grounded
<1>3. Orphans'
    BY <1>0, <1>1 DEF Settled, Orphans, Children
<1> QED
    BY <1>2, <1>3 DEF Settled

(***************************************************************************)
(* close() cuts a status off, and cancels it if it is still in use.        *)
(***************************************************************************)
LEMMA CloseSettled ==
    ASSUME IInv, Settled, NEW s \in active \ {Root}, NEW st \in [Task -> Scope],
           \A u \in Task : st[u] = status[u] \/ st[u] = parent[s],
           CloseStatus(s, st), status' = st, active' = active \ {s}
    PROVE  Settled'
<1> DEFINE p  == [parent EXCEPT ![s] = None]
           cs == Children(parent, s)
           e  == effectively_cancelled \cup {s}
           ch == Changed(cancel_called \cup LateScopes, shield, p, e, cs)
           T  == {u \in Task : st[u] = s}
<1>0. /\ s \in Scope /\ p \in [Scope -> Scope \cup {None}] /\ cs \in SUBSET Scope
      /\ \A x \in Scope : p[x] = IF x = s THEN None ELSE parent[x]
    BY DEF IInv, TypeOK, Children
<1>1. parent' = p
    BY DEF CloseStatus
<1>2. Grounded(parent')
    BY <1>0, <1>1, CancelScopeAssumption DEF Settled, Grounded
<1>3. ch \subseteq Scope /\ ch \subseteq Visited(p, cs, ch)
    BY <1>0, ChangedIsClosed, ChangedIsVisited
<1>4. \/ T = {} /\ cs = {} /\ effectively_cancelled' = effectively_cancelled
      \/ effectively_cancelled' = (e \ ch) \cup (ch \ e)
    BY DEF CloseStatus
<1>5. parent[s] # s
    BY <1>0, CancelScopeAssumption DEF IInv, Tree, Forest, Encloses
<1> HIDE DEF p, cs, ch
<1>6. ch \subseteq active \ {s}
    <2>1. ASSUME NEW x \in Scope, p[x] \in ch
          PROVE  x \in active \ {s}
        BY <1>0, <1>3, <2>1, CancelScopeAssumption DEF IInv, Tree, TypeOK
    <2>2. cs \subseteq active \ {s}
        BY <1>0, <1>5, CancelScopeAssumption DEF cs, Children, IInv, Tree
    <2> QED
        BY <1>3, <2>1, <2>2 DEF Visited
<1>7a. /\ \A x \in Scope : Children(parent', x) # {} => Children(parent, x) # {}
       /\ Children(parent', s) # {} => cs # {}
       /\ \A u \in Task : status'[u] = s => u \in T
       /\ \A u \in Task : status'[u] = status[u] \/ parent[s] = status'[u]
       /\ \A x \in Scope : parent[s] = x => Children(parent, x) # {}
    BY <1>0, <1>1, CancelScopeAssumption DEF Children, cs
<1>7. ASSUME NEW x \in Scope, x \notin active',
             (\E u \in Task : status'[u] = x) \/ Children(parent', x) # {}
      PROVE  x \in effectively_cancelled'
    <2>1. CASE x = s
        <3>1. ~(T = {} /\ cs = {})
            BY <1>7, <1>7a, <2>1
        <3> QED
            BY <1>4, <1>6, <2>1, <3>1
    <2>2. CASE x # s
        <3>1. x \notin active /\ x \notin ch
            BY <1>6, <1>7, <2>2
        <3>2. (\E u \in Task : status[u] = x) \/ Children(parent, x) # {}
            BY <1>7, <1>7a, <2>2
        <3>3. x \in effectively_cancelled
            BY <3>1, <3>2 DEF Settled, Orphans
        <3> QED
            BY <1>4, <3>1, <3>3
    <2> QED
        BY <2>1, <2>2
<1>8. Orphans'
    BY <1>7 DEF Orphans
<1> QED
    BY <1>2, <1>8 DEF Settled

(***************************************************************************)
(* Every step keeps the tree settled.                                      *)
(***************************************************************************)
LEMMA SettledNext ==
    ASSUME IInv, Settled, [Next]_vars
    PROVE  Settled'
<1>0. TypeOK /\ Tree
    BY DEF IInv
<1>1. CASE \E t \in Task : TaskStep(t)
    BY <1>1, SettledSameTree DEF TaskStep, Resume, WaitTaskRescheduled,
        CancelShieldedCheckpoint, Reschedule, UserCode, scopeVars
<1>2. CASE \E t \in Task, s \in Scope : ScopeStep(t, s)
    <2> PICK t \in Task, s \in Scope : ScopeStep(t, s)
        BY <1>2
    <2>1. CASE Enter(t, s)
        BY <2>1, EnterSettled
    <2>2. CASE Spawn(t, s)
        <3>1. \A u \in Task : status'[u] = status[u] \/ status'[u] \in active
            BY <2>2 DEF Spawn, IInv, TypeOK
        <3> QED
            BY <2>2, <3>1, SettledSameTree DEF Spawn, scopeVars
    <2>3. CASE EnterAgain(t, s) \/ ExitRefused(t, s)
        BY <2>3, SettledSameTree DEF EnterAgain, ExitRefused, scopeVars
    <2>4. CASE Exit(t, s) \/ ExitAbandoned(t, s) \/ ExitMisnested(t, s)
        <3>1. s \in active \ {Root}
            BY <2>4 DEF Exit, ExitAbandoned, ExitMisnested
        <3>2. \E exc, st : /\ CloseScope(t, s, exc, st)
                           /\ st \in [Task -> Scope]
                           /\ \A u \in Task : st[u] = status[u] \/ st[u] = parent[s]
            <4>1. parent[s] \in Scope /\ status \in [Task -> Scope]
                BY <3>1 DEF IInv, Tree, TypeOK
            <4> DEFINE out == [status EXCEPT ![t] = parent[s]]
            <4>2. /\ out \in [Task -> Scope]
                  /\ \A u \in Task : out[u] = status[u] \/ out[u] = parent[s]
                BY <4>1
            <4>3. \/ CloseScope(t, s, InFlight(t), out)
                  \/ CloseScope(t, s, InFlight(t), status)
                  \/ CloseScope(t, s, {"Error"}, out)
                BY <2>4 DEF Exit, ExitAbandoned, ExitMisnested
            <4> HIDE DEF out
            <4> QED
                BY <4>1, <4>2, <4>3
        <3>3. PICK exc, st : /\ CloseScope(t, s, exc, st)
                             /\ st \in [Task -> Scope]
                             /\ \A u \in Task : st[u] = status[u] \/ st[u] = parent[s]
            BY <3>2
        <3>4. CloseStatus(s, st) /\ status' = st /\ active' = active \ {s}
            BY <3>3 DEF CloseScope
        <3> QED
            BY <3>1, <3>3, <3>4, CloseSettled
    <2> QED
        BY <2>1, <2>2, <2>3, <2>4 DEF ScopeStep
<1>3. CASE \E s \in Scope : Cancel(s)
    <2> PICK s \in Scope : Cancel(s)
        BY <1>3
    <2>1. CASE s \in active
        <3>1. /\ Recalculate(cancel_called \cup {s}, shield, parent,
                             effectively_cancelled, status, {s})
              /\ {s} \in SUBSET active
            BY <2>1 DEF Cancel
        <3>2. \A x \in Scope \ active :
                 x \in effectively_cancelled' <=> x \in effectively_cancelled
            BY <1>0, <3>1, RecalculateStaysOpen
        <3> QED
            BY <3>2, SettledSameTree DEF Cancel
    <2>2. CASE s \notin active
        BY <2>2, SettledSameTree DEF Cancel
    <2> QED
        BY <2>1, <2>2
<1>4. CASE \E s \in Shielding : SetShield(s)
    <2> PICK s \in Scope : SetShield(s)
        BY <1>4, CancelScopeAssumption
    <2>1. CASE s \in active
        <3>1. /\ Recalculate(cancel_called, shield', parent,
                             effectively_cancelled, status, {s})
              /\ {s} \in SUBSET active
            BY <2>1 DEF SetShield
        <3>2. \A x \in Scope \ active :
                 x \in effectively_cancelled' <=> x \in effectively_cancelled
            BY <1>0, <3>1, RecalculateStaysOpen
        <3> QED
            BY <3>2, SettledSameTree DEF SetShield
    <2>2. CASE s \notin active
        BY <2>2, SettledSameTree DEF SetShield
    <2> QED
        BY <2>1, <2>2
<1>5. CASE \E s \in Deadlined : MoveDeadline(s)
    BY <1>5, SettledSameTree DEF MoveDeadline, taskVars
<1>6. CASE Expire
    <2> DEFINE expired == LateScopes \ cancel_called
    <2>1. /\ Recalculate(cancel_called \cup expired, shield, parent,
                         effectively_cancelled, status, expired)
          /\ expired \in SUBSET active
        BY <1>6 DEF Expire, LateScopes
    <2> HIDE DEF expired
    <2>2. \A x \in Scope \ active :
             x \in effectively_cancelled' <=> x \in effectively_cancelled
        BY <1>0, <2>1, RecalculateStaysOpen
    <2> QED
        BY <1>6, <2>2, SettledSameTree DEF Expire
<1>7. CASE UNCHANGED vars
    BY <1>7, SettledSameTree DEF vars, scopeVars, taskVars
<1> QED
    BY <1>1, <1>2, <1>3, <1>4, <1>5, <1>6, <1>7 DEF Next

(***************************************************************************)
(* effectively_cancelled says of every status in use exactly whether some  *)
(* cancelled (or abandoned) scope around it reaches it past the shields,   *)
(* whatever the order of __enter__, __exit__, cancel, shield changes and   *)
(* deadlines, for any number of scopes and tasks, mis-nested or not.       *)
(***************************************************************************)
THEOREM CancellationExact == Spec => []EffectivelyCancelledIsExact
<1>1. Init => Settled
    BY CancelScopeAssumption DEF Init, Settled, Grounded, Orphans, Children
<1>2. IInv /\ Settled /\ [Next]_vars => Settled'
    BY SettledNext
<1>3. IInv /\ Settled => EffectivelyCancelledIsExact
    BY ReachedIsCancelled, CancelledIsReached DEF EffectivelyCancelledIsExact
<1> QED
    BY <1>1, <1>2, <1>3, Invariance, PTL DEF Spec

--------------------------------------------------------------------------------
(***************************************************************************)
(* Nurseries.  The inductive invariant of NurserySpec adds to that of the  *)
(* cancel scopes how nurseries, tasks and scopes hang together.            *)
(***************************************************************************)

\* The scopes of the nurseries other than that of the main task.
NurseryKind == NurseryScope \cup StartScope

\* Where a task is in start() or __aexit__ with its nursery still open ...
InAexit == {"spawn", "aexit", "waiting", "checkpoint", "cancelled", "close"}

\* ... in the middle of a handler ...
Busy == {"spawn", "aexit", "close", "returned", "finally", "poke", "exiting"}

\* ... or not in any of its blocks.
Outside == {"unborn", "dead", "exiting"}

\* A task has a nursery from its spawning to its end, and is idle otherwise.
Lives ==
    /\ \A t \in Task : Alive(t) <=> pc[t] \notin {"unborn", "dead"}
    /\ \A t \in Task : pc[t] \in {"unborn", "dead"} =>
          next_send[t] = "none" /\ wait[t] = "none" /\ t # current
    /\ \A t \in Task : pc[t] \in Busy => current = t
    /\ \A t \in Task :
          pc[t] \in {"checkpoint", "cancelled"} => next_send[t] # "none"

\* children and parent_nursery agree, and a nursery with children is open.
Membership ==
    /\ \A t \in Task, n \in Scope : t \in children[n] <=> parent_nursery[t] = n
    /\ \A t \in Task : Alive(t) =>
          parent_nursery[t] \in (NurseryKind \cup {Root}) \cap (active \ closed)

\* A task in start() or __aexit__ is in the innermost block of its own.
Blocks ==
    /\ \A t \in Task : pc[t] \in InAexit =>
          status[t] \in NurseryKind \cap active /\ owner[status[t]] = t
    /\ \A t \in Task : pc[t] \in {"checkpoint", "cancelled", "close"} =>
          status[t] \in closed
    /\ \A t \in Task : pc[t] = "waiting" =>
          status[t] \in parent_waiting_in_aexit \cup closed
    /\ \A t \in Task : pc[t] = "spawn" =>
          status[t] \in StartScope \ closed /\ children[status[t]] = {}
    /\ \A t \in Task : pc[t] \in {"aexit", "waiting"} =>
          status[t] \notin nested_child_running
    /\ closed \subseteq has_been_entered
    /\ NurseryKind \cap (has_been_entered \ closed) \subseteq active

\* A nursery whose parent sleeps in __aexit__ has something to wait for.
Waiting ==
    \A n \in parent_waiting_in_aexit :
        /\ n \in active \ closed
        /\ owner[n] \in Task
        /\ pc[owner[n]] = "waiting"
        /\ status[owner[n]] = n
        /\ wait[owner[n]] \in {"cancels", "failed"}
        /\ n \in NurseryScope => children[n] # {} \/ pending_starts[n] > 0

\* The start() nurseries that are about to be poked.
Emptied == {o \in StartScope \cap (active \ closed) :
               children[o] = {} /\ o \notin nested_child_running}

\* The task that called start() stays in the old nursery until it is left,
\* and the old nursery is emptied by started() only, which pokes it.
StartBlocks ==
    /\ \A o \in StartScope \cap active :
          owner[o] \in Task /\ status[owner[o]] = o /\ pc[owner[o]] \in InAexit
    /\ \A o \in StartScope \cap nested_child_running :
          owner[o] \in Task /\ status[owner[o]] = o /\ pc[owner[o]] = "spawn"
    /\ \A o \in Emptied : current \in Task /\ pc[current] = "poke"
    /\ \A o, q \in Emptied : o = q

\* The start() calls that nursery n waits for.
StartsInto(nn, n) == {o \in Scope : nn[o] = n}

\* A nursery counts the calls of start() that will put a child into it.
Starts ==
    /\ \A o \in Scope : new_nursery[o] # None =>
          /\ o \in StartScope \cap has_been_entered
          /\ new_nursery[o] \in NurseryScope \cap (active \ closed)
          /\ \A t \in Task : parent_nursery[t] = o => owner[new_nursery[o]] # t
    /\ \A n \in Scope :
          /\ IsFiniteSet(StartsInto(new_nursery, n))
          /\ pending_starts[n] = Cardinality(StartsInto(new_nursery, n))

\* The links between the scopes that task v has entered.
OwnLinks(p, ow, v) ==
    [x \in Scope |-> IF p[x] # None /\ ow[x] = v /\ ow[p[x]] = v
                     THEN p[x] ELSE None]

\* The open scopes of a task form a stack, from its nursery to its status.
Stacks ==
    /\ owner[Root] = None /\ parent[Root] = None
    /\ \A s \in active \ {Root} :
          /\ owner[s] \in Task
          /\ pc[owner[s]] \notin Outside
          /\ parent[s] = parent_nursery[owner[s]] \/ owner[parent[s]] = owner[s]
    /\ \A t \in Task : pc[t] \notin Outside =>
          status[t] = parent_nursery[t] \/ owner[status[t]] = t
    /\ \A t \in Task : Alive(t) => owner[parent_nursery[t]] # t
    /\ \A t \in Task : pc[t] \in Outside => status[t] = Root

\* Each of them is on the way up from the status of the task.
Innermost ==
    \A s \in active \ {Root} :
        Encloses(OwnLinks(parent, owner, owner[s]), s, status[owner[s]])

\* In every set of scopes one has neither its parent nor its target there.
GroundedTogether(p, nn) ==
    \A A \in SUBSET Scope : A # {} => \E x \in A : p[x] \notin A /\ nn[x] \notin A

\* Nothing is left behind by a closed scope.
NoOrphans ==
    /\ \A t \in Task : status[t] \in active
    /\ \A x \in Scope : parent[x] # None => parent[x] \in active

NInv ==
    /\ NurseryTypeOK
    /\ IInv
    /\ GroundedTogether(parent, new_nursery)
    /\ NoOrphans
    /\ Lives
    /\ Membership
    /\ Blocks
    /\ Waiting
    /\ StartBlocks
    /\ Starts
    /\ Stacks
    /\ Innermost

\* A cancellation may have been delivered to task u.
NudgeAt(u) ==
    \/ wait'[u] = wait[u] /\ next_send'[u] = next_send[u]
    \/ wait[u] = "succeeds" /\ wait'[u] = "none" /\ next_send'[u] = "Cancelled"
    \/ wait[u] \in {"fails", "cancels"} /\ wait'[u] = "failed"
       /\ next_send'[u] = next_send[u]

SameTree == UNCHANGED <<has_been_entered, active, parent, owner>>

SameNurseries ==
    UNCHANGED <<children, parent_nursery, nested_child_running,
                parent_waiting_in_aexit, pending_starts, closed, new_nursery>>

\* Nothing but pending exceptions and the like.
Aside == GroundedTogether(parent, new_nursery) /\ NoOrphans /\ Lives
         /\ Membership /\ Blocks /\ Waiting /\ StartBlocks /\ Starts /\ Stacks
         /\ Innermost

(***************************************************************************)
(* Delivery of a cancellation does to each task one of three things.       *)
(***************************************************************************)
LEMMA DeliverNudges ==
    ASSUME TypeOK, NEW c, NEW st, NEW T \in SUBSET Task, Deliver(c, st, T)
    PROVE  \A u \in Task : NudgeAt(u)
BY DEF TypeOK, Deliver, AfterAbort, NudgeAt, Wait, AbortKind

(***************************************************************************)
(* A step of a task in the program's own code, or of the run loop for such *)
(* a task, that leaves the scopes, the nurseries and the other tasks       *)
(* alone except for delivering cancellations.                              *)
(***************************************************************************)
LEMMA CodeFrame ==
    ASSUME NInv, SameTree, SameNurseries, status' = status, pc' = pc,
           \A u \in Task : pc[u] = "code" \/ NudgeAt(u),
           \/ current' = current
           \/ /\ current = None \/ Code(current)
              /\ current' = None \/ pc[current'] = "code"
    PROVE  Aside'
<1>0. TypeOK /\ NurseryTypeOK /\ OneStateAtATime
    BY DEF NInv, IInv
<1>1. GroundedTogether(parent, new_nursery)' /\ NoOrphans' /\ Innermost'
    BY DEF NInv, SameTree, SameNurseries, NoOrphans, GroundedTogether, Innermost
<1>2. Membership' /\ Blocks' /\ Stacks' /\ Starts'
    BY DEF NInv, SameTree, SameNurseries, Membership, Alive, Blocks, Stacks, Starts
<1>3. Lives'
    <2>1. \A t \in Task : next_send[t] # "none" => wait[t] = "none"
        BY <1>0 DEF OneStateAtATime
    <2>2. \A t \in Task : pc[t] \in Busy => current' = t
        BY CancelScopeAssumption DEF NInv, Lives, Code, Busy
    <2>3. \A t \in Task : pc[t] \in {"unborn", "dead"} =>
             next_send'[t] = "none" /\ wait'[t] = "none" /\ t # current'
        BY CancelScopeAssumption DEF NInv, Lives, NudgeAt
    <2>4. \A t \in Task :
             pc[t] \in {"checkpoint", "cancelled"} => next_send'[t] # "none"
        BY <2>1 DEF NInv, Lives, NudgeAt
    <2> QED
        BY <2>2, <2>3, <2>4 DEF NInv, SameNurseries, Lives, Alive
<1>4. Waiting'
    BY <1>0 DEF NInv, SameTree, SameNurseries, Waiting, NudgeAt
<1>5. StartBlocks'
    BY <1>0, CancelScopeAssumption DEF NInv, SameTree, SameNurseries, StartBlocks, Emptied, Code
<1> QED
    BY <1>1, <1>2, <1>3, <1>4, <1>5 DEF Aside

(***************************************************************************)
(* More links enclose more.                                                *)
(***************************************************************************)
LEMMA EnclosesMore ==
    ASSUME NEW p, NEW q, NEW a, NEW x, Encloses(p, a, x),
           \A y \in Scope : p[y] # None => q[y] = p[y]
    PROVE  Encloses(q, a, x)
BY DEF Encloses, UpwardClosed

(***************************************************************************)
(* A link that is not on the way may be cut.                               *)
(***************************************************************************)
LEMMA EnclosesCut ==
    ASSUME NEW p \in [Scope -> Scope \cup {None}], NEW q, NEW s \in Scope,
           NEW a \in Scope, NEW x \in Scope, Encloses(p, a, x), ~Encloses(p, s, x),
           \A y \in Scope \ {s} : q[y] = p[y]
    PROVE  Encloses(q, a, x)
<1> SUFFICES ASSUME NEW A \in SUBSET Scope, x \in A, UpwardClosed(q, A)
             PROVE  a \in A
    BY DEF Encloses
<1> DEFINE B == {y \in A : ~Encloses(p, s, y)}
<1>1. x \in B /\ B \in SUBSET Scope
    OBVIOUS
<1>2. ASSUME NEW y \in B, p[y] # None
      PROVE  p[y] \in B
    <2>1. y # s /\ y \in Scope
        BY EnclosesSelf
    <2>2. p[y] \in A
        BY <1>2, <2>1 DEF UpwardClosed
    <2>3. ~Encloses(p, s, p[y])
        BY <1>2, <2>1, EnclosesSelf, EnclosesTransitive
    <2> QED
        BY <2>2, <2>3
<1>3. UpwardClosed(p, B)
    BY <1>2 DEF UpwardClosed
<1> HIDE DEF B
<1>4. a \in B
    BY <1>1, <1>3 DEF Encloses
<1> QED
    BY <1>4 DEF B

(***************************************************************************)
(* The links of one task are links of the tree.                            *)
(***************************************************************************)
LEMMA OwnLinksType ==
    ASSUME NEW p \in [Scope -> Scope \cup {None}], NEW ow, NEW v
    PROVE  /\ OwnLinks(p, ow, v) \in [Scope -> Scope \cup {None}]
           /\ \A x \in Scope : OwnLinks(p, ow, v)[x] # None =>
                 OwnLinks(p, ow, v)[x] = p[x] /\ ow[x] = v /\ ow[p[x]] = v
           /\ \A x \in Scope : p[x] # None /\ ow[x] = v /\ ow[p[x]] = v =>
                 OwnLinks(p, ow, v)[x] = p[x]
BY DEF OwnLinks

(***************************************************************************)
(* Two trees in which the scopes of a task hang together alike.            *)
(***************************************************************************)
LEMMA OwnLinksSame ==
    ASSUME NEW p, NEW ow, NEW q, NEW ow2, NEW v,
           \A x \in Scope :
               (p[x] # None /\ ow[x] = v /\ ow[p[x]] = v)
                   <=> (q[x] # None /\ ow2[x] = v /\ ow2[q[x]] = v),
           \A x \in Scope : ow[x] = v /\ p[x] # None /\ ow[p[x]] = v => q[x] = p[x]
    PROVE  OwnLinks(p, ow, v) = OwnLinks(q, ow2, v)
BY DEF OwnLinks

(***************************************************************************)
(* What __enter__ finds and what it does.                                  *)
(***************************************************************************)
LEMMA EnterFacts ==
    ASSUME NInv, NEW t \in Task, NEW s \in Scope, Enter(t, s)
    PROVE  /\ s \notin has_been_entered /\ s \notin active /\ s # Root
           /\ status[t] \in active /\ status[t] # s /\ status[t] \in Scope
           /\ parent[s] = None
           /\ \A x \in Scope : parent[x] # s /\ new_nursery[x] # s
           /\ \A u \in Task : parent_nursery[u] # s /\ status[u] # s
           /\ s \notin closed /\ s \notin parent_waiting_in_aexit
           /\ children[s] = {} /\ new_nursery[s] = None
           /\ has_been_entered' = has_been_entered \cup {s}
           /\ active' = active \cup {s}
           /\ \A x \in Scope : parent'[x] = IF x = s THEN status[t] ELSE parent[x]
           /\ \A x \in Scope : owner'[x] = IF x = s THEN t ELSE owner[x]
           /\ \A u \in Task : status'[u] = IF u = t THEN s ELSE status[u]
           /\ UNCHANGED <<current, wait, next_send>>
           /\ current = t
<1>1. s \notin has_been_entered /\ s \notin active /\ s # Root /\ current = t
    BY DEF NInv, IInv, TypeOK, Tree, Enter, Used
<1>2. /\ status[t] \in active /\ status[t] # s /\ status[t] \in Scope
      /\ parent[s] = None
      /\ \A x \in Scope : parent[x] # s
      /\ \A u \in Task : status[u] # s
    BY <1>1, CancelScopeAssumption DEF NInv, NoOrphans, IInv, TypeOK, Tree
<1>3. /\ \A u \in Task : parent_nursery[u] # s
      /\ s \notin closed /\ s \notin parent_waiting_in_aexit
    BY <1>1, CancelScopeAssumption DEF NInv, Membership, Alive, Blocks, Waiting,
        NurseryTypeOK
<1>4. \A x \in Scope : new_nursery[x] # s
    BY <1>1, CancelScopeAssumption DEF NInv, Starts
<1>5. children[s] = {} /\ new_nursery[s] = None
    BY <1>1, <1>3 DEF NInv, Membership, Starts, NurseryTypeOK
<1>6. /\ has_been_entered' = has_been_entered \cup {s}
      /\ active' = active \cup {s}
      /\ \A x \in Scope : parent'[x] = IF x = s THEN status[t] ELSE parent[x]
      /\ \A x \in Scope : owner'[x] = IF x = s THEN t ELSE owner[x]
      /\ \A u \in Task : status'[u] = IF u = t THEN s ELSE status[u]
      /\ UNCHANGED <<current, wait, next_send>>
    BY DEF NInv, IInv, TypeOK, Enter
<1> QED
    BY <1>1, <1>2, <1>3, <1>4, <1>5, <1>6

(***************************************************************************)
(* __enter__ pushes the scope on the stack of its task; the target of a    *)
(* start() nursery is a scope entered before.                              *)
(***************************************************************************)
LEMMA EnterTree ==
    ASSUME NInv, NEW t \in Task, NEW s \in Scope, Enter(t, s), Code(t),
           new_nursery'[s] # s,
           \A x \in Scope \ {s} : new_nursery'[x] = new_nursery[x],
           parent_nursery' = parent_nursery, pc'[t] \notin Outside,
           \A u \in Task \ {t} : pc'[u] = pc[u]
    PROVE  GroundedTogether(parent, new_nursery)' /\ NoOrphans' /\ Stacks' /\ Innermost'
<1>0. /\ NurseryTypeOK /\ TypeOK
      /\ parent \in [Scope -> Scope \cup {None}] /\ owner \in [Scope -> Task \cup {None}]
      /\ active \subseteq Scope /\ status \in [Task -> Scope]
    BY DEF NInv, IInv, TypeOK
<1>1. /\ s \notin active /\ s # Root
      /\ status[t] \in active /\ status[t] # s /\ status[t] \in Scope
      /\ parent[s] = None
      /\ \A x \in Scope : parent[x] # s /\ new_nursery[x] # s
      /\ \A u \in Task : parent_nursery[u] # s
      /\ active' = active \cup {s}
      /\ \A x \in Scope : parent'[x] = IF x = s THEN status[t] ELSE parent[x]
      /\ \A x \in Scope : owner'[x] = IF x = s THEN t ELSE owner[x]
      /\ \A u \in Task : status'[u] = IF u = t THEN s ELSE status[u]
    BY EnterFacts
<1>2. GroundedTogether(parent, new_nursery)'
    <2> SUFFICES ASSUME NEW A \in SUBSET Scope, A # {},
                        \A x \in A : parent'[x] \in A \/ new_nursery'[x] \in A
                 PROVE  FALSE
        BY DEF GroundedTogether
    <2>1. \A x \in A \ {s} : parent[x] \in A \ {s} \/ new_nursery[x] \in A \ {s}
        BY <1>1
    <2>2. A \ {s} # {}
        BY <1>1
    <2> QED
        BY <2>1, <2>2 DEF NInv, GroundedTogether
<1>3. NoOrphans'
    BY <1>0, <1>1, CancelScopeAssumption DEF NInv, NoOrphans
<1>4. Stacks'
    <2>1. \A x \in active \ {Root} : owner[x] \in Task /\ pc[owner[x]] \notin Outside
                /\ (parent[x] = parent_nursery[owner[x]] \/ owner[parent[x]] = owner[x])
        BY DEF NInv, Stacks
    <2>2. ASSUME NEW x \in active' \ {Root}
          PROVE  /\ owner'[x] \in Task
                 /\ pc'[owner'[x]] \notin Outside
                 /\ \/ parent'[x] = parent_nursery'[owner'[x]]
                    \/ owner'[parent'[x]] = owner'[x]
        <3>1. CASE x = s
            <4>1. status[t] = parent_nursery[t] \/ owner[status[t]] = t
                BY DEF NInv, Stacks, Code, Outside
            <4> QED
                BY <1>1, <3>1, <4>1
        <3>2. CASE x # s
            <4>1. x \in active \ {Root} /\ parent[x] # None /\ parent[x] \in Scope
                BY <1>0, <1>1, <2>2, <3>2 DEF NInv, IInv, Tree
            <4> QED
                BY <1>0, <1>1, <2>1, <3>2, <4>1
        <3> QED
            BY <3>1, <3>2
    <2>3. \A u \in Task : pc'[u] \notin Outside =>
             status'[u] = parent_nursery'[u] \/ owner'[status'[u]] = u
        BY <1>0, <1>1 DEF NInv, NoOrphans, Stacks
    <2>4. \A u \in Task : Alive(u)' => owner'[parent_nursery'[u]] # u
        BY <1>0, <1>1, CancelScopeAssumption DEF NInv, Stacks, Alive, NurseryTypeOK
    <2>5. \A u \in Task : pc'[u] \in Outside => status'[u] = Root
        BY <1>1 DEF NInv, Stacks
    <2> QED
        BY <1>1, <2>2, <2>3, <2>4, <2>5, CancelScopeAssumption DEF NInv, Stacks
<1>5. ASSUME NEW x \in active' \ {Root}
      PROVE  Encloses(OwnLinks(parent', owner', owner'[x]), x, status'[owner'[x]])
    <2>1. CASE x = s
        BY <1>1, <2>1, EnclosesSelf
    <2>2. CASE x # s /\ owner[x] # t
        <3>1. x \in active \ {Root} /\ x \in Scope /\ owner[x] \in Task
            BY <1>0, <1>1, <1>5, <2>2 DEF NInv, Stacks
        <3>2. OwnLinks(parent, owner, owner[x]) = OwnLinks(parent', owner', owner[x])
            <4>1. ASSUME NEW y \in Scope
                  PROVE  /\ (parent[y] # None /\ owner[y] = owner[x] /\ owner[parent[y]] = owner[x])
                              <=> (parent'[y] # None /\ owner'[y] = owner[x] /\ owner'[parent'[y]] = owner[x])
                         /\ owner[y] = owner[x] /\ parent[y] # None => parent'[y] = parent[y]
                BY <1>0, <1>1, <2>2
            <4> QED
                BY <4>1, OwnLinksSame
        <3>3. Encloses(OwnLinks(parent, owner, owner[x]), x, status[owner[x]])
            BY <3>1 DEF NInv, Innermost
        <3> QED
            BY <1>1, <2>2, <3>1, <3>2, <3>3
    <2>3. CASE x # s /\ owner[x] = t
        <3> DEFINE p == OwnLinks(parent, owner, t)
                   q == OwnLinks(parent', owner', t)
        <3>1. x \in active \ {Root} /\ x \in Scope
            BY <1>0, <1>1, <1>5, <2>3
        <3>2. Encloses(p, x, status[t])
            BY <2>3, <3>1 DEF NInv, Innermost
        <3>3. p \in [Scope -> Scope \cup {None}] /\ owner[status[t]] = t
            <4>1. p \in [Scope -> Scope \cup {None}]
                BY <1>0, OwnLinksType
            <4>2. CASE x = status[t]
                BY <2>3, <4>1, <4>2
            <4>3. CASE x # status[t]
                BY <1>0, <1>1, <3>1, <3>2, <4>1, <4>3, EnclosesStep, OwnLinksType
            <4> QED
                BY <4>1, <4>2, <4>3
        <3>4. \A y \in Scope : p[y] # None => q[y] = p[y]
            BY <1>0, <1>1 DEF OwnLinks
        <3>5. q[s] = status[t]
            BY <1>0, <1>1, <3>3, CancelScopeAssumption DEF OwnLinks
        <3> HIDE DEF p, q
        <3>6. Encloses(q, x, status[t])
            BY <3>2, <3>4, EnclosesMore
        <3>7. Encloses(q, status[t], s)
            BY <1>1, <3>5, EnclosesSelf, CancelScopeAssumption
        <3>8. Encloses(q, x, s)
            BY <3>6, <3>7, EnclosesTransitive
        <3> QED
            BY <1>1, <2>3, <3>1, <3>8 DEF q
    <2> QED
        BY <2>1, <2>2, <2>3
<1>6. Innermost'
    BY <1>5 DEF Innermost
<1> QED
    BY <1>2, <1>3, <1>4, <1>6

(***************************************************************************)
(* __enter__ of a scope of the program, or of a nursery in __aenter__.     *)
(***************************************************************************)
LEMMA EnterAside ==
    ASSUME NInv, NEW t \in Task, NEW s \in Scope \ StartScope, Enter(t, s), Code(t),
           UNCHANGED <<children, parent_nursery, parent_waiting_in_aexit,
                       pending_starts, closed, new_nursery, pc>>,
           \/ nested_child_running' = nested_child_running
           \/ nested_child_running' = nested_child_running \cup {s}
    PROVE  Aside'
<1>0. NurseryTypeOK /\ TypeOK /\ active \subseteq Scope
    BY DEF NInv, IInv, TypeOK
<1>1. /\ s \notin has_been_entered /\ s \notin active
      /\ \A x \in Scope : new_nursery[x] # s
      /\ \A u \in Task : parent_nursery[u] # s /\ status[u] # s
      /\ s \notin closed /\ s \notin parent_waiting_in_aexit
      /\ has_been_entered' = has_been_entered \cup {s}
      /\ active' = active \cup {s}
      /\ \A x \in Scope : owner'[x] = IF x = s THEN t ELSE owner[x]
      /\ \A u \in Task : status'[u] = IF u = t THEN s ELSE status[u]
      /\ UNCHANGED <<current, wait, next_send>>
      /\ current = t /\ new_nursery[s] = None
    BY EnterFacts
<1>2. GroundedTogether(parent, new_nursery)' /\ NoOrphans' /\ Stacks' /\ Innermost'
    BY <1>1, EnterTree, CancelScopeAssumption DEF Code, Outside
<1>3. Lives' /\ Membership'
    BY <1>1 DEF NInv, Lives, Membership, Alive
<1>4. Blocks'
    <2>1. \A u \in Task : pc[u] \in InAexit => u # t /\ status'[u] = status[u]
                /\ status[u] \in Scope /\ owner'[status[u]] = owner[status[u]]
        BY <1>0, <1>1 DEF Code, InAexit, TypeOK
    <2> QED
        BY <1>1, <2>1 DEF NInv, Blocks, InAexit
<1>5. Waiting'
    <2>1. \A n \in parent_waiting_in_aexit : n \in Scope /\ owner'[n] = owner[n]
                /\ owner[n] # t /\ status'[owner[n]] = status[owner[n]]
        BY <1>0, <1>1 DEF Code, NInv, Waiting, NurseryTypeOK
    <2> QED
        BY <1>1, <2>1 DEF NInv, Waiting
<1>6. StartBlocks'
    <2>1. Emptied' = Emptied
        BY <1>1 DEF Emptied
    <2>2. \A o \in StartScope \cap active' :
             o \in active /\ owner'[o] = owner[o] /\ owner[o] \in Task
             /\ status[owner[o]] = o /\ pc[owner[o]] \in InAexit
        BY <1>0, <1>1 DEF NInv, StartBlocks
    <2>3. \A o \in StartScope \cap active' : status'[owner[o]] = o
        BY <1>1, <2>2 DEF Code, InAexit
    <2>4. \A o \in StartScope \cap nested_child_running' :
             owner'[o] \in Task /\ status'[owner'[o]] = o /\ pc[owner'[o]] = "spawn"
        BY <1>0, <1>1 DEF NInv, StartBlocks, NurseryTypeOK, Code
    <2> QED
        BY <1>1, <2>1, <2>2, <2>3, <2>4 DEF NInv, StartBlocks
<1>7. Starts'
    <2>1. \A o \in Scope : new_nursery[o] # None => new_nursery[o] \in Scope
                /\ owner'[new_nursery[o]] = owner[new_nursery[o]]
        BY <1>0, <1>1 DEF NurseryTypeOK
    <2> QED
        BY <1>1, <2>1 DEF NInv, Starts
<1> QED
    BY <1>2, <1>3, <1>4, <1>5, <1>6, <1>7 DEF Aside

(***************************************************************************)
(* The calls of start() that a nursery waits for, when one is added ...    *)
(***************************************************************************)
LEMMA StartsIntoMore ==
    ASSUME NEW nn \in [Scope -> Scope \cup {None}], NEW o \in Scope,
           NEW n \in Scope, NEW m \in Scope, nn[o] = None,
           NEW mm, \A x \in Scope : mm[x] = IF x = o THEN n ELSE nn[x],
           IsFiniteSet(StartsInto(nn, m))
    PROVE  /\ IsFiniteSet(StartsInto(mm, m))
           /\ Cardinality(StartsInto(mm, m)) =
                 IF m = n THEN Cardinality(StartsInto(nn, m)) + 1
                          ELSE Cardinality(StartsInto(nn, m))
<1> DEFINE S == StartsInto(nn, m)
<1>1. CASE m = n
    <2>1. StartsInto(mm, m) = S \cup {o} /\ o \notin S
        BY <1>1, CancelScopeAssumption DEF StartsInto
    <2>2. IsFiniteSet(S)
        OBVIOUS
    <2> HIDE DEF S
    <2>3. IsFiniteSet(S \cup {o}) /\ Cardinality(S \cup {o}) = Cardinality(S) + 1
        BY <2>1, <2>2, FS_AddElement
    <2> QED
        BY <1>1, <2>1, <2>3 DEF S
<1>2. CASE m # n
    <2>1. StartsInto(mm, m) = S
        BY <1>2, CancelScopeAssumption DEF StartsInto
    <2> QED
        BY <1>2, <2>1
<1> QED
    BY <1>1, <1>2

(***************************************************************************)
(* ... and when one has ended.                                             *)
(***************************************************************************)
LEMMA StartsIntoLess ==
    ASSUME NEW nn \in [Scope -> Scope \cup {None}], NEW o \in Scope,
           NEW n \in Scope, NEW m \in Scope, nn[o] = n,
           NEW mm, \A x \in Scope : mm[x] = IF x = o THEN None ELSE nn[x],
           IsFiniteSet(StartsInto(nn, m))
    PROVE  /\ IsFiniteSet(StartsInto(mm, m))
           /\ Cardinality(StartsInto(mm, m)) =
                 IF m = n THEN Cardinality(StartsInto(nn, m)) - 1
                          ELSE Cardinality(StartsInto(nn, m))
<1> DEFINE S == StartsInto(nn, m)
<1>1. CASE m = n
    <2>1. StartsInto(mm, m) = S \ {o} /\ o \in S
        BY <1>1, CancelScopeAssumption DEF StartsInto
    <2>2. IsFiniteSet(S)
        OBVIOUS
    <2> HIDE DEF S
    <2>3. IsFiniteSet(S \ {o}) /\ Cardinality(S \ {o}) = Cardinality(S) - 1
        BY <2>1, <2>2, FS_RemoveElement
    <2> QED
        BY <1>1, <2>1, <2>3 DEF S
<1>2. CASE m # n
    <2>1. StartsInto(mm, m) = S
        BY <1>2, CancelScopeAssumption DEF StartsInto
    <2> QED
        BY <1>2, <2>1
<1> QED
    BY <1>1, <1>2

(***************************************************************************)
(* start() opens the old nursery and is counted by the new one.            *)
(***************************************************************************)
LEMMA StartAside ==
    ASSUME NInv, NEW t \in Task, NEW n \in NurseryScope, NEW o \in StartScope,
           Start(t, n, o)
    PROVE  Aside'
<1>0. NurseryTypeOK /\ TypeOK /\ active \subseteq Scope /\ n \in Scope /\ o \in Scope
    BY NurseryAssumption DEF NInv, IInv, TypeOK
<1>1. /\ Code(t) /\ Enter(t, o) /\ n \in has_been_entered /\ n \notin closed
      /\ pending_starts' = [pending_starts EXCEPT ![n] = @ + 1]
      /\ new_nursery' = [new_nursery EXCEPT ![o] = n]
      /\ nested_child_running' = nested_child_running \cup {o}
      /\ pc' = [pc EXCEPT ![t] = "spawn"]
      /\ UNCHANGED <<children, parent_nursery, parent_waiting_in_aexit, closed>>
    BY DEF Start, Opened, Goto
<1>2. /\ o \notin has_been_entered /\ o \notin active /\ new_nursery[o] = None
      /\ \A x \in Scope : new_nursery[x] # o
      /\ \A u \in Task : parent_nursery[u] # o /\ status[u] # o
      /\ o \notin closed /\ o \notin parent_waiting_in_aexit
      /\ has_been_entered' = has_been_entered \cup {o}
      /\ active' = active \cup {o}
      /\ \A x \in Scope : owner'[x] = IF x = o THEN t ELSE owner[x]
      /\ \A u \in Task : status'[u] = IF u = t THEN o ELSE status[u]
      /\ UNCHANGED <<current, wait, next_send>>
      /\ current = t /\ children[o] = {}
    BY <1>0, <1>1, EnterFacts
<1>3. /\ \A u \in Task : pc'[u] = IF u = t THEN "spawn" ELSE pc[u]
      /\ \A x \in Scope : new_nursery'[x] = IF x = o THEN n ELSE new_nursery[x]
      /\ n # o
    BY <1>0, <1>1, <1>2 DEF NurseryTypeOK
<1>4. GroundedTogether(parent, new_nursery)' /\ NoOrphans' /\ Stacks' /\ Innermost'
    <2>1. /\ new_nursery'[o] # o
          /\ \A x \in Scope \ {o} : new_nursery'[x] = new_nursery[x]
          /\ pc'[t] \notin Outside /\ \A u \in Task \ {t} : pc'[u] = pc[u]
        BY <1>0, <1>3 DEF Outside
    <2> QED
        BY <1>0, <1>1, <2>1, EnterTree
<1>5. Lives' /\ Membership'
    BY <1>1, <1>2, <1>3 DEF NInv, Lives, Membership, Alive, Code, Busy
<1>6. Blocks'
    <2>1. \A u \in Task : pc'[u] \in InAexit /\ u # t => status'[u] = status[u]
                /\ status[u] \in Scope /\ owner'[status[u]] = owner[status[u]]
                /\ pc'[u] = pc[u] /\ status[u] # o
        BY <1>0, <1>2, <1>3 DEF TypeOK
    <2>2. status'[t] = o /\ owner'[o] = t /\ pc'[t] = "spawn"
        BY <1>0, <1>2, <1>3
    <2> QED
        BY <1>1, <1>2, <2>1, <2>2 DEF NInv, Blocks, InAexit, NurseryKind
<1>7. Waiting'
    <2>1. \A m \in parent_waiting_in_aexit : m \in Scope /\ owner'[m] = owner[m]
                /\ owner[m] \in Task
                /\ owner[m] # t /\ status'[owner[m]] = status[owner[m]]
                /\ pc'[owner[m]] = pc[owner[m]]
        BY <1>0, <1>1, <1>2, <1>3 DEF Code, NInv, Waiting, NurseryTypeOK
    <2>2. \A m \in Scope : pending_starts[m] > 0 => pending_starts'[m] > 0
        BY <1>0, <1>1 DEF NurseryTypeOK
    <2> QED
        BY <1>1, <1>2, <2>1, <2>2 DEF NInv, Waiting
<1>8. StartBlocks'
    <2>1. Emptied' = Emptied
        BY <1>1, <1>2 DEF Emptied
    <2>2. Emptied = {}
        BY <1>1 DEF NInv, StartBlocks, Code
    <2>3. \A q \in StartScope \cap active : owner'[q] = owner[q] /\ owner[q] \in Task
             /\ owner[q] # t /\ status[owner[q]] = q /\ pc[owner[q]] \in InAexit
        BY <1>0, <1>1, <1>2 DEF NInv, StartBlocks, Code, InAexit
    <2>4. \A q \in StartScope \cap nested_child_running : q # o =>
             owner'[q] = owner[q] /\ owner[q] \in Task /\ owner[q] # t
             /\ status[owner[q]] = q /\ pc[owner[q]] = "spawn"
        BY <1>0, <1>1, <1>2 DEF NInv, StartBlocks, NurseryTypeOK, Code
    <2>5. \A q \in StartScope \cap active' :
             owner'[q] \in Task /\ status'[owner'[q]] = q /\ pc'[owner'[q]] \in InAexit
        BY <1>0, <1>2, <1>3, <2>3 DEF InAexit
    <2>6. \A q \in StartScope \cap nested_child_running' :
             owner'[q] \in Task /\ status'[owner'[q]] = q /\ pc'[owner'[q]] = "spawn"
        BY <1>0, <1>1, <1>2, <1>3, <2>4
    <2> QED
        BY <2>1, <2>2, <2>5, <2>6 DEF StartBlocks
<1>9. Starts'
    <2>1. n \in active
        BY <1>1 DEF NInv, Blocks, NurseryKind
    <2>2. ASSUME NEW q \in Scope, new_nursery'[q] # None
          PROVE  /\ q \in StartScope \cap has_been_entered'
                 /\ new_nursery'[q] \in NurseryScope \cap (active' \ closed')
                 /\ \A u \in Task : parent_nursery'[u] = q => owner'[new_nursery'[q]] # u
        BY <1>0, <1>1, <1>2, <1>3, <2>1, <2>2 DEF NInv, Starts, NurseryTypeOK
    <2>3. ASSUME NEW m \in Scope
          PROVE  /\ IsFiniteSet(StartsInto(new_nursery', m))
                 /\ pending_starts'[m] = Cardinality(StartsInto(new_nursery', m))
        <3>1. /\ IsFiniteSet(StartsInto(new_nursery, m))
              /\ pending_starts[m] = Cardinality(StartsInto(new_nursery, m))
              /\ new_nursery \in [Scope -> Scope \cup {None}]
            BY <1>0 DEF NInv, Starts, NurseryTypeOK
        <3>2. /\ IsFiniteSet(StartsInto(new_nursery', m))
              /\ Cardinality(StartsInto(new_nursery', m)) =
                    IF m = n THEN pending_starts[m] + 1 ELSE pending_starts[m]
            <4>1. /\ o \in Scope /\ n \in Scope /\ new_nursery[o] = None
                  /\ \A x \in Scope : new_nursery'[x] =
                        IF x = o THEN n ELSE new_nursery[x]
                BY <1>0, <1>2, <1>3
            <4>2. /\ IsFiniteSet(StartsInto(new_nursery', m))
                  /\ Cardinality(StartsInto(new_nursery', m)) =
                        IF m = n THEN Cardinality(StartsInto(new_nursery, m)) + 1
                                 ELSE Cardinality(StartsInto(new_nursery, m))
                BY ONLY <2>3, <3>1, <4>1, StartsIntoMore
            <4> QED
                BY <3>1, <4>2
        <3>3. pending_starts'[m] = IF m = n THEN pending_starts[m] + 1
                                            ELSE pending_starts[m]
            BY <1>0, <1>1 DEF NurseryTypeOK
        <3> QED
            BY <3>2, <3>3
    <2> QED
        BY <2>2, <2>3 DEF Starts
<1> QED
    BY <1>4, <1>5, <1>6, <1>7, <1>8, <1>9 DEF Aside

(***************************************************************************)
(* A scope is closed by its owner, at the end of its block, when it has no *)
(* tasks of its own left: then nothing else is in it or below it.          *)
(***************************************************************************)
LEMMA CloseClean ==
    ASSUME NInv, NEW t \in Task, NEW s \in active \ {Root}, status[t] = s,
           owner[s] = t, \A u \in Task : parent_nursery[u] # s
    PROVE  Children(parent, s) = {} /\ \A u \in Task \ {t} : status[u] # s
<1>0. /\ s \in Scope /\ parent \in [Scope -> Scope \cup {None}]
      /\ \A x \in Scope : parent[x] # None => ~Encloses(parent, x, parent[x])
    BY DEF NInv, IInv, TypeOK, Tree, Forest
<1>1. ASSUME NEW x \in Scope, parent[x] = s
      PROVE  FALSE
    <2>1. x \in active \ {Root} \/ x = Root
        BY <1>1, <1>0, CancelScopeAssumption DEF NInv, IInv, Tree
    <2>2. x # Root
        BY <1>0, <1>1, CancelScopeAssumption DEF NInv, Stacks
    <2>3. owner[x] = t
        BY <1>1, <2>1, <2>2 DEF NInv, Stacks
    <2>4. Encloses(OwnLinks(parent, owner, t), x, s)
        BY <2>1, <2>2, <2>3 DEF NInv, Innermost
    <2>5. Encloses(parent, x, s)
        BY <1>0, <2>4, EnclosesMore, OwnLinksType
    <2> QED
        BY <1>0, <1>1, <2>5, CancelScopeAssumption
<1>2. ASSUME NEW u \in Task \ {t}
      PROVE  status[u] # s
    BY <1>2 DEF NInv, Stacks
<1> QED
    BY <1>1, <1>2 DEF Children

(***************************************************************************)
(* What closing such a scope does: nothing is abandoned or cancelled.      *)
(***************************************************************************)
LEMMA CloseFacts ==
    ASSUME NInv, NEW t \in Task, NEW s \in active \ {Root}, status[t] = s,
           owner[s] = t, \A u \in Task : parent_nursery[u] # s, NEW exc,
           CloseScope(t, s, exc, [status EXCEPT ![t] = parent[s]])
    PROVE  /\ s \in Scope /\ parent[s] \in active /\ parent[s] # s
           /\ \A x \in Scope : parent[x] # s
           /\ \A u \in Task \ {t} : status[u] # s
           /\ \A x \in Scope : parent'[x] = IF x = s THEN None ELSE parent[x]
           /\ \A u \in Task : status'[u] = IF u = t THEN parent[s] ELSE status[u]
           /\ active' = active \ {s}
           /\ UNCHANGED <<has_been_entered, owner, current, wait, next_send,
                          cancel_called, effectively_cancelled, abandoned>>
<1>1. s \in Scope /\ parent[s] \in active /\ parent[s] # s
    <2>1. s \in Scope /\ parent[s] # None
        BY DEF NInv, IInv, TypeOK, Tree
    <2>2. ~Encloses(parent, s, parent[s])
        BY <2>1 DEF NInv, IInv, Tree, Forest
    <2> QED
        BY <2>1, <2>2, EnclosesSelf DEF NInv, NoOrphans
<1>2. Children(parent, s) = {} /\ \A u \in Task \ {t} : status[u] # s
    BY CloseClean
<1> DEFINE out == [status EXCEPT ![t] = parent[s]]
<1>3. \A u \in Task : out[u] = IF u = t THEN parent[s] ELSE status[u]
    BY DEF NInv, IInv, TypeOK
<1>4. {u \in Task : out[u] = s} = {}
    BY <1>1, <1>2, <1>3
<1>5. /\ CloseStatus(s, out) /\ status' = out /\ active' = active \ {s}
      /\ UNCHANGED <<has_been_entered, owner, current>>
    BY DEF CloseScope
<1> HIDE DEF out
<1>6. UNCHANGED <<abandoned, effectively_cancelled, cancel_called, wait, next_send>>
    BY <1>2, <1>4, <1>5 DEF CloseStatus
<1>7. \A x \in Scope : parent'[x] = IF x = s THEN None ELSE parent[x]
    BY <1>1, <1>5 DEF CloseStatus, NInv, IInv, TypeOK
<1> QED
    BY <1>1, <1>2, <1>3, <1>5, <1>6, <1>7 DEF Children

(***************************************************************************)
(* Closing a scope pops it from the stack of its task.                     *)
(***************************************************************************)
LEMMA CloseTree ==
    ASSUME NInv, NEW t \in Task, NEW s \in active \ {Root}, status[t] = s,
           owner[s] = t, \A u \in Task : parent_nursery[u] # s, NEW exc,
           CloseScope(t, s, exc, [status EXCEPT ![t] = parent[s]]),
           UNCHANGED <<new_nursery, parent_nursery>>,
           pc'[t] \notin Outside, pc[t] \notin Outside,
           \A u \in Task \ {t} : pc'[u] = pc[u]
    PROVE  GroundedTogether(parent, new_nursery)' /\ NoOrphans' /\ Stacks' /\ Innermost'
<1>0. /\ NurseryTypeOK /\ TypeOK
      /\ parent \in [Scope -> Scope \cup {None}] /\ owner \in [Scope -> Task \cup {None}]
      /\ active \subseteq Scope /\ status \in [Task -> Scope]
    BY DEF NInv, IInv, TypeOK
<1>1. /\ s \in Scope /\ parent[s] \in active /\ parent[s] # s
      /\ \A x \in Scope : parent[x] # s
      /\ \A u \in Task \ {t} : status[u] # s
      /\ \A x \in Scope : parent'[x] = IF x = s THEN None ELSE parent[x]
      /\ \A u \in Task : status'[u] = IF u = t THEN parent[s] ELSE status[u]
      /\ active' = active \ {s}
      /\ owner' = owner
    BY CloseFacts
<1>2. GroundedTogether(parent, new_nursery)'
    BY <1>1, CancelScopeAssumption DEF NInv, GroundedTogether
<1>3. NoOrphans'
    BY <1>1 DEF NInv, NoOrphans
<1>4. Stacks'
    <2>1. parent[s] = parent_nursery[t] \/ owner[parent[s]] = t
        BY DEF NInv, Stacks
    <2>2. \A x \in active' \ {Root} :
             x \in active \ {Root} /\ x \in Scope /\ parent'[x] = parent[x]
        BY <1>0, <1>1
    <2>3. \A x \in active' \ {Root} :
             /\ owner'[x] \in Task
             /\ pc'[owner'[x]] \notin Outside
             /\ \/ parent'[x] = parent_nursery'[owner'[x]]
                \/ owner'[parent'[x]] = owner'[x]
        BY <1>1, <2>2 DEF NInv, Stacks
    <2>4. \A u \in Task : pc'[u] \notin Outside =>
             status'[u] = parent_nursery'[u] \/ owner'[status'[u]] = u
        BY <1>1, <2>1 DEF NInv, Stacks
    <2>5. \A u \in Task : Alive(u)' => owner'[parent_nursery'[u]] # u
        BY <1>1 DEF NInv, Stacks, Alive
    <2>6. \A u \in Task : pc'[u] \in Outside => status'[u] = Root
        BY <1>1 DEF NInv, Stacks
    <2>7. owner'[Root] = None /\ parent'[Root] = None
        BY <1>1, CancelScopeAssumption DEF NInv, Stacks
    <2> QED
        BY <2>3, <2>4, <2>5, <2>6, <2>7 DEF Stacks
<1>5. ASSUME NEW x \in active' \ {Root}
      PROVE  Encloses(OwnLinks(parent', owner', owner'[x]), x, status'[owner'[x]])
    <2>0. x \in active \ {Root} /\ x \in Scope /\ x # s /\ owner[x] \in Task
        BY <1>0, <1>1, <1>5 DEF NInv, Stacks
    <2>1. Encloses(OwnLinks(parent, owner, owner[x]), x, status[owner[x]])
        BY <2>0 DEF NInv, Innermost
    <2>2. CASE owner[x] # t
        <3>1. OwnLinks(parent, owner, owner[x]) = OwnLinks(parent', owner', owner[x])
            <4>1. ASSUME NEW y \in Scope
                  PROVE  /\ (parent[y] # None /\ owner[y] = owner[x] /\ owner[parent[y]] = owner[x])
                              <=> (parent'[y] # None /\ owner'[y] = owner[x] /\ owner'[parent'[y]] = owner[x])
                         /\ owner[y] = owner[x] /\ parent[y] # None => parent'[y] = parent[y]
                BY <1>0, <1>1, <2>2
            <4> QED
                BY <4>1, OwnLinksSame
        <3> QED
            BY <1>1, <2>0, <2>1, <2>2, <3>1
    <2>3. CASE owner[x] = t
        <3> DEFINE p == OwnLinks(parent, owner, t)
                   q == OwnLinks(parent', owner', t)
        <3>1. p \in [Scope -> Scope \cup {None}]
            BY <1>0, OwnLinksType
        <3>2. Encloses(p, x, s)
            BY <2>1, <2>3
        <3>3. p[s] = parent[s] /\ Encloses(p, x, parent[s])
            <4>1. p[s] # None /\ Encloses(p, x, p[s])
                BY <1>1, <2>0, <3>1, <3>2, EnclosesStep
            <4>2. p[s] = parent[s]
                BY <1>0, <1>1, <4>1, OwnLinksType
            <4> QED
                BY <4>1, <4>2
        <3>4. ~Encloses(p, s, parent[s])
            <4>1. ~Encloses(parent, s, parent[s])
                BY <1>0, <1>1, CancelScopeAssumption DEF NInv, IInv, Tree, Forest
            <4>2. \A y \in Scope : p[y] # None => parent[y] = p[y]
                BY <1>0, OwnLinksType
            <4> HIDE DEF p
            <4> QED
                BY <4>1, <4>2, EnclosesMore
        <3>5. \A y \in Scope \ {s} : q[y] = p[y]
            BY <1>0, <1>1 DEF OwnLinks
        <3> HIDE DEF p, q
        <3>6. Encloses(q, x, parent[s])
            BY <1>0, <1>1, <2>0, <3>1, <3>3, <3>4, <3>5, EnclosesCut
        <3> QED
            BY <1>1, <2>3, <3>6 DEF q
    <2> QED
        BY <2>2, <2>3
<1>6. Innermost'
    BY <1>5 DEF Innermost
<1> QED
    BY <1>2, <1>3, <1>4, <1>6

(***************************************************************************)
(* __exit__ of a scope of the program.  That nothing else is in the scope  *)
(* is no assumption on the program: nurseries see to it.                   *)
(***************************************************************************)
LEMMA ExitOwned ==
    ASSUME NInv, NEW t \in Task, Code(t), NEW s \in PlainScope, Exit(t, s)
    PROVE  /\ s \in active \ {Root} /\ status[t] = s /\ owner[s] = t
           /\ \A u \in Task : parent_nursery[u] # s
           /\ CloseScope(t, s, InFlight(t), [status EXCEPT ![t] = parent[s]])
<1>1. s \in active \ {Root} /\ status[t] = s /\ s \in Scope /\ s \notin NurseryKind
    BY DEF Exit, PlainScope, NurseryKind
<1>2. \A u \in Task : parent_nursery[u] # s
    BY <1>1, CancelScopeAssumption DEF NInv, Membership, Alive
<1>3. owner[s] = t
    BY <1>1, <1>2 DEF NInv, Stacks, Code, Outside
<1> QED
    BY <1>1, <1>2, <1>3 DEF Exit

(***************************************************************************)
(* Leaving such a block disturbs no nursery.                               *)
(***************************************************************************)
LEMMA ExitAside ==
    ASSUME NInv, NEW t \in Task, Code(t), NEW s \in PlainScope, Exit(t, s),
           SameNurseries, pc' = pc
    PROVE  Aside'
<1>0. NurseryTypeOK /\ TypeOK /\ active \subseteq Scope /\ s \notin NurseryKind
    BY DEF NInv, IInv, TypeOK, PlainScope, NurseryKind
<1>1. /\ s \in active \ {Root} /\ status[t] = s /\ owner[s] = t
      /\ \A u \in Task : parent_nursery[u] # s
      /\ CloseScope(t, s, InFlight(t), [status EXCEPT ![t] = parent[s]])
    BY ExitOwned
<1>2. /\ \A u \in Task \ {t} : status[u] # s
      /\ \A u \in Task \ {t} : status'[u] = status[u]
      /\ active' = active \ {s}
      /\ UNCHANGED <<has_been_entered, owner, current, wait, next_send>>
    BY <1>1, CloseFacts
<1>3. GroundedTogether(parent, new_nursery)' /\ NoOrphans' /\ Stacks' /\ Innermost'
    <2>1. pc'[t] \notin Outside /\ pc[t] \notin Outside
        BY DEF Code, Outside
    <2>2. UNCHANGED <<new_nursery, parent_nursery>> /\ \A u \in Task \ {t} : pc'[u] = pc[u]
        BY DEF SameNurseries
    <2> QED
        BY <1>1, <2>1, <2>2, CloseTree
<1>4. Lives' /\ Membership'
    BY <1>1, <1>2 DEF NInv, SameNurseries, Lives, Membership, Alive
<1>5. Blocks'
    <2>1. \A u \in Task : pc[u] \in InAexit => u # t
        BY DEF Code, InAexit
    <2> QED
        BY <1>0, <1>2, <2>1 DEF NInv, SameNurseries, Blocks, InAexit
<1>6. Waiting'
    <2>1. \A n \in parent_waiting_in_aexit : owner[n] # t
        BY DEF Code, NInv, Waiting
    <2> QED
        BY <1>2, <2>1 DEF NInv, SameNurseries, Waiting
<1>7. StartBlocks'
    <2>1. Emptied' = Emptied
        BY <1>0, <1>2 DEF Emptied, SameNurseries, NurseryKind
    <2>2. \A o \in StartScope \cap active : owner[o] # t
        BY DEF Code, NInv, StartBlocks, InAexit
    <2>3. \A o \in StartScope \cap nested_child_running : owner[o] # t
        BY DEF Code, NInv, StartBlocks
    <2> QED
        BY <1>2, <2>1, <2>2, <2>3 DEF NInv, SameNurseries, StartBlocks
<1>8. Starts'
    BY <1>0, <1>2 DEF NInv, SameNurseries, Starts, NurseryKind
<1> QED
    BY <1>3, <1>4, <1>5, <1>6, <1>7, <1>8 DEF Aside

(***************************************************************************)
(* The nursery that __aexit__ closes is the innermost scope of its task    *)
(* and has no tasks.                                                       *)
(***************************************************************************)
LEMMA AexitOwned ==
    ASSUME NInv, NEW t \in Task, AexitClose(t)
    PROVE  /\ status[t] \in active \ {Root} /\ owner[status[t]] = t
           /\ status[t] \in closed /\ status[t] \in NurseryKind
           /\ \A u \in Task : parent_nursery[u] # status[t]
           /\ pending_excs[status[t]] \in Exception
<1>1. /\ status[t] \in active /\ owner[status[t]] = t /\ status[t] \in closed
      /\ status[t] \in NurseryKind
    BY DEF AexitClose, NInv, Blocks, InAexit
<1>2. status[t] \in Scope \ {Root}
    BY <1>1, NurseryAssumption DEF NurseryKind
<1>3. \A u \in Task : parent_nursery[u] # status[t]
    BY <1>1, <1>2, CancelScopeAssumption DEF NInv, Membership, Alive
<1> QED
    BY <1>1, <1>2, <1>3 DEF NInv, NurseryTypeOK

(***************************************************************************)
(* The end of __aexit__ leaves every other nursery as it is.               *)
(***************************************************************************)
LEMMA AexitCloseAside ==
    ASSUME NInv, NEW t \in Task, AexitClose(t)
    PROVE  Aside'
<1> DEFINE n == status[t]
<1>0. NurseryTypeOK /\ TypeOK /\ active \subseteq Scope
    BY DEF NInv, IInv, TypeOK
<1>1. /\ n \in active \ {Root} /\ owner[n] = t /\ n \in closed
      /\ \A u \in Task : parent_nursery[u] # n
    BY AexitOwned
<1>2. /\ current = t /\ pc[t] = "close"
      /\ CloseScope(t, n, pending_excs[n], [status EXCEPT ![t] = parent[n]])
      /\ UNCHANGED <<children, parent_nursery, nested_child_running,
                     parent_waiting_in_aexit, pending_starts, closed, new_nursery>>
    BY DEF AexitClose
<1>3. /\ pc'[t] \in {"code", "returned", "finally"}
      /\ \A u \in Task \ {t} : pc'[u] = pc[u]
    BY <1>0 DEF AexitClose, Goto, NurseryTypeOK
<1>4. /\ \A u \in Task \ {t} : status[u] # n
      /\ \A u \in Task \ {t} : status'[u] = status[u]
      /\ active' = active \ {n}
      /\ UNCHANGED <<has_been_entered, owner, current, wait, next_send>>
    BY <1>1, <1>2, CloseFacts
<1>5. GroundedTogether(parent, new_nursery)' /\ NoOrphans' /\ Stacks' /\ Innermost'
    <2>1. pc'[t] \notin Outside /\ pc[t] \notin Outside
        BY <1>2, <1>3 DEF Outside
    <2> QED
        BY <1>1, <1>2, <1>3, <2>1, CloseTree
<1> HIDE DEF n
<1>6. Lives'
    BY <1>2, <1>3, <1>4 DEF NInv, Lives, Alive, Busy
<1>7. Membership'
    BY <1>1, <1>2, <1>4 DEF NInv, Membership, Alive
<1>8. Blocks'
    <2>1. \A u \in Task : pc'[u] \in InAexit => u # t
        BY <1>3 DEF InAexit
    <2> QED
        BY <1>1, <1>2, <1>3, <1>4, <2>1 DEF NInv, Blocks, InAexit
<1>9. Waiting'
    BY <1>1, <1>2, <1>3, <1>4 DEF NInv, Waiting
<1>10. StartBlocks'
    <2>1. Emptied' = Emptied /\ Emptied = {}
        BY <1>1, <1>2, <1>4 DEF Emptied, NInv, StartBlocks
    <2>2. \A o \in StartScope \cap active' : owner[o] # t
        BY <1>4 DEF NInv, StartBlocks, n
    <2>3. \A o \in StartScope \cap nested_child_running : owner[o] # t
        BY <1>2 DEF NInv, StartBlocks
    <2> QED
        BY <1>2, <1>3, <1>4, <2>1, <2>2, <2>3 DEF NInv, StartBlocks
<1>11. Starts'
    BY <1>1, <1>2, <1>4 DEF NInv, Starts
<1> QED
    BY <1>5, <1>6, <1>7, <1>8, <1>9, <1>10, <1>11 DEF Aside

(***************************************************************************)
(* Steps that leave the tree of scopes and the tasks in it alone.          *)
(***************************************************************************)
LEMMA TreeFrame ==
    ASSUME NInv, SameTree, UNCHANGED <<status, parent_nursery>>,
           \A x \in Scope : new_nursery'[x] = new_nursery[x] \/ new_nursery'[x] = None,
           \A u \in Task : pc'[u] \in Outside <=> pc[u] \in Outside
    PROVE  GroundedTogether(parent, new_nursery)' /\ NoOrphans' /\ Stacks' /\ Innermost'
<1>1. NoOrphans' /\ Innermost'
    BY DEF NInv, SameTree, NoOrphans, Innermost
<1>2. GroundedTogether(parent, new_nursery)'
    BY CancelScopeAssumption DEF NInv, SameTree, GroundedTogether
<1>3. Stacks'
    BY DEF NInv, SameTree, Stacks, Alive
<1> QED
    BY <1>1, <1>2, <1>3

(***************************************************************************)
(* __aexit__ when the nested child has finished.                           *)
(***************************************************************************)
LEMMA NestedAside ==
    ASSUME NInv, NEW t \in Task, NEW n \in NurseryScope, NestedChildFinished(t, n)
    PROVE  Aside'
<1>0. /\ NurseryTypeOK /\ TypeOK /\ OneStateAtATime /\ n \in Scope
      /\ n \notin StartScope /\ n \in NurseryKind
    BY NurseryAssumption DEF NInv, IInv, NurseryKind
<1>1. /\ current = t /\ pc[t] = "code" /\ status[t] = n /\ owner[n] = t
      /\ nested_child_running' = nested_child_running \ {n}
      /\ pc' = [pc EXCEPT ![t] = "aexit"]
      /\ SameTree
      /\ UNCHANGED <<status, current, children, parent_nursery, new_nursery,
                     parent_waiting_in_aexit, pending_starts, closed>>
    BY DEF NestedChildFinished, Code, Goto, SameTree
<1>2. \A u \in Task : pc'[u] = IF u = t THEN "aexit" ELSE pc[u]
    BY <1>0, <1>1 DEF NurseryTypeOK
<1>3. \A u \in Task : NudgeAt(u)
    <2>1. CASE UNCHANGED <<wait, next_send>>
        BY <2>1 DEF NudgeAt
    <2>2. CASE Recalculate(cancel_called \cup {n}, shield, parent,
                           effectively_cancelled, status, {n})
        BY <1>0, <2>2, DeliverNudges DEF Recalculate
    <2> QED
        BY <2>1, <2>2 DEF NestedChildFinished, CancelFor
<1>4. GroundedTogether(parent, new_nursery)' /\ NoOrphans' /\ Stacks' /\ Innermost'
    BY <1>1, <1>2, TreeFrame DEF Outside
<1>5. n \in active
    BY <1>1 DEF NInv, NoOrphans
<1>6. Lives'
    BY <1>0, <1>1, <1>2, <1>3 DEF NInv, Lives, Alive, Busy, NudgeAt, OneStateAtATime
<1>7. Membership'
    BY <1>1, <1>2 DEF NInv, Membership, Alive, SameTree
<1>8. Blocks'
    BY <1>0, <1>1, <1>2, <1>5 DEF NInv, Blocks, InAexit, SameTree
<1>9. Waiting'
    BY <1>1, <1>2, <1>3 DEF NInv, Waiting, SameTree, NudgeAt
<1>10. StartBlocks'
    <2>1. Emptied' = Emptied /\ Emptied = {}
        BY <1>0, <1>1 DEF Emptied, NInv, StartBlocks, SameTree
    <2> QED
        BY <1>1, <1>2, <2>1 DEF NInv, StartBlocks, InAexit, SameTree
<1>11. Starts'
    BY <1>1 DEF NInv, Starts, SameTree
<1> QED
    BY <1>4, <1>6, <1>7, <1>8, <1>9, <1>10, <1>11 DEF Aside

(***************************************************************************)
(* __aexit__ goes to sleep because a child or a start() is left.           *)
(***************************************************************************)
LEMMA AexitWaitAside ==
    ASSUME NInv, NEW t \in Task, AexitWait(t)
    PROVE  Aside'
<1> DEFINE n == status[t]
<1>0. NurseryTypeOK /\ TypeOK /\ OneStateAtATime
    BY DEF NInv, IInv
<1>1. /\ current = t /\ pc[t] = "aexit"
      /\ ~NothingLeft(n)
      /\ parent_waiting_in_aexit' = parent_waiting_in_aexit \cup {n}
      /\ WaitTaskRescheduled(t, "cancels")
      /\ pc' = [pc EXCEPT ![t] = "waiting"]
      /\ UNCHANGED <<children, nested_child_running, pending_starts,
                     parent_nursery, closed, new_nursery>>
    BY DEF AexitWait, Goto
<1>2. /\ \A u \in Task : pc'[u] = IF u = t THEN "waiting" ELSE pc[u]
      /\ SameTree /\ status' = status /\ current' = None
      /\ wait'[t] \in {"cancels", "failed"}
      /\ \A u \in Task \ {t} : wait'[u] = wait[u] /\ next_send'[u] = next_send[u]
    BY <1>0, <1>1 DEF NurseryTypeOK, WaitTaskRescheduled, AfterAbort, SameTree,
        TypeOK
<1>3. /\ n \in active /\ owner[n] = t /\ n \notin nested_child_running
      /\ n \in NurseryKind /\ n \in Scope
      /\ n \notin parent_waiting_in_aexit
    BY <1>0, <1>1 DEF NInv, Blocks, InAexit, Waiting, TypeOK
<1>4. children[n] # {} \/ pending_starts[n] > 0
    BY <1>0, <1>1, <1>3 DEF NothingLeft, NurseryTypeOK
<1>5. n \notin closed
    <2>1. CASE children[n] # {}
        BY <1>3, <2>1, CancelScopeAssumption
        DEF NInv, Membership, Alive, NurseryTypeOK
    <2>2. CASE pending_starts[n] > 0
        <3>1. Cardinality(StartsInto(new_nursery, n)) > 0
            BY <1>3, <2>2 DEF NInv, Starts
        <3>2. StartsInto(new_nursery, n) # {}
            BY <3>1, FS_EmptySet
        <3> QED
            BY <1>3, <3>2, CancelScopeAssumption DEF NInv, Starts, StartsInto
    <2> QED
        BY <1>4, <2>1, <2>2
<1>6. GroundedTogether(parent, new_nursery)' /\ NoOrphans' /\ Stacks' /\ Innermost'
    BY <1>1, <1>2, TreeFrame DEF Outside
<1> HIDE DEF n
<1>7. Lives'
    BY <1>1, <1>2, CancelScopeAssumption DEF NInv, Lives, Alive, Busy
<1>8. Membership'
    BY <1>1, <1>2 DEF NInv, Membership, Alive, SameTree
<1>9. Blocks'
    BY <1>1, <1>2, <1>3 DEF NInv, Blocks, InAexit, SameTree, n
<1>10. Waiting'
    <2>1. ASSUME NEW m \in parent_waiting_in_aexit
          PROVE  owner[m] # t
        BY <1>1 DEF NInv, Waiting
    <2> QED
        BY <1>1, <1>2, <1>3, <1>4, <1>5, <2>1 DEF NInv, Waiting, SameTree, n
<1>11. StartBlocks'
    <2>1. Emptied' = Emptied /\ Emptied = {}
        BY <1>1, <1>2 DEF Emptied, NInv, StartBlocks, SameTree
    <2> QED
        BY <1>1, <1>2, <2>1 DEF NInv, StartBlocks, InAexit, SameTree
<1>12. Starts'
    BY <1>1, <1>2 DEF NInv, Starts, SameTree
<1> QED
    BY <1>6, <1>7, <1>8, <1>9, <1>10, <1>11, <1>12 DEF Aside

(***************************************************************************)
(* __aexit__ with nothing to wait for: the nursery is closed at once.      *)
(***************************************************************************)
LEMMA AexitCheckpointAside ==
    ASSUME NInv, NEW t \in Task, AexitCheckpoint(t)
    PROVE  Aside'
<1> DEFINE n == status[t]
<1>0. NurseryTypeOK /\ TypeOK /\ OneStateAtATime
    BY DEF NInv, IInv
<1>1. /\ current = t /\ pc[t] = "aexit"
      /\ NothingLeft(n)
      /\ closed' = closed \cup {n}
      /\ CancelShieldedCheckpoint(t)
      /\ pc' = [pc EXCEPT ![t] = "checkpoint"]
      /\ UNCHANGED <<children, nested_child_running, pending_starts,
                     parent_waiting_in_aexit, parent_nursery, new_nursery>>
    BY DEF AexitCheckpoint, Goto
<1>2. /\ \A u \in Task : pc'[u] = IF u = t THEN "checkpoint" ELSE pc[u]
      /\ SameTree /\ status' = status /\ current' = None /\ wait' = wait
      /\ next_send'[t] = "Value"
      /\ \A u \in Task \ {t} : next_send'[u] = next_send[u]
    BY <1>0, <1>1 DEF NurseryTypeOK, CancelShieldedCheckpoint, SameTree, TypeOK,
        scopeVars
<1>3. /\ n \in active /\ owner[n] = t /\ n \in NurseryKind /\ n \in Scope
      /\ n \notin parent_waiting_in_aexit /\ n \in has_been_entered
    BY <1>0, <1>1 DEF NInv, Blocks, InAexit, Waiting, TypeOK
<1>4. \A u \in Task : parent_nursery[u] # n
    BY <1>0, <1>1, <1>3 DEF NothingLeft, NInv, Membership
<1>5. \A x \in Scope : new_nursery[x] # n
    <2>1. /\ IsFiniteSet(StartsInto(new_nursery, n))
          /\ Cardinality(StartsInto(new_nursery, n)) = 0
        BY <1>1, <1>3 DEF NInv, Starts, NothingLeft
    <2>2. StartsInto(new_nursery, n) = {}
        BY <2>1, FS_EmptySet
    <2> QED
        BY <2>2 DEF StartsInto
<1>6. GroundedTogether(parent, new_nursery)' /\ NoOrphans' /\ Stacks' /\ Innermost'
    BY <1>1, <1>2, TreeFrame DEF Outside
<1> HIDE DEF n
<1>7. Lives'
    BY <1>1, <1>2, CancelScopeAssumption DEF NInv, Lives, Alive, Busy
<1>8. Membership'
    BY <1>1, <1>2, <1>4 DEF NInv, Membership, Alive, SameTree
<1>9. Blocks'
    <2>1. \A u \in Task : pc[u] = "spawn" => FALSE
        BY <1>1 DEF NInv, Lives, Busy
    <2> QED
        BY <1>1, <1>2, <1>3, <2>1 DEF NInv, Blocks, InAexit, SameTree, n
<1>10. Waiting'
    <2>1. ASSUME NEW m \in parent_waiting_in_aexit
          PROVE  owner[m] # t /\ m # n
        BY <1>1, <1>3 DEF NInv, Waiting
    <2> QED
        BY <1>1, <1>2, <2>1 DEF NInv, Waiting, SameTree
<1>11. StartBlocks'
    <2>1. Emptied' \subseteq Emptied /\ Emptied = {}
        BY <1>1, <1>2 DEF Emptied, NInv, StartBlocks, SameTree
    <2> QED
        BY <1>1, <1>2, <2>1 DEF NInv, StartBlocks, InAexit, SameTree
<1>12. Starts'
    BY <1>1, <1>2, <1>5 DEF NInv, Starts, SameTree
<1> QED
    BY <1>6, <1>7, <1>8, <1>9, <1>10, <1>11, <1>12 DEF Aside

(***************************************************************************)
(* The parent runs again in __aexit__, when its nursery is closed.         *)
(***************************************************************************)
LEMMA ResumeAexitAside ==
    ASSUME NInv, NEW t \in Task, ResumeInAexit(t) \/ ResumeCancelled(t)
    PROVE  Aside'
<1>0. NurseryTypeOK /\ TypeOK /\ OneStateAtATime
    BY DEF NInv, IInv
<1>1. /\ pc[t] \in {"waiting", "checkpoint", "cancelled"} /\ current = None
      /\ next_send[t] # "none"
      /\ SameTree /\ SameNurseries /\ UNCHANGED <<status, wait>>
      /\ \A u \in Task \ {t} : pc'[u] = pc[u] /\ next_send'[u] = next_send[u]
      /\ \/ pc'[t] = "cancelled" /\ next_send'[t] = "Cancelled" /\ current' = None
         \/ pc'[t] = "close" /\ next_send'[t] = "none" /\ current' = t
    <2>1. CASE ResumeInAexit(t)
        BY <1>0, <2>1 DEF ResumeInAexit, SameTree, SameNurseries, Goto,
            NurseryTypeOK, TypeOK, scopeVars
    <2>2. CASE ResumeCancelled(t)
        BY <1>0, <2>2 DEF ResumeCancelled, SameTree, SameNurseries, Goto,
            NurseryTypeOK, TypeOK, NInv, Lives
    <2> QED
        BY <2>1, <2>2
<1>2. /\ status[t] \in closed /\ status[t] \in NurseryKind \cap active
      /\ owner[status[t]] = t
    BY <1>0, <1>1 DEF NInv, Blocks, InAexit, Waiting, OneStateAtATime
<1>3. GroundedTogether(parent, new_nursery)' /\ NoOrphans' /\ Stacks' /\ Innermost'
    <2>1. \A u \in Task : pc'[u] \in Outside <=> pc[u] \in Outside
        BY <1>1 DEF Outside
    <2> QED
        BY <1>1, <2>1, TreeFrame DEF SameNurseries
<1>4. Lives'
    <2>1. \A u \in Task : pc[u] \notin Busy
        BY <1>1, CancelScopeAssumption DEF NInv, Lives
    <2> QED
        BY <1>1, <2>1 DEF NInv, Lives, Alive, SameNurseries, Busy
<1>5. Membership' /\ Starts'
    BY <1>1 DEF NInv, Membership, Starts, Alive, SameTree, SameNurseries
<1>6. Blocks'
    BY <1>1, <1>2 DEF NInv, Blocks, InAexit, SameTree, SameNurseries
<1>7. Waiting'
    <2>1. ASSUME NEW m \in parent_waiting_in_aexit
          PROVE  owner[m] # t
        BY <1>2 DEF NInv, Waiting
    <2> QED
        BY <1>1, <2>1 DEF NInv, Waiting, SameTree, SameNurseries
<1>8. StartBlocks'
    <2>1. Emptied' = Emptied /\ Emptied = {}
        BY <1>1, CancelScopeAssumption
        DEF Emptied, NInv, StartBlocks, SameTree, SameNurseries
    <2> QED
        BY <1>1, <2>1 DEF NInv, StartBlocks, InAexit, SameTree, SameNurseries
<1> QED
    BY <1>3, <1>4, <1>5, <1>6, <1>7, <1>8 DEF Aside

(***************************************************************************)
(* A new task starts in its nursery's scope, with a stack of its own.      *)
(***************************************************************************)
LEMMA BirthTree ==
    ASSUME NInv, NEW u \in Task, NEW n \in Scope, n \in active \ {Root},
           pc[u] = "unborn", SameTree, new_nursery' = new_nursery,
           \A v \in Task : status'[v] = IF v = u THEN n ELSE status[v],
           \A v \in Task : parent_nursery'[v] = IF v = u THEN n ELSE parent_nursery[v],
           pc'[u] \notin Outside,
           \A v \in Task \ {u} : pc'[v] \in Outside <=> pc[v] \in Outside
    PROVE  GroundedTogether(parent, new_nursery)' /\ NoOrphans' /\ Stacks' /\ Innermost'
<1>1. GroundedTogether(parent, new_nursery)' /\ NoOrphans'
    BY DEF NInv, SameTree, GroundedTogether, NoOrphans
<1>2. \A s \in active \ {Root} : owner[s] \in Task /\ owner[s] # u
    BY DEF NInv, Stacks, Outside
<1>3. Stacks'
    BY <1>2, CancelScopeAssumption DEF NInv, SameTree, Stacks, Alive
<1>4. Innermost'
    BY <1>2 DEF NInv, SameTree, Innermost
<1> QED
    BY <1>1, <1>3, <1>4

(***************************************************************************)
(* start_soon() puts a child into an open nursery.                         *)
(***************************************************************************)
LEMMA StartSoonAside ==
    ASSUME NInv, NEW t \in Task, NEW u \in Task, NEW n \in NurseryScope,
           StartSoon(t, u, n)
    PROVE  Aside'
<1>0. /\ NurseryTypeOK /\ TypeOK /\ OneStateAtATime /\ n \in Scope \ {Root}
      /\ n \notin StartScope /\ n \in NurseryKind
    BY NurseryAssumption DEF NInv, IInv, NurseryKind
<1>1. /\ current = t /\ pc[t] = "code" /\ n \notin closed /\ n \in active
      /\ pc[u] = "unborn" /\ SameTree
      /\ UNCHANGED <<current, wait, nested_child_running, parent_waiting_in_aexit,
                     pending_starts, closed, new_nursery>>
    BY DEF StartSoon, Code, Spawn, SameTree, scopeVars
<1>2. /\ \A v \in Task : status'[v] = IF v = u THEN n ELSE status[v]
      /\ \A v \in Task : next_send'[v] = IF v = u THEN "Value" ELSE next_send[v]
      /\ \A v \in Task : parent_nursery'[v] = IF v = u THEN n ELSE parent_nursery[v]
      /\ \A v \in Task : pc'[v] = IF v = u THEN "code" ELSE pc[v]
      /\ \A m \in Scope : children'[m] = IF m = n THEN children[m] \cup {u}
                                                  ELSE children[m]
    BY <1>0 DEF StartSoon, Spawn, Goto, NurseryTypeOK, TypeOK
<1>2a. /\ \A m \in Scope : \A v \in Task :
             v \in children'[m] <=> v \in children[m] \/ (m = n /\ v = u)
       /\ \A m \in Scope : children[m] # {} => children'[m] # {}
       /\ \A m \in Scope \ {n} : children'[m] = children[m]
    BY <1>2
<1>3. GroundedTogether(parent, new_nursery)' /\ NoOrphans' /\ Stacks' /\ Innermost'
    BY <1>0, <1>1, <1>2, BirthTree DEF Outside
<1>4. parent_nursery[u] = None
    BY <1>1 DEF NInv, Lives, Alive
<1>5. Lives'
    BY <1>0, <1>1, <1>2, CancelScopeAssumption DEF NInv, Lives, Alive, Busy
<1>6. Membership'
    <2>1. \A v \in Task, m \in Scope : v \in children'[m] <=> parent_nursery'[v] = m
        BY <1>0, <1>2, <1>2a, <1>4, CancelScopeAssumption DEF NInv, Membership
    <2>2. \A v \in Task : Alive(v)' => parent_nursery'[v] \in
             (NurseryKind \cup {Root}) \cap (active' \ closed')
        BY <1>0, <1>1, <1>2 DEF NInv, Membership, Alive, SameTree
    <2> QED
        BY <2>1, <2>2 DEF Membership
<1>7. Blocks'
    <2>1. \A v \in Task : pc[v] # "spawn"
        BY <1>1 DEF NInv, Lives, Busy
    <2> QED
        BY <1>1, <1>2, <2>1 DEF NInv, Blocks, InAexit, SameTree
<1>8. Waiting'
    <2>1. \A m \in parent_waiting_in_aexit : owner[m] # u /\ m \in Scope
        BY <1>0, <1>1 DEF NInv, Waiting, NurseryTypeOK
    <2> QED
        BY <1>1, <1>2, <1>2a, <2>1 DEF NInv, Waiting, SameTree
<1>9. StartBlocks'
    <2>1. Emptied' = Emptied /\ Emptied = {}
        BY <1>0, <1>1, <1>2a, NurseryAssumption
        DEF Emptied, NInv, StartBlocks, SameTree
    <2> QED
        BY <1>1, <1>2, <2>1 DEF NInv, StartBlocks, InAexit, SameTree
<1>10. Starts'
    <2>1. \A o \in Scope : new_nursery[o] # None => o # n
        BY <1>0 DEF NInv, Starts
    <2> QED
        BY <1>1, <1>2, <2>1 DEF NInv, Starts, SameTree
<1> QED
    BY <1>3, <1>5, <1>6, <1>7, <1>8, <1>9, <1>10 DEF Aside

(***************************************************************************)
(* start() spawns its child in the old nursery.                            *)
(***************************************************************************)
LEMMA StartSpawnAside ==
    ASSUME NInv, NEW t \in Task, NEW u \in Task, StartSpawn(t, u)
    PROVE  Aside'
<1> DEFINE o == status[t]
<1>0. NurseryTypeOK /\ TypeOK /\ OneStateAtATime
    BY DEF NInv, IInv
<1>1. /\ current = t /\ pc[t] = "spawn" /\ pc[u] = "unborn" /\ SameTree /\ t # u
      /\ nested_child_running' = nested_child_running \ {o}
      /\ UNCHANGED <<current, wait, parent_waiting_in_aexit, pending_starts,
                     closed, new_nursery>>
    BY DEF StartSpawn, Spawn, SameTree, scopeVars
<1>2. /\ o \in StartScope /\ o \in active \ closed /\ owner[o] = t
      /\ o \in Scope \ {Root} /\ children[o] = {} /\ o \in NurseryKind
      /\ o \notin NurseryScope
    BY <1>1, NurseryAssumption DEF NInv, Blocks, InAexit, NurseryKind
<1>3. /\ \A v \in Task : status'[v] = IF v = u THEN o ELSE status[v]
      /\ \A v \in Task : next_send'[v] = IF v = u THEN "Value" ELSE next_send[v]
      /\ \A v \in Task : parent_nursery'[v] = IF v = u THEN o ELSE parent_nursery[v]
      /\ \A v \in Task : pc'[v] = IF v = u THEN "code" ELSE
                                  IF v = t THEN "aexit" ELSE pc[v]
      /\ \A m \in Scope : children'[m] = IF m = o THEN {u} ELSE children[m]
    BY <1>0 DEF StartSpawn, Spawn, NurseryTypeOK, TypeOK
<1> HIDE DEF o
<1>4. GroundedTogether(parent, new_nursery)' /\ NoOrphans' /\ Stacks' /\ Innermost'
    <2>1. pc'[u] \notin Outside
          /\ \A v \in Task \ {u} : pc'[v] \in Outside <=> pc[v] \in Outside
        BY <1>1, <1>3 DEF Outside
    <2> QED
        BY <1>1, <1>2, <1>3, <2>1, BirthTree
<1>5. parent_nursery[u] = None
    BY <1>1 DEF NInv, Lives, Alive
<1>6. Lives'
    BY <1>0, <1>1, <1>2, <1>3, CancelScopeAssumption DEF NInv, Lives, Alive, Busy
<1>7. Membership'
    <2>1. \A v \in Task : parent_nursery[v] # o
        BY <1>2 DEF NInv, Membership
    <2> QED
        BY <1>1, <1>2, <1>3, <1>5, <2>1, CancelScopeAssumption
        DEF NInv, Membership, Alive, SameTree
<1>8. Blocks'
    <2>1. \A v \in Task : pc'[v] # "spawn"
        BY <1>1, <1>3 DEF NInv, Lives, Busy
    <2>2. status[t] = o
        BY DEF o
    <2> QED
        BY <1>1, <1>2, <1>3, <2>1, <2>2 DEF NInv, Blocks, InAexit, SameTree
<1>9. Waiting'
    <2>1. \A m \in parent_waiting_in_aexit : owner[m] # u /\ owner[m] # t /\ m \in Scope
        BY <1>0, <1>1 DEF NInv, Waiting, NurseryTypeOK
    <2>2. \A m \in Scope : m \in NurseryScope => m # o
        BY <1>2
    <2> QED
        BY <1>1, <1>3, <2>1, <2>2 DEF NInv, Waiting, SameTree
<1>10. StartBlocks'
    <2>1. Emptied = {}
        BY <1>1 DEF NInv, StartBlocks
    <2>2. Emptied' = {}
        BY <1>1, <1>2, <1>3, <2>1, NurseryAssumption DEF Emptied, SameTree
    <2>3. \A q \in StartScope \cap nested_child_running' : owner[q] # t
        BY <1>1 DEF NInv, StartBlocks, o
    <2> QED
        BY <1>1, <1>3, <2>2, <2>3 DEF NInv, StartBlocks, InAexit, SameTree
<1>11. Starts'
    <2>1. \A q \in Scope : new_nursery[q] # None => owner[new_nursery[q]] # u
        BY <1>1, NurseryAssumption DEF NInv, Starts, Stacks, Outside
    <2> QED
        BY <1>1, <1>3, <2>1 DEF NInv, Starts, SameTree
<1> QED
    BY <1>4, <1>6, <1>7, <1>8, <1>9, <1>10, <1>11 DEF Aside

(***************************************************************************)
(* A task that ends has left all its blocks.                               *)
(***************************************************************************)
LEMMA EndOwnsNothing ==
    ASSUME NInv, NEW t \in Task, Block(status, owner, t) = t
    PROVE  \A s \in active \ {Root} : owner[s] # t
<1>0. TypeOK /\ parent \in [Scope -> Scope \cup {None}] /\ active \subseteq Scope
    BY DEF NInv, IInv, TypeOK
<1>1. status[t] \in Scope /\ owner[status[t]] # t
    BY <1>0, CancelScopeAssumption DEF Block, TypeOK
<1> SUFFICES ASSUME NEW s \in active \ {Root}, owner[s] = t
             PROVE  FALSE
    OBVIOUS
<1> DEFINE p == OwnLinks(parent, owner, t)
<1>2. Encloses(p, s, status[t]) /\ s # status[t] /\ s \in Scope
    BY <1>0, <1>1 DEF NInv, Innermost
<1>3. p \in [Scope -> Scope \cup {None}]
    BY <1>0, OwnLinksType
<1>4. p[status[t]] # None
    BY <1>1, <1>2, <1>3, EnclosesStep
<1> QED
    BY <1>0, <1>1, <1>4, OwnLinksType

(***************************************************************************)
(* task_exited passes the outcome on.                                      *)
(***************************************************************************)
LEMMA TaskExitedAside ==
    ASSUME NInv, NEW t \in Task, TaskExited(t)
    PROVE  Aside'
<1>0. NurseryTypeOK /\ TypeOK /\ OneStateAtATime
    BY DEF NInv, IInv
<1>1. /\ current = t /\ pc[t] = "code" /\ Block(status, owner, t) = t
      /\ SameTree /\ SameNurseries /\ current' = current
    BY DEF TaskExited, Code, SameTree, SameNurseries
<1>2. /\ \A u \in Task : pc'[u] = IF u = t THEN "exiting" ELSE pc[u]
      /\ \A u \in Task : status'[u] = IF u = t THEN Root ELSE status[u]
    BY <1>0 DEF TaskExited, Goto, NurseryTypeOK, TypeOK
<1>3. \A u \in Task : NudgeAt(u)
    <2>1. CASE UNCHANGED <<wait, next_send>>
        BY <2>1 DEF NudgeAt
    <2>2. ASSUME NEW c, NEW R, Recalculate(c, shield, parent, effectively_cancelled,
                                           status, R)
          PROVE  \A u \in Task : NudgeAt(u)
        BY <1>0, <2>2, DeliverNudges DEF Recalculate
    <2> QED
        BY <2>1, <2>2 DEF TaskExited, CancelFor
<1>4. \A s \in active \ {Root} : owner[s] # t
    BY <1>1, EndOwnsNothing
<1>5. GroundedTogether(parent, new_nursery)' /\ NoOrphans' /\ Stacks' /\ Innermost'
    <2>1. GroundedTogether(parent, new_nursery)'
        BY <1>1 DEF NInv, SameTree, SameNurseries, GroundedTogether
    <2>2. NoOrphans'
        BY <1>1, <1>2 DEF NInv, SameTree, NoOrphans, IInv, Tree
    <2>3. Stacks'
        BY <1>1, <1>2, <1>4 DEF NInv, SameTree, SameNurseries, Stacks, Alive, Outside
    <2>4. Innermost'
        BY <1>1, <1>2, <1>4 DEF NInv, SameTree, Innermost, Stacks
    <2> QED
        BY <2>1, <2>2, <2>3, <2>4
<1>6. Lives'
    BY <1>0, <1>1, <1>2, <1>3 DEF NInv, Lives, Alive, Busy, NudgeAt, OneStateAtATime,
        SameNurseries
<1>7. Membership'
    BY <1>1, <1>2 DEF NInv, Membership, Alive, SameTree, SameNurseries
<1>8. Blocks'
    BY <1>1, <1>2 DEF NInv, Blocks, InAexit, SameTree, SameNurseries
<1>9. Waiting'
    BY <1>1, <1>2, <1>3 DEF NInv, Waiting, SameTree, SameNurseries, NudgeAt
<1>10. StartBlocks'
    <2>1. Emptied' = Emptied /\ Emptied = {}
        BY <1>1 DEF Emptied, NInv, StartBlocks, SameTree, SameNurseries
    <2> QED
        BY <1>1, <1>2, <2>1 DEF NInv, StartBlocks, InAexit, SameTree, SameNurseries
<1>11. Starts'
    BY <1>1 DEF NInv, Starts, SameTree, SameNurseries
<1> QED
    BY <1>5, <1>6, <1>7, <1>8, <1>9, <1>10, <1>11 DEF Aside

(***************************************************************************)
(* _check_nursery_closed either finds something left, or closes a nursery  *)
(* to which no task and no start() refers any more, and wakes the parent   *)
(* that sleeps in it.                                                      *)
(***************************************************************************)
Checked(n) ==
    \/ /\ ~NothingLeft(n)
       /\ UNCHANGED <<closed, parent_waiting_in_aexit, next_send, wait>>
    \/ /\ NothingLeft(n)
       /\ closed' = closed \cup {n}
       /\ parent_waiting_in_aexit' = parent_waiting_in_aexit \ {n}
       /\ \A u \in Task : parent_nursery'[u] # n
       /\ \A x \in Scope : new_nursery'[x] # n
       /\ \A u \in Task :
             IF n \in parent_waiting_in_aexit /\ u = owner[n]
             THEN next_send'[u] = "Value" /\ wait'[u] = "none"
             ELSE next_send'[u] = next_send[u] /\ wait'[u] = wait[u]

(***************************************************************************)
(* It does so when children and pending_starts say what the tasks and the  *)
(* calls of start() say.                                                   *)
(***************************************************************************)
LEMMA CheckFacts ==
    ASSUME NInv, NEW n \in Scope, CheckNurseryClosed(n),
           \A u \in Task : u \in children'[n] <=> parent_nursery'[u] = n,
           IsFiniteSet(StartsInto(new_nursery', n)),
           pending_starts'[n] = Cardinality(StartsInto(new_nursery', n))
    PROVE  Checked(n)
<1>1. CASE ~NothingLeft(n)
    BY <1>1 DEF CheckNurseryClosed, Checked
<1>2. CASE NothingLeft(n)
    <2>1. /\ closed' = closed \cup {n}
          /\ parent_waiting_in_aexit' = parent_waiting_in_aexit \ {n}
          /\ IF n \in parent_waiting_in_aexit
             THEN /\ next_send' = [next_send EXCEPT ![owner[n]] = "Value"]
                  /\ wait' = [wait EXCEPT ![owner[n]] = "none"]
             ELSE UNCHANGED <<next_send, wait>>
        BY <1>2 DEF CheckNurseryClosed
    <2>2. \A u \in Task : parent_nursery'[u] # n
        BY <1>2 DEF NothingLeft
    <2>3. \A x \in Scope : new_nursery'[x] # n
        <3>1. StartsInto(new_nursery', n) = {}
            BY <1>2, FS_EmptySet DEF NothingLeft
        <3> QED
            BY <3>1 DEF StartsInto
    <2>4. ASSUME NEW u \in Task
          PROVE  IF n \in parent_waiting_in_aexit /\ u = owner[n]
                 THEN next_send'[u] = "Value" /\ wait'[u] = "none"
                 ELSE next_send'[u] = next_send[u] /\ wait'[u] = wait[u]
        BY <2>1 DEF NInv, IInv, TypeOK
    <2> QED
        BY <1>2, <2>1, <2>2, <2>3, <2>4 DEF Checked
<1> QED
    BY <1>1, <1>2

(***************************************************************************)
(* The nursery n that was checked is not kept waiting for nothing.         *)
(***************************************************************************)
LEMMA CheckedWaiting ==
    ASSUME NInv, NEW n \in Scope, Checked(n), SameTree,
           nested_child_running' = nested_child_running,
           pending_starts'[n] \in Nat,
           \A m \in Scope \ {n} : children'[m] = children[m]
                                  /\ pending_starts'[m] = pending_starts[m],
           \A u \in Task : pc[u] = "waiting" =>
               pc'[u] = "waiting" /\ status'[u] = status[u]
    PROVE  Waiting'
<1>0. NurseryTypeOK
    BY DEF NInv
<1> SUFFICES ASSUME NEW m \in parent_waiting_in_aexit'
             PROVE  /\ m \in active' \ closed'
                    /\ owner'[m] \in Task
                    /\ pc'[owner'[m]] = "waiting"
                    /\ status'[owner'[m]] = m
                    /\ wait'[owner'[m]] \in {"cancels", "failed"}
                    /\ m \in NurseryScope => children'[m] # {} \/ pending_starts'[m] > 0
    BY DEF Waiting
<1>1. /\ m \in parent_waiting_in_aexit /\ m \in Scope
      /\ m \in active \ closed /\ owner[m] \in Task /\ pc[owner[m]] = "waiting"
      /\ status[owner[m]] = m /\ wait[owner[m]] \in {"cancels", "failed"}
      /\ m \in NurseryScope => children[m] # {} \/ pending_starts[m] > 0
      /\ m \notin nested_child_running
    BY <1>0 DEF Checked, NInv, Waiting, Blocks, NurseryTypeOK
<1>2. CASE m = n
    <2>1. ~NothingLeft(n) /\ UNCHANGED <<closed, wait>>
        BY <1>2 DEF Checked
    <2>2. children'[m] # {} \/ pending_starts'[m] > 0
        BY <1>1, <1>2, <2>1 DEF NothingLeft
    <2> QED
        BY <1>1, <2>1, <2>2 DEF SameTree
<1>3. CASE m # n
    <2>1. n \in parent_waiting_in_aexit => owner[m] # owner[n]
        BY <1>1, <1>3 DEF NInv, Waiting
    <2>2. m \notin closed' /\ wait'[owner[m]] = wait[owner[m]]
        BY <1>1, <1>3, <2>1 DEF Checked
    <2> QED
        BY <1>1, <1>3, <2>2 DEF SameTree
<1> QED
    BY <1>2, <1>3

(***************************************************************************)
(* The end of start() gives the new nursery one thing less to wait for.    *)
(***************************************************************************)
LEMMA StartReturnsAside ==
    ASSUME NInv, NEW t \in Task, NEW o \in StartScope, StartReturns(t, o)
    PROVE  Aside'
<1> DEFINE n == new_nursery[o]
<1>0. NurseryTypeOK /\ TypeOK /\ OneStateAtATime /\ o \in Scope
    BY NurseryAssumption DEF NInv, IInv
<1>1. /\ current = t /\ pc[t] \in {"returned", "finally"} /\ n # None
      /\ pending_starts' = [pending_starts EXCEPT ![n] = @ - 1]
      /\ new_nursery' = [new_nursery EXCEPT ![o] = None]
      /\ pc' = [pc EXCEPT ![t] = "code"]
      /\ CheckNurseryClosed(n)
      /\ SameTree
      /\ UNCHANGED <<children, nested_child_running, parent_nursery, status, current>>
    BY DEF StartReturns, Goto, SameTree, scopeVars
<1>2. n \in Scope /\ n \in NurseryScope \cap (active \ closed)
    BY <1>0, <1>1 DEF NInv, Starts, NurseryTypeOK
<1>3. /\ \A u \in Task : pc'[u] = IF u = t THEN "code" ELSE pc[u]
      /\ \A x \in Scope : new_nursery'[x] = IF x = o THEN None ELSE new_nursery[x]
      /\ \A m \in Scope : pending_starts'[m] = IF m = n THEN pending_starts[m] - 1
                                                        ELSE pending_starts[m]
    BY <1>0, <1>1 DEF NurseryTypeOK
<1>4. ASSUME NEW m \in Scope
      PROVE  /\ IsFiniteSet(StartsInto(new_nursery', m))
             /\ pending_starts'[m] = Cardinality(StartsInto(new_nursery', m))
    <2>1. /\ IsFiniteSet(StartsInto(new_nursery, m))
          /\ pending_starts[m] = Cardinality(StartsInto(new_nursery, m))
          /\ new_nursery \in [Scope -> Scope \cup {None}] /\ new_nursery[o] = n
        BY <1>0 DEF NInv, Starts, NurseryTypeOK
    <2> HIDE DEF n
    <2>2. /\ o \in Scope /\ n \in Scope
          /\ \A x \in Scope : new_nursery'[x] = IF x = o THEN None ELSE new_nursery[x]
        BY <1>0, <1>2, <1>3
    <2>3. /\ IsFiniteSet(StartsInto(new_nursery', m))
          /\ Cardinality(StartsInto(new_nursery', m)) =
                IF m = n THEN Cardinality(StartsInto(new_nursery, m)) - 1
                         ELSE Cardinality(StartsInto(new_nursery, m))
        BY ONLY <1>4, <2>1, <2>2, StartsIntoLess
    <2> QED
        BY <1>3, <2>1, <2>3
<1> HIDE DEF n
<1>5. Checked(n)
    BY <1>0, <1>1, <1>2, <1>4, CheckFacts DEF NInv, Membership
<1>6. GroundedTogether(parent, new_nursery)' /\ NoOrphans' /\ Stacks' /\ Innermost'
    <2>1. \A u \in Task : pc'[u] \in Outside <=> pc[u] \in Outside
        BY <1>1, <1>3 DEF Outside
    <2> QED
        BY <1>1, <1>3, <2>1, TreeFrame
<1>7. Lives'
    <2>1. n \in parent_waiting_in_aexit => pc[owner[n]] = "waiting"
        BY DEF NInv, Waiting
    <2> QED
        BY <1>1, <1>3, <1>5, <2>1 DEF NInv, Lives, Alive, Busy, Checked
<1>8. Membership'
    BY <1>1, <1>3, <1>5 DEF NInv, Membership, Alive, SameTree, Checked
<1>9. Blocks'
    <2>1. \A u \in Task : pc'[u] # "spawn"
        BY <1>1, <1>3 DEF NInv, Lives, Busy
    <2>2. n \in has_been_entered /\ closed \subseteq closed'
        BY <1>0, <1>2, <1>5 DEF TypeOK, Checked
    <2> QED
        BY <1>1, <1>2, <1>3, <1>5, <2>1, <2>2
        DEF NInv, Blocks, InAexit, SameTree, Checked
<1>10. Waiting'
    <2>1. pending_starts'[n] \in Nat
        BY <1>2, <1>4, FS_CardinalityType
    <2> QED
        BY <1>1, <1>2, <1>3, <1>5, <2>1, CheckedWaiting
<1>11. StartBlocks'
    <2>1. Emptied' = Emptied /\ Emptied = {}
        BY <1>1, <1>2, <1>5, NurseryAssumption
        DEF Emptied, NInv, StartBlocks, SameTree, Checked
    <2> QED
        BY <1>1, <1>3, <2>1 DEF NInv, StartBlocks, InAexit, SameTree
<1>12. Starts'
    <2>1. \A q \in Scope : new_nursery'[q] # None =>
             new_nursery'[q] = new_nursery[q] /\ new_nursery'[q] \notin closed'
        BY <1>3, <1>5 DEF Checked, NInv, Starts
    <2>2. ASSUME NEW q \in Scope, new_nursery'[q] # None
          PROVE  /\ q \in StartScope \cap has_been_entered
                 /\ new_nursery'[q] \in NurseryScope \cap (active \ closed')
                 /\ \A u \in Task : parent_nursery[u] = q => owner[new_nursery'[q]] # u
        BY <2>1, <2>2 DEF NInv, Starts
    <2>3. \A m \in Scope :
             /\ IsFiniteSet(StartsInto(new_nursery', m))
             /\ pending_starts'[m] = Cardinality(StartsInto(new_nursery', m))
        BY <1>4
    <2>4. \A m : StartsInto(new_nursery', m) = StartsInto(new_nursery, m)'
        BY DEF StartsInto
    <2> QED
        BY <1>1, <2>2, <2>3, <2>4 DEF Starts, SameTree
<1> QED
    BY <1>6, <1>7, <1>8, <1>9, <1>10, <1>11, <1>12 DEF Aside

(***************************************************************************)
(* The end of started() closes the old nursery that it has emptied.        *)
(***************************************************************************)
LEMMA StartedPokeAside ==
    ASSUME NInv, NEW t \in Task, NEW o \in StartScope, StartedPoke(t, o)
    PROVE  Aside'
<1>0. NurseryTypeOK /\ TypeOK /\ OneStateAtATime /\ o \in Scope
    BY NurseryAssumption DEF NInv, IInv
<1>1. /\ current = t /\ pc[t] = "poke" /\ o \in active \ closed /\ children[o] = {}
      /\ CheckNurseryClosed(o)
      /\ pc' = [pc EXCEPT ![t] = "code"]
      /\ SameTree
      /\ UNCHANGED <<children, nested_child_running, pending_starts, parent_nursery,
                     status, current, new_nursery>>
    BY DEF StartedPoke, Goto, SameTree, scopeVars
<1>2. \A u \in Task : pc'[u] = IF u = t THEN "code" ELSE pc[u]
    BY <1>0, <1>1 DEF NurseryTypeOK
<1>3. o \notin nested_child_running /\ pending_starts[o] = 0
    <2>1. o \notin nested_child_running
        BY <1>1 DEF NInv, StartBlocks, Lives, Busy
    <2>2. StartsInto(new_nursery, o) = {}
        BY <1>0, CancelScopeAssumption, NurseryAssumption DEF StartsInto, NInv, Starts
    <2> QED
        BY <1>0, <2>1, <2>2, FS_EmptySet DEF NInv, Starts
<1>4. Checked(o) /\ NothingLeft(o)
    <2>1. Checked(o)
        BY <1>0, <1>1, CheckFacts DEF NInv, Membership, Starts
    <2> QED
        BY <1>1, <1>3, <2>1 DEF NothingLeft
<1>5. GroundedTogether(parent, new_nursery)' /\ NoOrphans' /\ Stacks' /\ Innermost'
    <2>1. \A u \in Task : pc'[u] \in Outside <=> pc[u] \in Outside
        BY <1>1, <1>2 DEF Outside
    <2> QED
        BY <1>1, <2>1, TreeFrame
<1>6. Lives'
    <2>1. o \in parent_waiting_in_aexit => pc[owner[o]] = "waiting"
        BY DEF NInv, Waiting
    <2> QED
        BY <1>1, <1>2, <1>4, <2>1 DEF NInv, Lives, Alive, Busy, Checked
<1>7. Membership'
    BY <1>1, <1>2, <1>4 DEF NInv, Membership, Alive, SameTree, Checked
<1>8. Blocks'
    <2>1. \A u \in Task : pc'[u] # "spawn"
        BY <1>1, <1>2 DEF NInv, Lives, Busy
    <2>2. o \in has_been_entered
        BY <1>0, <1>1 DEF TypeOK
    <2> QED
        BY <1>1, <1>2, <1>4, <2>1, <2>2
        DEF NInv, Blocks, InAexit, SameTree, Checked
<1>9. Waiting'
    <2>1. pending_starts'[o] \in Nat
        BY <1>0, <1>1 DEF NurseryTypeOK
    <2> QED
        BY <1>0, <1>1, <1>2, <1>4, <2>1, CheckedWaiting
<1>10. StartBlocks'
    <2>1. o \in Emptied /\ o \in closed'
        BY <1>1, <1>3, <1>4 DEF Emptied, Checked
    <2>2. Emptied' = {}
        <3>1. Emptied' \subseteq Emptied \ {o}
            BY <1>1, <1>4, <2>1 DEF Emptied, SameTree, Checked
        <3> QED
            BY <2>1, <3>1 DEF NInv, StartBlocks
    <2> QED
        BY <1>1, <1>2, <2>2 DEF NInv, StartBlocks, InAexit, SameTree
<1>11. Starts'
    BY <1>1, <1>4 DEF NInv, Starts, SameTree, Checked
<1> QED
    BY <1>5, <1>6, <1>7, <1>8, <1>9, <1>10, <1>11 DEF Aside

(***************************************************************************)
(* The nursery of a task that has ended is poked.                          *)
(***************************************************************************)
LEMMA ChildFinishedAside ==
    ASSUME NInv, NEW t \in Task, ChildFinished(t)
    PROVE  Aside'
<1> DEFINE n == parent_nursery[t]
<1>0. NurseryTypeOK /\ TypeOK /\ OneStateAtATime
    BY DEF NInv, IInv
<1>1. /\ current = t /\ pc[t] = "exiting" /\ current' = None
      /\ CheckNurseryClosed(n) /\ SameTree
      /\ UNCHANGED <<nested_child_running, pending_starts, status, new_nursery>>
    BY DEF ChildFinished, SameTree, scopeVars
<1>2. Alive(t) /\ n \in Scope /\ n \in active \ closed
      /\ n \in NurseryKind \cup {Root}
    BY <1>0, <1>1 DEF NInv, Lives, Membership, Alive, NurseryTypeOK
<1>3. /\ \A u \in Task : pc'[u] = IF u = t THEN "dead" ELSE pc[u]
      /\ \A u \in Task : parent_nursery'[u] = IF u = t THEN None ELSE parent_nursery[u]
      /\ \A m \in Scope : children'[m] = IF m = n THEN children[m] \ {t} ELSE children[m]
    BY <1>0 DEF ChildFinished, Goto, NurseryTypeOK
<1>4. \A u \in Task, m \in Scope : u \in children'[m] <=> parent_nursery'[u] = m
    <2>1. \A u \in Task, m \in Scope : u \in children[m] <=> parent_nursery[u] = m
        BY DEF NInv, Membership
    <2>2. \A u \in Task, m \in Scope :
             u \in children'[m] <=> u \in children[m] /\ ~(m = n /\ u = t)
        BY <1>3
    <2>3. \A m \in Scope : t \in children'[m] <=> parent_nursery'[t] = m
        BY <1>3, <2>1, <2>2, CancelScopeAssumption
    <2>4. \A u \in Task \ {t}, m \in Scope :
             u \in children'[m] <=> parent_nursery'[u] = m
        BY <1>3, <2>1, <2>2
    <2> QED
        BY <2>3, <2>4
<1> HIDE DEF n
<1>5. Checked(n)
    BY <1>1, <1>2, <1>4, CheckFacts DEF NInv, Starts
<1>6. GroundedTogether(parent, new_nursery)' /\ NoOrphans' /\ Stacks' /\ Innermost'
    <2>1. GroundedTogether(parent, new_nursery)' /\ NoOrphans' /\ Innermost'
        BY <1>1 DEF NInv, SameTree, GroundedTogether, NoOrphans, Innermost
    <2>2. \A s \in active \ {Root} : owner[s] # t
        BY <1>1 DEF NInv, Stacks, Outside
    <2>3. Stacks'
        BY <1>1, <1>3, <2>2 DEF NInv, SameTree, Stacks, Alive, Outside
    <2> QED
        BY <2>1, <2>3
<1>7. n \in parent_waiting_in_aexit => pc[owner[n]] = "waiting"
    BY DEF NInv, Waiting
<1>8. Lives'
    <2>1. next_send[t] = "none" /\ wait[t] = "none"
        BY <1>0, <1>1 DEF OneStateAtATime
    <2>2. next_send'[t] = "none" /\ wait'[t] = "none"
        BY <1>1, <1>5, <1>7, <2>1 DEF Checked
    <2> QED
        BY <1>1, <1>3, <1>5, <1>7, <2>2, CancelScopeAssumption
        DEF NInv, Lives, Alive, Busy, Checked
<1>9. Membership'
    BY <1>1, <1>3, <1>4, <1>5 DEF NInv, Membership, Alive, SameTree, Checked
<1>10. Blocks'
    <2>1. \A u \in Task : pc'[u] # "spawn"
        BY <1>1, <1>3 DEF NInv, Lives, Busy
    <2>2. n \in has_been_entered
        BY <1>0, <1>2 DEF TypeOK
    <2> QED
        BY <1>1, <1>3, <1>5, <2>1, <2>2
        DEF NInv, Blocks, InAexit, SameTree, Checked
<1>11. Waiting'
    <2>1. pending_starts'[n] \in Nat
        BY <1>0, <1>1, <1>2 DEF NurseryTypeOK
    <2>2. \A u \in Task : pc[u] = "waiting" =>
             pc'[u] = "waiting" /\ status'[u] = status[u]
        BY <1>1, <1>3
    <2> QED
        BY <1>1, <1>2, <1>3, <1>5, <2>1, <2>2, CheckedWaiting
<1>12. StartBlocks'
    <2>1. Emptied = {}
        BY <1>1 DEF NInv, StartBlocks
    <2>2. Emptied' = {}
        <3> SUFFICES ASSUME NEW o \in Emptied'
                     PROVE  FALSE
            OBVIOUS
        <3>1. /\ o \in StartScope /\ o \in Scope /\ o \in active \ closed'
              /\ children'[o] = {} /\ o \notin nested_child_running
            BY <1>1, NurseryAssumption DEF Emptied, SameTree
        <3>2. CASE o = n
            <4>1. StartsInto(new_nursery, o) = {}
                BY <3>1, CancelScopeAssumption, NurseryAssumption
                DEF StartsInto, NInv, Starts
            <4>2. pending_starts[o] = 0
                BY <3>1, <4>1, FS_EmptySet DEF NInv, Starts
            <4> QED
                BY <1>1, <1>5, <3>1, <3>2, <4>2 DEF Checked, NothingLeft
        <3>3. CASE o # n
            BY <1>3, <1>5, <2>1, <3>1, <3>3 DEF Emptied, Checked
        <3> QED
            BY <3>2, <3>3
    <2> QED
        BY <1>1, <1>3, <2>2 DEF NInv, StartBlocks, InAexit, SameTree
<1>13. Starts'
    BY <1>1, <1>3, <1>5, CancelScopeAssumption DEF NInv, Starts, SameTree, Checked
<1> QED
    BY <1>6, <1>8, <1>9, <1>10, <1>11, <1>12, <1>13 DEF Aside

--------------------------------------------------------------------------------
(***************************************************************************)
(* started() with a move: the children of the old nursery o, the statuses  *)
(* below it and the tasks in it go to n; the caller of start() stays.      *)
(***************************************************************************)
Moves(t, o, n) ==
    /\ current = t /\ pc[t] = "code"
    /\ o \in StartScope \cap active /\ o \in Scope /\ new_nursery[o] = n
    /\ n \in NurseryScope \cap (active \ closed) /\ n \in Scope \ StartScope /\ n # o
    /\ owner[o] \in Task \ {t} /\ status[owner[o]] = o /\ pc[owner[o]] \in InAexit
    /\ \A u \in Task :
          status'[u] = IF status[u] = o /\ u # owner[o] THEN n ELSE status[u]
    /\ \A s \in Scope : parent'[s] = IF parent[s] = o THEN n ELSE parent[s]
    /\ \A u \in Task : parent_nursery'[u] =
          IF parent_nursery[u] = o THEN n ELSE parent_nursery[u]
    /\ \A u \in Task, m \in Scope : u \in children'[m] <=> parent_nursery'[u] = m
    /\ \A m \in Scope : children'[m] \subseteq Task
    /\ \A u \in Task : NudgeAt(u)
    /\ \A u \in Task : pc'[u] =
          IF u # t THEN pc[u] ELSE IF o \in closed THEN "code" ELSE "poke"
    /\ UNCHANGED <<has_been_entered, active, owner, current, nested_child_running,
                   parent_waiting_in_aexit, pending_starts, closed, new_nursery>>

(***************************************************************************)
(* What started() finds and what it does.                                  *)
(***************************************************************************)
LEMMA StartedFacts ==
    ASSUME NInv, NEW t \in Task, NEW o \in StartScope, Started(t, o), MayMove(o)
    PROVE  Moves(t, o, new_nursery[o])
<1> DEFINE n == new_nursery[o]
<1>0. NurseryTypeOK /\ TypeOK /\ o \in Scope
    BY NurseryAssumption DEF NInv, IInv
<1>1. /\ current = t /\ pc[t] = "code" /\ o \in StartScope \cap active /\ n # None
      /\ UNCHANGED <<has_been_entered, active, owner, current, nested_child_running,
                     parent_waiting_in_aexit, pending_starts, closed, new_nursery>>
    BY DEF Started, Code
<1>2. n \in NurseryScope \cap (active \ closed) /\ n \in Scope \ StartScope /\ n # o
    BY <1>0, <1>1, NurseryAssumption DEF NInv, Starts, NurseryTypeOK
<1>3. owner[o] \in Task \ {t} /\ status[owner[o]] = o /\ pc[owner[o]] \in InAexit
    BY <1>1 DEF NInv, StartBlocks, InAexit
<1>4. /\ Move(o, n)
      /\ children' = [children EXCEPT ![o] = {}, ![n] = @ \cup children[o]]
      /\ parent_nursery' = [u \in Task |->
                IF u \in children[o] THEN n ELSE parent_nursery[u]]
      /\ pc' = [pc EXCEPT ![t] = IF o \in closed THEN "code" ELSE "poke"]
    BY DEF Started, Goto
<1>5. /\ \A u \in Task :
            status'[u] = IF status[u] = o /\ u # owner[o] THEN n ELSE status[u]
      /\ \A s \in Scope : parent'[s] = IF parent[s] = o THEN n ELSE parent[s]
    BY <1>4 DEF Move, Children
<1>6. \A u \in Task : u \in children[o] <=> parent_nursery[u] = o
    BY <1>0 DEF NInv, Membership
<1>7. \A u \in Task : parent_nursery'[u] =
          IF parent_nursery[u] = o THEN n ELSE parent_nursery[u]
    BY <1>4, <1>6
<1>8. /\ \A m \in Scope : children'[m] =
            IF m = o THEN {} ELSE IF m = n THEN children[n] \cup children[o]
            ELSE children[m]
      /\ \A m \in Scope : children[m] \subseteq Task
    BY <1>0, <1>2, <1>4 DEF NurseryTypeOK
<1>9. \A u \in Task : pc'[u] =
          IF u # t THEN pc[u] ELSE IF o \in closed THEN "code" ELSE "poke"
    BY <1>0, <1>4 DEF NurseryTypeOK
<1>10. \A u \in Task : NudgeAt(u)
    <2>1. PICK c, st, T : T \in SUBSET Task /\ Deliver(c, st, T)
        <3> DEFINE moved == {u \in Task : status[u] = o} \ {owner[o]}
        <3>1. (IF n \in effectively_cancelled THEN moved ELSE {}) \subseteq Task
            OBVIOUS
        <3> QED
            BY <1>4, <3>1 DEF Move
    <2> QED
        BY <1>0, <2>1, DeliverNudges
<1> HIDE DEF n
<1>11. \A u \in Task, m \in Scope : u \in children[m] <=> parent_nursery[u] = m
    BY DEF NInv, Membership
<1>12. ASSUME NEW u \in Task, NEW m \in Scope
       PROVE  u \in children'[m] <=> parent_nursery'[u] = m
    <2>1. CASE m = o
        BY <1>0, <1>2, <1>7, <1>8, <1>11, <2>1
    <2>2. CASE m = n
        <3>1. u \in children'[m] <=> u \in children[n] \/ u \in children[o]
            BY <1>2, <1>8, <2>2
        <3> QED
            BY <1>0, <1>2, <1>7, <1>11, <2>2, <3>1
    <2>3. CASE m # o /\ m # n
        <3>1. u \in children'[m] <=> u \in children[m]
            BY <1>8, <2>3
        <3> QED
            BY <1>0, <1>2, <1>7, <1>11, <2>3, <3>1
    <2> QED
        BY <2>1, <2>2, <2>3
<1>13. \A m \in Scope : children'[m] \subseteq Task
    BY <1>0, <1>2, <1>8
<1>14. n = new_nursery[o]
    BY DEF n
<1> QED
    BY <1>0, <1>1, <1>2, <1>3, <1>5, <1>7, <1>9, <1>10, <1>12, <1>13, <1>14 DEF Moves

(***************************************************************************)
(* Whoever has a scope directly below the old nursery is one of its tasks. *)
(***************************************************************************)
LEMMA BelowOld ==
    ASSUME NInv, NEW t, NEW o, NEW n, Moves(t, o, n), NEW x \in Scope, parent[x] = o
    PROVE  /\ x \in active \ {Root} /\ owner[x] \in Task
           /\ parent_nursery[owner[x]] = o /\ owner[o] # owner[x]
           /\ owner[n] # owner[x]
<1>0. /\ parent \in [Scope -> Scope \cup {None}] /\ o \in Scope
      /\ \A y \in Scope : parent[y] # None => ~Encloses(parent, y, parent[y])
    BY DEF NInv, IInv, TypeOK, Tree, Forest, Moves
<1>1. x \in active \ {Root}
    BY <1>0, CancelScopeAssumption DEF NInv, IInv, Tree, Stacks
<1>2. /\ owner[x] \in Task
      /\ parent_nursery[owner[x]] = o \/ owner[o] = owner[x]
    BY <1>1 DEF NInv, Stacks
<1>3. owner[o] # owner[x]
    <2> SUFFICES ASSUME owner[o] = owner[x]
                 PROVE  FALSE
        OBVIOUS
    <2>1. Encloses(OwnLinks(parent, owner, owner[x]), x, o)
        BY <1>1 DEF NInv, Innermost, Moves
    <2>2. Encloses(parent, x, o)
        BY <1>0, <2>1, EnclosesMore, OwnLinksType
    <2> QED
        BY <1>0, <2>2, CancelScopeAssumption
<1>4. owner[n] # owner[x]
    BY <1>0, <1>2, <1>3, CancelScopeAssumption DEF NInv, Starts, Moves
<1> QED
    BY <1>1, <1>2, <1>3, <1>4

(***************************************************************************)
(* The target of a start() is above or beside its nursery, never below, so *)
(* moving there what is below makes no cycle.                              *)
(***************************************************************************)
LEMMA MoveGrounded ==
    ASSUME NInv, NEW t, NEW o, NEW n, Moves(t, o, n)
    PROVE  GroundedTogether(parent, new_nursery)'
<1> SUFFICES ASSUME NEW A \in SUBSET Scope, A # {},
                    \A x \in A : parent'[x] \in A \/ new_nursery[x] \in A
             PROVE  FALSE
    BY DEF GroundedTogether, Moves
<1>0. /\ \A x \in Scope : parent'[x] = IF parent[x] = o THEN n ELSE parent[x]
      /\ new_nursery[o] = n /\ o \in Scope
    BY DEF Moves
<1>1. CASE o \notin A /\ n \in A
    <2> DEFINE B == A \cup {o}
    <2>1. B \in SUBSET Scope /\ B # {}
        BY <1>0
    <2>2. \A x \in B : parent[x] \in B \/ new_nursery[x] \in B
        BY <1>0, <1>1
    <2> HIDE DEF B
    <2> QED
        BY <2>1, <2>2 DEF NInv, GroundedTogether
<1>2. CASE ~(o \notin A /\ n \in A)
    <2>1. \A x \in A : parent[x] \in A \/ new_nursery[x] \in A
        BY <1>0, <1>2
    <2> QED
        BY <2>1 DEF NInv, GroundedTogether
<1> QED
    BY <1>1, <1>2

(***************************************************************************)
(* The stacks of the moved tasks now start at the new nursery.             *)
(***************************************************************************)
LEMMA MoveTree ==
    ASSUME NInv, NEW t, NEW o, NEW n, Moves(t, o, n)
    PROVE  NoOrphans' /\ Stacks' /\ Innermost'
<1>0. /\ parent \in [Scope -> Scope \cup {None}] /\ owner \in [Scope -> Task \cup {None}]
      /\ status \in [Task -> Scope] /\ active \subseteq Scope
      /\ parent_nursery \in [Task -> Scope \cup {None}]
      /\ o \in Scope /\ n \in Scope /\ n # o /\ o # Root /\ n # Root
      /\ current = t /\ pc[t] = "code" /\ owner[o] # t /\ n \in active
    BY NurseryAssumption DEF NInv, IInv, TypeOK, NurseryTypeOK, Moves
<1>1. /\ \A u \in Task :
            status'[u] = IF status[u] = o /\ u # owner[o] THEN n ELSE status[u]
      /\ \A s \in Scope : parent'[s] = IF parent[s] = o THEN n ELSE parent[s]
      /\ \A u \in Task : parent_nursery'[u] =
            IF parent_nursery[u] = o THEN n ELSE parent_nursery[u]
      /\ UNCHANGED <<active, owner, new_nursery>>
    BY DEF Moves
<1>2. \A u \in Task : pc'[u] \in Outside <=> pc[u] \in Outside
    BY <1>0 DEF Moves, Outside
<1>3. \A u \in Task : status[u] = o /\ u # owner[o] => parent_nursery[u] = o
    BY <1>0 DEF NInv, Stacks
<1>4. \A u \in Task : parent_nursery[u] = o => owner[n] # u /\ owner[o] # u
    BY <1>0, CancelScopeAssumption DEF NInv, Starts, Stacks, Alive, Moves
<1>5. NoOrphans'
    BY <1>0, <1>1 DEF NInv, NoOrphans
<1>6. Stacks'
    <2>1. owner'[Root] = None /\ parent'[Root] = None
        BY <1>0, <1>1, CancelScopeAssumption DEF NInv, Stacks
    <2>2. ASSUME NEW s \in active \ {Root}
          PROVE  /\ owner[s] \in Task
                 /\ pc'[owner[s]] \notin Outside
                 /\ parent'[s] = parent_nursery'[owner[s]] \/ owner[parent'[s]] = owner[s]
        <3>1. /\ owner[s] \in Task /\ pc[owner[s]] \notin Outside
              /\ parent[s] = parent_nursery[owner[s]] \/ owner[parent[s]] = owner[s]
            BY DEF NInv, Stacks
        <3>2. CASE parent[s] = o
            BY <1>0, <1>1, <1>2, <3>1, <3>2, BelowOld
        <3>3. CASE parent[s] # o
            BY <1>0, <1>1, <1>2, <3>1, <3>3
        <3> QED
            BY <3>2, <3>3
    <2>3. ASSUME NEW u \in Task, pc'[u] \notin Outside
          PROVE  status'[u] = parent_nursery'[u] \/ owner[status'[u]] = u
        <3>1. status[u] = parent_nursery[u] \/ owner[status[u]] = u
            BY <1>2, <2>3 DEF NInv, Stacks
        <3> QED
            BY <1>1, <1>3, <1>4, <3>1
    <2>4. ASSUME NEW u \in Task, parent_nursery'[u] # None
          PROVE  owner[parent_nursery'[u]] # u
        BY <1>1, <1>4, <2>4 DEF NInv, Stacks, Alive
    <2>5. ASSUME NEW u \in Task, pc'[u] \in Outside
          PROVE  status'[u] = Root
        BY <1>0, <1>1, <1>2, <2>5 DEF NInv, Stacks
    <2> QED
        BY <1>1, <2>1, <2>2, <2>3, <2>4, <2>5 DEF Stacks, Alive
<1>7. Innermost'
    <2> SUFFICES ASSUME NEW s \in active \ {Root}
                 PROVE  Encloses(OwnLinks(parent', owner, owner[s]), s, status'[owner[s]])
        BY <1>1 DEF Innermost
    <2> DEFINE w == owner[s]
    <2>1. w \in Task /\ Encloses(OwnLinks(parent, owner, w), s, status[w])
        BY DEF NInv, Innermost, Stacks
    <2> HIDE DEF w
    <2>2. OwnLinks(parent, owner, w) = OwnLinks(parent', owner, w)
        <3>1. \A x \in Scope :
                 (parent[x] # None /\ owner[x] = w /\ owner[parent[x]] = w)
                   <=> (parent'[x] # None /\ owner[x] = w /\ owner[parent'[x]] = w)
            <4> SUFFICES ASSUME NEW x \in Scope
                         PROVE (parent[x] # None /\ owner[x] = w /\ owner[parent[x]] = w)
                           <=> (parent'[x] # None /\ owner[x] = w /\ owner[parent'[x]] = w)
                OBVIOUS
            <4>1. CASE parent[x] = o
                BY <1>1, <4>1, BelowOld
            <4>2. CASE parent[x] # o
                BY <1>1, <4>2
            <4> QED
                BY <4>1, <4>2
        <3>2. \A x \in Scope : owner[x] = w /\ parent[x] # None /\ owner[parent[x]] = w
                 => parent'[x] = parent[x]
            BY <1>1, BelowOld
        <3> QED
            BY <3>1, <3>2, OwnLinksSame
    <2>3. status'[w] = status[w]
        <3> SUFFICES ASSUME status[w] = o, w # owner[o]
                     PROVE  FALSE
            BY <1>1, <2>1
        <3>1. s # o /\ s \in Scope /\ o \in Scope
            BY <1>0 DEF w
        <3>2. OwnLinks(parent, owner, w) \in [Scope -> Scope \cup {None}]
            BY <1>0, OwnLinksType
        <3>3. OwnLinks(parent, owner, w)[o] # None
            BY <2>1, <3>1, <3>2, EnclosesStep
        <3> QED
            BY <1>0, <3>3, OwnLinksType
    <2> QED
        BY <2>1, <2>2, <2>3 DEF w
<1> QED
    BY <1>5, <1>6, <1>7

(***************************************************************************)
(* started() leaves the nurseries in order: the old one is empty, and is   *)
(* poked next if it was still open.                                        *)
(***************************************************************************)
LEMMA StartedAside ==
    ASSUME NInv, NEW t \in Task, NEW o \in StartScope, Started(t, o), MayMove(o)
    PROVE  Aside'
<1> DEFINE n == new_nursery[o]
<1>0. Moves(t, o, n)
    BY StartedFacts
<1> HIDE DEF n
<1>1. NurseryTypeOK /\ TypeOK /\ OneStateAtATime
    BY DEF NInv, IInv
<1>2. GroundedTogether(parent, new_nursery)' /\ NoOrphans' /\ Stacks' /\ Innermost'
    BY <1>0, MoveGrounded, MoveTree
<1>3. \A u \in Task : pc[u] \in InAexit => status'[u] = status[u] /\ u # t
    BY <1>0 DEF NInv, Blocks, Moves, InAexit
<1>4. \A m \in Scope \ {o, n} : children'[m] = children[m]
    <2>1. \A u \in Task, m \in Scope : u \in children[m] <=> parent_nursery[u] = m
        BY DEF NInv, Membership
    <2>2. \A m \in Scope : children[m] \subseteq Task
        BY <1>1 DEF NurseryTypeOK
    <2>3. ASSUME NEW m \in Scope \ {o, n}
          PROVE  /\ \A u \in Task : u \in children'[m] <=> u \in children[m]
                 /\ children'[m] \subseteq Task
        BY <1>0, <2>1 DEF Moves
    <2> QED
        BY <2>2, <2>3
<1>5. children[n] \subseteq children'[n]
    <2>1. \A u \in Task : u \in children[n] => u \in children'[n]
        BY <1>0 DEF Moves, NInv, Membership
    <2> QED
        BY <1>0, <1>1, <2>1 DEF Moves, NurseryTypeOK
<1>6. Lives'
    <2>1. \A u \in Task : parent_nursery'[u] # None <=> parent_nursery[u] # None
        BY <1>0, CancelScopeAssumption DEF Moves
    <2> QED
        BY <1>0, <1>1, <2>1 DEF NInv, Lives, Alive, Busy, NudgeAt, OneStateAtATime, Moves
<1>7. Membership'
    BY <1>0 DEF NInv, Membership, Alive, Moves, NurseryKind
<1>8. Blocks'
    <2>1. \A u \in Task : pc'[u] \in InAexit => pc[u] \in InAexit /\ pc'[u] = pc[u]
        BY <1>0 DEF Moves, InAexit
    <2>2. ASSUME NEW u \in Task, pc[u] = "spawn"
          PROVE  children'[status[u]] = {}
        BY <1>0, <1>1, <2>2 DEF NInv, Lives, Busy, Moves
    <2> QED
        BY <1>0, <1>3, <2>1, <2>2 DEF NInv, Blocks, InAexit, Moves
<1>9. Waiting'
    <2> SUFFICES ASSUME NEW m \in parent_waiting_in_aexit
                 PROVE  /\ m \in active \ closed
                        /\ owner[m] \in Task
                        /\ pc'[owner[m]] = "waiting"
                        /\ status'[owner[m]] = m
                        /\ wait'[owner[m]] \in {"cancels", "failed"}
                        /\ m \in NurseryScope => children'[m] # {} \/ pending_starts[m] > 0
        BY <1>0 DEF Waiting, Moves
    <2>1. /\ m \in active \ closed /\ m \in Scope
          /\ owner[m] \in Task
          /\ pc[owner[m]] = "waiting"
          /\ status[owner[m]] = m
          /\ wait[owner[m]] \in {"cancels", "failed"}
          /\ m \in NurseryScope => children[m] # {} \/ pending_starts[m] > 0
        BY <1>1 DEF NInv, Waiting, NurseryTypeOK
    <2>2. pc'[owner[m]] = "waiting" /\ status'[owner[m]] = m
        BY <1>0, <1>3, <2>1 DEF Moves, InAexit
    <2>3. wait'[owner[m]] \in {"cancels", "failed"}
        BY <1>0, <2>1 DEF Moves, NudgeAt
    <2>4. m \in NurseryScope => children'[m] # {} \/ pending_starts[m] > 0
        <3>1. m \in NurseryScope => m # o
            BY <1>0, NurseryAssumption DEF Moves
        <3> QED
            BY <1>4, <1>5, <2>1, <3>1
    <2> QED
        BY <2>1, <2>2, <2>3, <2>4
<1>10. StartBlocks'
    <2>1. Emptied = {}
        BY <1>0, CancelScopeAssumption DEF NInv, StartBlocks, Moves
    <2>2. Emptied' \subseteq {o} \ closed
        <3> SUFFICES ASSUME NEW q \in Emptied', q # o
                     PROVE  FALSE
            BY <1>0 DEF Emptied, Moves
        <3>1. /\ q \in StartScope \cap (active \ closed) /\ q \in Scope \ {o, n}
              /\ children'[q] = {} /\ q \notin nested_child_running
            BY <1>0, NurseryAssumption DEF Emptied, Moves
        <3> QED
            BY <1>4, <2>1, <3>1 DEF Emptied
    <2>3. \A q \in Emptied' : current' = t /\ pc'[t] = "poke"
        BY <1>0, <2>2 DEF Moves
    <2>4. \A q \in StartScope \cap active :
             owner[q] \in Task /\ status'[owner[q]] = q /\ pc'[owner[q]] \in InAexit
        BY <1>0, <1>3 DEF NInv, StartBlocks, Moves
    <2>5. \A q \in StartScope \cap nested_child_running :
             owner[q] \in Task /\ status'[owner[q]] = q /\ pc'[owner[q]] = "spawn"
        BY <1>0, <1>3 DEF NInv, StartBlocks, Moves, InAexit
    <2> QED
        BY <1>0, <2>2, <2>3, <2>4, <2>5 DEF StartBlocks, Moves
<1>11. Starts'
    <2>1. \A q \in Scope : new_nursery[q] # None =>
             \A u \in Task : parent_nursery'[u] = q => parent_nursery[u] = q
        BY <1>0 DEF NInv, Starts, Moves
    <2> QED
        BY <1>0, <2>1 DEF NInv, Starts, StartsInto, Moves
<1> QED
    BY <1>2, <1>6, <1>7, <1>8, <1>9, <1>10, <1>11 DEF Aside

--------------------------------------------------------------------------------
(***************************************************************************)
(* recalculate() stays out of a set that holds no root and goes on to the  *)
(* parents.                                                                *)
(***************************************************************************)
LEMMA WalkStaysOut ==
    ASSUME NEW c, NEW sh, NEW p \in [Scope -> Scope \cup {None}], NEW e,
           NEW R \in SUBSET Scope, NEW U \in SUBSET Scope, UpwardClosed(p, U),
           R \cap U = {}
    PROVE  Changed(c, sh, p, e, R) \cap U = {}
<1> DEFINE ch == Changed(c, sh, p, e, R)
           A  == ch \ U
<1>1. ch \subseteq Scope /\ ChangeClosed(c, sh, p, e, R, ch)
    BY ChangedIsClosed
<1>2. ChangedRoot(c, sh, p, e, R) \subseteq A
    BY <1>1 DEF ChangedRoot, ChangeClosed
<1>3. ASSUME NEW x \in Scope, p[x] \in A, ChangedChild(c, sh, p, e, x)
      PROVE  x \in A
    <2>1. x \in ch
        BY <1>1, <1>3 DEF ChangeClosed
    <2>2. p[x] # None
        BY <1>1, <1>3, CancelScopeAssumption
    <2> QED
        BY <1>3, <2>1, <2>2 DEF UpwardClosed
<1>4. ChangeClosed(c, sh, p, e, R, A)
    BY <1>2, <1>3 DEF ChangeClosed
<1> QED
    BY <1>1, <1>4, ChangedIsLeast

(***************************************************************************)
(* recalculate() on children of n does not come back up to n.              *)
(***************************************************************************)
LEMMA TargetUntouched ==
    ASSUME NEW c, NEW sh, NEW p \in [Scope -> Scope \cup {None}], Grounded(p), NEW e,
           NEW R \in SUBSET Scope, NEW n \in Scope, \A r \in R : p[r] = n
    PROVE  n \notin Changed(c, sh, p, e, R)
<1> DEFINE U == {y \in Scope : Encloses(p, y, n)}
<1>1. U \in SUBSET Scope /\ n \in U
    BY EnclosesSelf
<1>2. UpwardClosed(p, U)
    <2>1. ASSUME NEW y \in U, p[y] # None
          PROVE  p[y] \in U
        <3>1. Encloses(p, p[y], y) /\ Encloses(p, y, n) /\ p[y] \in Scope
            BY <2>1, EnclosesSelf
        <3>2. Encloses(p, p[y], n)
            BY <3>1, EnclosesTransitive
        <3> QED
            BY <3>1, <3>2
    <2> QED
        BY <2>1 DEF UpwardClosed
<1>3. R \cap U = {}
    <2> SUFFICES ASSUME NEW r \in R, Encloses(p, r, n)
                 PROVE  FALSE
        OBVIOUS
    <2>1. p[r] = n /\ r \in Scope /\ p[r] # None
        BY CancelScopeAssumption
    <2> QED
        BY <2>1, GroundedNoCycle
<1> HIDE DEF U
<1> QED
    BY <1>1, <1>2, <1>3, WalkStaysOut

(***************************************************************************)
(* A step that moves tasks to the statuses st and links to the parents p   *)
(* before it recalculates from the roots R, flipping ch, and that delivers *)
(* Cancelled also to the tasks M that it has put into a cancelled status.  *)
(***************************************************************************)
Recalculates(c, p, st, R, M, ch, c2, T) ==
    /\ c \in SUBSET Scope /\ cancel_called \subseteq c
    /\ p \in [Scope -> Scope \cup {None}] /\ st \in [Task -> Scope]
    /\ R \in SUBSET active /\ M \in SUBSET Task
    /\ ch = Changed(c \cup LateScopes, shield, p, effectively_cancelled, R)
    /\ c2 = c \cup (Visited(p, R, ch) \cap LateScopes)
    /\ T = {t \in Task : st[t] \in ch \ effectively_cancelled} \cup M
    /\ Deliver(c2, st, T)
    /\ effectively_cancelled' = (effectively_cancelled \ ch)
                                    \cup (ch \ effectively_cancelled)
    /\ parent' = p /\ status' = st
    /\ \A r \in R : r \in c \/ p[r] \notin ch
    /\ \A s \in Scope : p[s] = None <=> parent[s] = None
    /\ \A s \in Scope : p[s] # None => p[s] \in has_been_entered
    /\ \A t \in Task : st[t] \in has_been_entered
    /\ \A t \in M : st[t] \in effectively_cancelled'
    /\ \A t \in Task : HasAbortFunc(t) /\ st[t] # status[t] =>
          t \in M \/ st[t] \notin effectively_cancelled
    /\ raised' \in [Scope \cup Task -> Exception]
    /\ UNCHANGED <<has_been_entered, active, shield, cancelled_caught, overdue,
                   abandoned, owner, current>>

(***************************************************************************)
(* Such a step keeps the invariant, if the statuses outside of its roots   *)
(* were consistent and the links make no cycle.                            *)
(***************************************************************************)
LEMMA RecalculateMoves ==
    ASSUME IInv, NEW c, NEW p, NEW st, NEW R, NEW M, NEW ch, NEW c2, NEW T,
           Recalculates(c, p, st, R, M, ch, c2, T), Forest',
           \A x \in active \ R : x \in effectively_cancelled
               <=> NewState(c, shield, p, effectively_cancelled, x)
    PROVE  IInv'
<1> DEFINE e  == effectively_cancelled
           e2 == effectively_cancelled'
<1>0. /\ R \in SUBSET Scope /\ active \in SUBSET Scope /\ e \in SUBSET Scope
      /\ TypeOK /\ OneStateAtATime /\ overdue \in SUBSET Scope
    BY DEF IInv, TypeOK, Recalculates
<1>1. /\ p \in [Scope -> Scope \cup {None}] /\ st \in [Task -> Scope]
      /\ ch = Changed(c \cup LateScopes, shield, p, effectively_cancelled, R)
      /\ e2 = (e \ ch) \cup (ch \ e)
      /\ c2 = c \cup (Visited(p, R, ch) \cap LateScopes)
      /\ parent' = p /\ status' = st /\ cancel_called \subseteq c
      /\ \A s \in Scope : p[s] = None <=> parent[s] = None
      /\ UNCHANGED <<has_been_entered, active, shield, cancelled_caught, overdue,
                     abandoned, owner, current>>
      /\ Deliver(c2, st, T)
    BY DEF Recalculates
<1>2. T \in SUBSET Task /\ c2 \in SUBSET Scope
    BY <1>0 DEF LateScopes, Recalculates
<1>3. \A t \in T : st[t] \in e2
    BY DEF Recalculates
<1>4. ch \subseteq Scope /\ ch \subseteq active
    <2>1. ch \subseteq Scope /\ ch \subseteq Visited(p, R, ch)
        BY ONLY <1>0, <1>1, ChangedIsClosed, ChangedIsVisited
    <2>2. ASSUME NEW x \in Scope, p[x] \in ch
          PROVE  x \in active
        <3>1. p[x] # None
            BY <2>1, <2>2, CancelScopeAssumption
        <3>2. parent[x] # None
            BY <1>1, <3>1
        <3> QED
            BY <3>2 DEF IInv, Tree
    <2> QED
        BY <2>1, <2>2 DEF Visited, Recalculates
<1>5. \A x \in active : x \in e2 <=> NewState(c2, shield, p, e2, x)
    <2>1. \A x \in active :
             x \in (e \ ch) \cup (ch \ e)
               <=> NewState(c \cup (Visited(p, R, ch) \cap LateScopes), shield,
                            p, (e \ ch) \cup (ch \ e), x)
        BY <1>0, RecalculateRepairs DEF Recalculates
    <2> QED
        BY <1>1, <2>1
<1>6. \A t \in Task : t \notin T => st[t] \notin ch \ e /\ t \notin M
    BY DEF Recalculates
<1>7. /\ OneStateAtATime'
      /\ \A t \in Task : HasAbortFunc(t)' => HasAbortFunc(t) /\ t \notin T
      /\ c2 \subseteq cancel_called'
      /\ \A x \in cancel_called' \ c2 : \E t \in T : x = st[t]
    <2>1. TypeOK /\ OneStateAtATime /\ Deliver(c2, st, T) /\ UNCHANGED current
          /\ T \in SUBSET Task
        BY <1>0, <1>1, <1>2
    <2> QED
        BY ONLY <2>1, DeliverFacts
<1>8. TypeOK'
    <2>1. /\ cancel_called' \subseteq Scope
          /\ wait' \in [Task -> Wait]
          /\ next_send' \in [Task -> {"none", "Value", "Cancelled"}]
        BY ONLY <1>0, <1>1, <1>2, DeliverType
    <2>2. e2 \subseteq Scope /\ raised' \in [Scope \cup Task -> Exception]
        BY <1>0, <1>1, <1>4 DEF Recalculates
    <2> QED
        BY <1>0, <1>1, <2>1, <2>2 DEF TypeOK
<1>9. Tree'
    <2>1. /\ \A s \in Scope : p[s] # None => p[s] \in has_been_entered
          /\ \A t \in Task : st[t] \in has_been_entered
        BY DEF Recalculates
    <2> QED
        BY <1>0, <1>1, <1>4, <2>1 DEF IInv, Tree, TypeOK
<1>10. Consistent'
    <2>1. \A x \in cancel_called' \ c2 : x \in e2
        BY <1>3, <1>7
    <2>2. \A x \in active : x \in e2 <=> NewState(cancel_called', shield, p, e2, x)
        BY ONLY <1>5, <1>7, <2>1, CancelAgain
    <2> QED
        BY <1>1, <2>2 DEF Consistent
<1>11. NoLostCancel'
    <2> SUFFICES ASSUME NEW t \in Task, HasAbortFunc(t)'
                 PROVE  st[t] \notin e2
        BY <1>1 DEF NoLostCancel
    <2>1. HasAbortFunc(t) /\ st[t] \notin ch \ e /\ t \notin M
        BY <1>6, <1>7
    <2>2. st[t] \notin e
        BY <2>1 DEF IInv, NoLostCancel, Recalculates
    <2> QED
        BY <1>1, <2>1, <2>2
<1>12. CaughtImpliesCancelled'
    <2>1. c \subseteq c2
        BY <1>1
    <2> QED
        BY <1>1, <1>7, <2>1 DEF IInv, CaughtImpliesCancelled
<1> QED
    BY <1>7, <1>8, <1>9, <1>10, <1>11, <1>12 DEF IInv

(***************************************************************************)
(* started() keeps the cancellation invariant: the walk starts from all    *)
(* the statuses it has moved and does not come back up to their new        *)
(* parent, and the tasks moved into a cancelled nursery get Cancelled.     *)
(***************************************************************************)
LEMMA StartedStep ==
    ASSUME NInv, NEW t \in Task, NEW o \in StartScope, Started(t, o), MayMove(o)
    PROVE  IInv'
<1> DEFINE n     == new_nursery[o]
           moved == {u \in Task : status[u] = o} \ {owner[o]}
           st    == [u \in Task |-> IF u \in moved THEN n ELSE status[u]]
           below == Children(parent, o)
           p     == [s \in Scope |-> IF s \in below THEN n ELSE parent[s]]
           e     == effectively_cancelled
           ch    == Changed(cancel_called \cup LateScopes, shield, p, e, below)
           M     == IF n \in e THEN moved ELSE {}
<1>0. Moves(t, o, n)
    BY StartedFacts
<1>1. Move(o, n)
    BY DEF Started
<1>2. /\ status' = st /\ parent' = p
      /\ effectively_cancelled' = (e \ ch) \cup (ch \ e)
      /\ Deliver(cancel_called \cup (Visited(p, below, ch) \cap LateScopes), st,
                 {u \in Task : st[u] \in ch \ e} \cup M)
    BY <1>1 DEF Move
<1>3. /\ UNCHANGED <<has_been_entered, active, shield, cancelled_caught, overdue,
                     abandoned, owner, current>>
      /\ raised' = raised
    BY DEF Started
<1>4. /\ IInv /\ TypeOK /\ n \in Scope /\ o \in Scope /\ n \in active
      /\ n \in has_been_entered /\ n # o
    BY <1>0 DEF NInv, IInv, TypeOK, Moves
<1>5. /\ p \in [Scope -> Scope \cup {None}] /\ st \in [Task -> Scope]
      /\ \A s \in Scope : p[s] = IF s \in below THEN n ELSE parent[s]
      /\ \A u \in Task : st[u] = IF u \in moved THEN n ELSE status[u]
      /\ M \in SUBSET Task /\ \A u \in M : u \in moved /\ n \in e
      /\ \A u \in moved : n \in e => u \in M
    BY <1>4 DEF TypeOK
<1>6. /\ below \in SUBSET Scope /\ \A s \in Scope : s \in below <=> parent[s] = o
      /\ below \in SUBSET active
    <2>1. below \in SUBSET Scope /\ \A s \in Scope : s \in below <=> parent[s] = o
        BY DEF Children
    <2> QED
        BY <1>0, <2>1, BelowOld
<1>7. moved \subseteq Task /\ \A u \in moved : status[u] = o
    OBVIOUS
<1> HIDE DEF n, moved, st, below, p, M
<1>8. Grounded(p)
    <2>1. GroundedTogether(parent, new_nursery)'
        BY <1>0, MoveGrounded
    <2> QED
        BY <1>2, <2>1 DEF GroundedTogether, Grounded
<1>9. n \notin ch
    <2>1. \A r \in below : p[r] = n
        BY <1>5, <1>6
    <2> QED
        BY <1>4, <1>5, <1>6, <1>8, <2>1, TargetUntouched
<1>10. \A r \in below : r \in cancel_called \/ p[r] \notin ch
    BY <1>5, <1>6, <1>9
<1>11. \A x \in active \ below : x \in e <=> NewState(cancel_called, shield, p, e, x)
    BY <1>4, <1>5 DEF IInv, TypeOK, Consistent, NewState, ParentCancellationIsVisible
<1>12. Forest'
    BY <1>2, <1>5, <1>8, GroundedNoCycle DEF Forest
<1>13. /\ \A s \in Scope : p[s] = None <=> parent[s] = None
       /\ \A s \in Scope : p[s] # None => p[s] \in has_been_entered
       /\ \A u \in Task : st[u] \in has_been_entered
    <2>1. /\ \A s \in Scope : parent[s] # None => parent[s] \in has_been_entered
          /\ \A u \in Task : status[u] \in has_been_entered
        BY <1>4 DEF IInv, Tree
    <2> QED
        BY <1>4, <1>5, <1>6, <2>1, CancelScopeAssumption
<1>14. \A u \in M : st[u] \in effectively_cancelled'
    BY <1>2, <1>5, <1>7, <1>9
<1>15. \A u \in Task : HasAbortFunc(u) /\ st[u] # status[u] => u \in M \/ st[u] \notin e
    BY <1>5
<1>16. /\ cancel_called \in SUBSET Scope
       /\ raised' \in [Scope \cup Task -> Exception]
    BY <1>3, <1>4 DEF TypeOK
<1> DEFINE c2 == cancel_called \cup (Visited(p, below, ch) \cap LateScopes)
           T  == {u \in Task : st[u] \in ch \ e} \cup M
<1>17. Deliver(c2, st, T)
    BY <1>2
<1> HIDE DEF ch, c2, T
<1>18. /\ ch = Changed(cancel_called \cup LateScopes, shield, p, effectively_cancelled,
                       below)
       /\ c2 = cancel_called \cup (Visited(p, below, ch) \cap LateScopes)
       /\ T = {u \in Task : st[u] \in ch \ effectively_cancelled} \cup M
    BY DEF ch, c2, T
<1>19. /\ status' = st /\ parent' = p
       /\ effectively_cancelled' = (effectively_cancelled \ ch)
                                      \cup (ch \ effectively_cancelled)
    BY <1>2 DEF ch
<1>20. Recalculates(cancel_called, p, st, below, M, ch, c2, T)
    BY <1>3, <1>5, <1>6, <1>10, <1>13, <1>14, <1>15, <1>16, <1>17, <1>18, <1>19
    DEF Recalculates
<1> QED
    BY <1>4, <1>11, <1>12, <1>20, RecalculateMoves

--------------------------------------------------------------------------------
(***************************************************************************)
(* The steps of nurseries that are steps of CancelScope keep its invariant.*)
(***************************************************************************)
LEMMA ScopeSteps ==
    ASSUME IInv, NEW t \in Task,
           \/ CodeStep(t) \/ Wake(t) \/ ResumeCode(t) \/ AexitWait(t)
           \/ AexitCheckpoint(t) \/ Time
           \/ \E n \in NurseryScope : OpenNursery(t, n)
           \/ \E n \in NurseryScope, u \in Task : StartSoon(t, u, n)
           \/ \E n \in NurseryScope, o \in StartScope : Start(t, n, o)
           \/ \E u \in Task : StartSpawn(t, u)
    PROVE  IInv'
<1>0. /\ NurseryScope \subseteq Scope /\ StartScope \subseteq Scope
      /\ Cancellable \subseteq Scope /\ Blocking \subseteq AbortKind
      /\ PlainScope \subseteq Scope /\ TypeOK
    BY NurseryAssumption DEF AbortKind, PlainScope, IInv
<1>1. CASE CodeStep(t)
    <2>1. CASE UserCode(t) \/ CancelShieldedCheckpoint(t)
        BY <2>1, OtherTaskStep
    <2>2. CASE \E k \in Blocking : WaitTaskRescheduled(t, k)
        BY <1>0, <2>2, WaitStep
    <2>3. CASE \E s \in PlainScope : Enter(t, s) \/ Exit(t, s)
        BY <1>0, <2>3, EnterStep, ExitStep
    <2>4. CASE \E s \in Cancellable : Cancel(s)
        BY <1>0, <2>4, CancelStep
    <2>5. CASE \E s \in Shielding : SetShield(s)
        BY <2>5, SetShieldStep, CancelScopeAssumption
    <2> QED
        BY <1>1, <2>1, <2>2, <2>3, <2>4, <2>5 DEF CodeStep
<1>2. CASE Wake(t)
    BY <1>2, OtherTaskStep DEF Wake
<1>3. CASE ResumeCode(t)
    BY <1>3, ResumeStep DEF ResumeCode
<1>4. CASE AexitWait(t)
    BY <1>4, WaitStep DEF AexitWait, AbortKind
<1>5. CASE AexitCheckpoint(t)
    BY <1>5, OtherTaskStep DEF AexitCheckpoint
<1>6. CASE Time
    <2>1. [Next]_vars
        BY <1>6 DEF Time, Next
    <2> QED
        BY <2>1, NextInv
<1>7. CASE \E n \in NurseryScope : OpenNursery(t, n)
    BY <1>0, <1>7, EnterStep DEF OpenNursery
<1>8. CASE \E n \in NurseryScope, u \in Task : StartSoon(t, u, n)
    BY <1>0, <1>8, SpawnStep DEF StartSoon
<1>9. CASE \E n \in NurseryScope, o \in StartScope : Start(t, n, o)
    BY <1>0, <1>9, EnterStep DEF Start
<1>10. CASE \E u \in Task : StartSpawn(t, u)
    <2>1. PICK u \in Task : Spawn(u, status[t])
        BY <1>10 DEF StartSpawn
    <2>2. status[t] \in Scope
        BY <1>0 DEF TypeOK
    <2> QED
        BY <2>1, <2>2, SpawnStep
<1> QED
    BY <1>1, <1>2, <1>3, <1>4, <1>5, <1>6, <1>7, <1>8, <1>9, <1>10

(***************************************************************************)
(* So do those that raise RuntimeError and do nothing else.                *)
(***************************************************************************)
LEMMA ErrorSteps ==
    ASSUME IInv, NEW t \in Task,
           (\E n \in NurseryScope : StartRefused(t, n))
             \/ (\E o \in StartScope : StartedAgain(t, o))
    PROVE  IInv'
<1>1. /\ UNCHANGED <<scopeVars, status, current, wait, next_send>>
      /\ Raise(Block(status, owner, t), {"Error"})
    BY DEF StartRefused, StartedAgain
<1>2. raised' \in [Scope \cup Task -> Exception]
    BY <1>1, RaiseType DEF IInv, Exception
<1>3. TypeOK' /\ OneStateAtATime' /\ NoLostCancel'
    BY <1>1, <1>2 DEF IInv, TypeOK, scopeVars, OneStateAtATime, NoLostCancel,
        HasAbortFunc, AbortKind
<1>4. \A u \in Task : status'[u] \in has_been_entered
    BY <1>1 DEF IInv, Tree
<1> QED
    BY <1>1, <1>3, <1>4, TaskOnlyStep

(***************************************************************************)
(* It makes no difference to a delivery where a task is that is not        *)
(* blocked.                                                                *)
(***************************************************************************)
LEMMA DeliverElsewhere ==
    ASSUME TypeOK, NEW c, NEW st, NEW st2, NEW T \in SUBSET Task, NEW T2 \in SUBSET Task,
           \A u \in Task : wait[u] # "none" => st[u] = st2[u] /\ (u \in T <=> u \in T2),
           Deliver(c, st, T)
    PROVE  Deliver(c, st2, T2)
<1>1. /\ cancel_called' = c \cup {st[t] : t \in {u \in T : wait[u] = "cancels"}}
      /\ wait' = [t \in Task |-> IF t \in T THEN AfterAbort(wait[t]) ELSE wait[t]]
      /\ next_send' = [t \in Task |->
            IF t \in T /\ wait[t] = "succeeds" THEN "Cancelled" ELSE next_send[t]]
    BY DEF Deliver
<1>2. {st[t] : t \in {u \in T : wait[u] = "cancels"}}
        = {st2[t] : t \in {u \in T2 : wait[u] = "cancels"}}
    OBVIOUS
<1>3. \A t \in Task : (IF t \in T THEN AfterAbort(wait[t]) ELSE wait[t])
                        = (IF t \in T2 THEN AfterAbort(wait[t]) ELSE wait[t])
    BY DEF AfterAbort
<1>4. \A t \in Task : (IF t \in T /\ wait[t] = "succeeds" THEN "Cancelled" ELSE next_send[t])
                        = (IF t \in T2 /\ wait[t] = "succeeds" THEN "Cancelled" ELSE next_send[t])
    OBVIOUS
<1>5. cancel_called' = c \cup {st2[t] : t \in {u \in T2 : wait[u] = "cancels"}}
    BY <1>1, <1>2
<1>6. wait' = [t \in Task |-> IF t \in T2 THEN AfterAbort(wait[t]) ELSE wait[t]]
    BY <1>1, <1>3
<1>7. next_send' = [t \in Task |->
            IF t \in T2 /\ wait[t] = "succeeds" THEN "Cancelled" ELSE next_send[t]]
    BY <1>1, <1>4
<1> QED
    BY <1>5, <1>6, <1>7 DEF Deliver

(***************************************************************************)
(* An exception given to a nursery cancels its scope; the running task may *)
(* leave for another status at the same time, since it is not blocked.     *)
(***************************************************************************)
LEMMA CancelForStep ==
    ASSUME IInv, NEW n \in active, NEW exc, CancelFor(n, exc),
           NEW st \in [Task -> Scope], status' = st,
           \A u \in Task : st[u] \in has_been_entered,
           \A u \in Task : u # current => st[u] = status[u],
           raised' \in [Scope \cup Task -> Exception],
           UNCHANGED <<has_been_entered, active, shield, cancelled_caught, overdue,
                       abandoned, parent, owner, current>>
    PROVE  IInv'
<1>0. /\ TypeOK /\ OneStateAtATime /\ n \in Scope /\ status \in [Task -> Scope]
      /\ parent \in [Scope -> Scope \cup {None}] /\ cancel_called \in SUBSET Scope
    BY DEF IInv, TypeOK
<1>1. \A u \in Task : wait[u] # "none" => st[u] = status[u]
    BY <1>0 DEF OneStateAtATime
<1>2. \A u \in Task : HasAbortFunc(u) => st[u] = status[u]
    BY <1>1 DEF HasAbortFunc, AbortKind
<1>3. CASE UNCHANGED <<effectively_cancelled, cancel_called, wait, next_send>>
    <2>1. TypeOK' /\ OneStateAtATime'
        BY <1>0, <1>3 DEF TypeOK, OneStateAtATime
    <2>2. NoLostCancel'
        BY <1>2, <1>3 DEF IInv, NoLostCancel, HasAbortFunc
    <2>3. UNCHANGED scopeVars
        BY <1>3 DEF scopeVars
    <2> QED
        BY <2>1, <2>2, <2>3, TaskOnlyStep
<1>4. CASE Recalculate(cancel_called \cup {n}, shield, parent,
                       effectively_cancelled, status, {n})
    <2> DEFINE e  == effectively_cancelled
               c  == cancel_called \cup {n}
               ch == Changed(c \cup LateScopes, shield, parent, e, {n})
               c2 == c \cup (Visited(parent, {n}, ch) \cap LateScopes)
               T0 == {u \in Task : status[u] \in ch \ e}
               T  == {u \in Task : st[u] \in ch \ e} \cup {}
    <2>1. effectively_cancelled' = (e \ ch) \cup (ch \ e) /\ Deliver(c2, status, T0)
        BY <1>4 DEF Recalculate
    <2>2. /\ T0 \in SUBSET Task /\ T \in SUBSET Task
          /\ \A u \in Task : wait[u] # "none" => status[u] = st[u] /\ (u \in T0 <=> u \in T)
        BY <1>1
    <2>3. Deliver(c2, st, T)
        <3> HIDE DEF c2, T0, T
        <3> QED
            BY <1>0, <2>1, <2>2, DeliverElsewhere
    <2>4. \A x \in active \ {n} : x \in e <=> NewState(c, shield, parent, e, x)
        BY DEF IInv, Consistent, NewState
    <2>5. Recalculates(c, parent, st, {n}, {}, ch, c2, T)
        <3>1. c \in SUBSET Scope /\ cancel_called \subseteq c /\ {n} \in SUBSET active
            BY <1>0
        <3>2. \A s \in Scope : parent[s] # None => parent[s] \in has_been_entered
            BY DEF IInv, Tree
        <3>3. n \in c
            OBVIOUS
        <3> HIDE DEF ch
        <3>4. ch = Changed(c \cup LateScopes, shield, parent, e, {n})
            BY DEF ch
        <3>5. \A u \in Task : HasAbortFunc(u) /\ st[u] # status[u] =>
                 u \in {} \/ st[u] \notin effectively_cancelled
            BY <1>2
        <3> HIDE DEF c
        <3> QED
            BY <1>0, <2>1, <2>3, <3>1, <3>2, <3>3, <3>4, <3>5 DEF Recalculates
    <2>6. Forest'
        BY DEF IInv, Tree, Forest, Encloses, UpwardClosed
    <2> HIDE DEF c, ch, c2, T
    <2> QED
        BY <2>4, <2>5, <2>6, RecalculateMoves
<1> QED
    BY <1>3, <1>4 DEF CancelFor

(***************************************************************************)
(* The two handlers that give a nursery an exception.                      *)
(***************************************************************************)
LEMMA ExceptionSteps ==
    ASSUME NInv, NEW t \in Task,
           (\E n \in NurseryScope : NestedChildFinished(t, n)) \/ TaskExited(t)
    PROVE  IInv'
<1>0. /\ IInv /\ TypeOK /\ NurseryTypeOK /\ status \in [Task -> Scope]
      /\ raised \in [Scope \cup Task -> Exception] /\ Root \in active
      /\ active \subseteq has_been_entered
      /\ \A u \in Task : status[u] \in has_been_entered
    BY DEF NInv, IInv, TypeOK, Tree
<1>1. \A x : [raised EXCEPT ![x] = {}] \in [Scope \cup Task -> Exception]
    <2>1. {} \in Exception
        BY DEF Exception
    <2> QED
        BY <1>0, <2>1
<1>2. CASE \E n \in NurseryScope : NestedChildFinished(t, n)
    <2>1. PICK n \in NurseryScope : NestedChildFinished(t, n)
        BY <1>2
    <2>2. /\ n \in active /\ CancelFor(n, raised[n]) /\ status' = status
          /\ raised' \in [Scope \cup Task -> Exception]
          /\ UNCHANGED <<has_been_entered, active, shield, cancelled_caught, overdue,
                         abandoned, parent, owner, current>>
        BY <1>1, <2>1 DEF NestedChildFinished, NInv, NoOrphans
    <2> QED
        BY <1>0, <2>2, CancelForStep
<1>3. CASE TaskExited(t)
    <2> DEFINE n  == parent_nursery[t]
               st == [status EXCEPT ![t] = Root]
    <2>1. PICK exc : CancelFor(n, exc)
        BY <1>3 DEF TaskExited
    <2>2. /\ current = t /\ status' = st
          /\ raised' \in [Scope \cup Task -> Exception]
          /\ UNCHANGED <<has_been_entered, active, shield, cancelled_caught, overdue,
                         abandoned, parent, owner, current>>
        BY <1>1, <1>3 DEF TaskExited, Code
    <2>3. n \in active
        BY <1>3 DEF TaskExited, Code, NInv, Lives, Membership, Alive
    <2>4. /\ st \in [Task -> Scope] /\ \A u \in Task : st[u] \in has_been_entered
          /\ \A u \in Task : u # current => st[u] = status[u]
        BY <1>0, <2>2, CancelScopeAssumption
    <2> HIDE DEF n, st
    <2> QED
        BY <1>0, <2>1, <2>2, <2>3, <2>4, CancelForStep
<1> QED
    BY <1>2, <1>3

(***************************************************************************)
(* Poking a nursery wakes at most a parent that sleeps in it.              *)
(***************************************************************************)
LEMMA CheckStep ==
    ASSUME NInv, NEW n \in Scope, CheckNurseryClosed(n), NEW t \in Task, current = t,
           pc[t] # "waiting", current' \in {t, None}, UNCHANGED <<scopeVars, status>>,
           raised' \in [Scope \cup Task -> Exception]
    PROVE  IInv'
<1>0. TypeOK /\ OneStateAtATime /\ IInv /\ status' = status
    BY DEF NInv, IInv
<1>1. \/ UNCHANGED <<next_send, wait>>
      \/ /\ n \in parent_waiting_in_aexit
         /\ next_send' = [next_send EXCEPT ![owner[n]] = "Value"]
         /\ wait' = [wait EXCEPT ![owner[n]] = "none"]
    BY DEF CheckNurseryClosed
<1>2. n \in parent_waiting_in_aexit => owner[n] \in Task \ {t}
    BY DEF NInv, Waiting
<1>3. TypeOK'
    BY <1>0, <1>1, <1>2 DEF TypeOK, scopeVars, Wait
<1>4. OneStateAtATime'
    BY <1>0, <1>1, <1>2, CancelScopeAssumption DEF TypeOK, OneStateAtATime
<1>5. NoLostCancel'
    BY <1>0, <1>1, <1>2 DEF IInv, TypeOK, NoLostCancel, HasAbortFunc, AbortKind, scopeVars
<1>6. \A u \in Task : status'[u] \in has_been_entered
    BY <1>0 DEF IInv, Tree
<1> QED
    BY <1>0, <1>3, <1>4, <1>5, <1>6, TaskOnlyStep

(***************************************************************************)
(* The handlers that end by poking a nursery keep the invariant.           *)
(***************************************************************************)
LEMMA PokeSteps ==
    ASSUME NInv, NEW t \in Task,
           \/ \E o \in StartScope : StartReturns(t, o) \/ StartedPoke(t, o)
           \/ ChildFinished(t)
    PROVE  IInv'
<1>0. NurseryTypeOK /\ TypeOK /\ IInv
    BY DEF NInv, IInv
<1>1. CASE \E o \in StartScope : StartReturns(t, o)
    <2>1. PICK o \in StartScope : StartReturns(t, o)
        BY <1>1
    <2> DEFINE n == new_nursery[o]
    <2>2. /\ current = t /\ pc[t] # "waiting" /\ current' = t /\ CheckNurseryClosed(n)
          /\ UNCHANGED <<scopeVars, status>>
        BY <2>1 DEF StartReturns
    <2>3. n \in Scope
        BY <1>0, <2>1, NurseryAssumption DEF StartReturns, NurseryTypeOK
    <2>4. raised' \in [Scope \cup Task -> Exception]
        <3>1. PICK exc \in Exception : Raise(Block(status, owner, t), exc)
            BY <2>1 DEF StartReturns, Exception
        <3> QED
            BY <1>0, <3>1, RaiseType
    <2> HIDE DEF n
    <2> QED
        BY <2>2, <2>3, <2>4, CheckStep
<1>2. CASE \E o \in StartScope : StartedPoke(t, o)
    <2>1. PICK o \in StartScope : StartedPoke(t, o)
        BY <1>2
    <2>2. /\ current = t /\ pc[t] # "waiting" /\ current' = t /\ CheckNurseryClosed(o)
          /\ UNCHANGED <<scopeVars, status>> /\ raised' = raised /\ o \in Scope
        BY <2>1, NurseryAssumption DEF StartedPoke
    <2>3. raised' \in [Scope \cup Task -> Exception]
        BY <1>0, <2>2 DEF TypeOK
    <2> QED
        BY <2>2, <2>3, CheckStep
<1>3. CASE ChildFinished(t)
    <2> DEFINE n == parent_nursery[t]
    <2>1. /\ current = t /\ pc[t] # "waiting" /\ current' = None /\ CheckNurseryClosed(n)
          /\ UNCHANGED <<scopeVars, status>> /\ raised' = raised
        BY <1>3 DEF ChildFinished
    <2>2. n \in Scope
        BY <1>0, <1>3 DEF ChildFinished, NInv, Lives, Alive, NurseryTypeOK
    <2>3. raised' \in [Scope \cup Task -> Exception]
        BY <1>0, <2>1 DEF TypeOK
    <2> HIDE DEF n
    <2> QED
        BY <2>1, <2>2, <2>3, CheckStep
<1> QED
    BY <1>1, <1>2, <1>3

(***************************************************************************)
(* __aexit__ goes on after its wait or its checkpoint; that the nursery is *)
(* cancelled once more when it is cancelled already changes no status.     *)
(***************************************************************************)
LEMMA ResumeAexitSteps ==
    ASSUME NInv, NEW t \in Task, ResumeInAexit(t) \/ ResumeCancelled(t)
    PROVE  IInv'
<1>0. /\ TypeOK /\ OneStateAtATime /\ IInv /\ current = None /\ next_send[t] # "none"
      /\ status[t] \in Scope
    BY DEF NInv, IInv, TypeOK, Lives, ResumeInAexit, ResumeCancelled
<1>1. wait[t] = "none"
    BY <1>0 DEF OneStateAtATime
<1>2. CASE ResumeInAexit(t)
    <2>1. /\ UNCHANGED <<scopeVars, status, wait, raised>>
          /\ \/ /\ next_send' = [next_send EXCEPT ![t] = "Cancelled"]
                /\ current' = None
             \/ /\ next_send' = [next_send EXCEPT ![t] = "none"]
                /\ current' = t
        BY <1>0, <1>2 DEF ResumeInAexit
    <2>2. TypeOK' /\ OneStateAtATime' /\ NoLostCancel'
        BY <1>0, <1>1, <2>1 DEF IInv, TypeOK, OneStateAtATime, NoLostCancel,
            HasAbortFunc, scopeVars
    <2>3. \A u \in Task : status'[u] \in has_been_entered
        BY <2>1 DEF NInv, IInv, Tree
    <2> QED
        BY <1>0, <2>1, <2>2, <2>3, TaskOnlyStep
<1>3. CASE ResumeCancelled(t)
    <2>1. /\ UNCHANGED <<has_been_entered, active, shield, cancelled_caught,
                         overdue, effectively_cancelled, abandoned, parent, owner,
                         status, wait, raised>>
          /\ next_send' = [next_send EXCEPT ![t] = "none"]
          /\ current' = t
          /\ \/ cancel_called' = cancel_called
             \/ /\ status[t] \in effectively_cancelled
                /\ cancel_called' = cancel_called \cup {status[t]}
        BY <1>3 DEF ResumeCancelled
    <2>2. TypeOK' /\ OneStateAtATime'
        BY <1>0, <1>1, <2>1 DEF TypeOK, OneStateAtATime
    <2>3. Consistent'
        BY <1>0, <2>1 DEF IInv, Consistent, NewState, ParentCancellationIsVisible
    <2>4. NoLostCancel' /\ CaughtImpliesCancelled' /\ Tree'
        BY <1>0, <2>1 DEF IInv, NoLostCancel, HasAbortFunc, CaughtImpliesCancelled,
            Tree, Forest, Encloses, UpwardClosed
    <2> QED
        BY <2>2, <2>3, <2>4 DEF IInv
<1> QED
    BY <1>2, <1>3

(***************************************************************************)
(* The end of __aexit__ closes the nursery's scope.                        *)
(***************************************************************************)
LEMMA AexitCloseStep ==
    ASSUME NInv, NEW t \in Task, AexitClose(t)
    PROVE  IInv'
<1> DEFINE n  == status[t]
           st == [status EXCEPT ![t] = parent[n]]
<1>1. /\ n \in active \ {Root} /\ owner[n] = t /\ pending_excs[n] \in Exception
    BY AexitOwned
<1>2. current = t /\ CloseScope(t, n, pending_excs[n], st)
    BY DEF AexitClose
<1>3. /\ st \in [Task -> Scope] /\ \A u \in Task \ {t} : st[u] = status[u]
      /\ st[t] \in has_been_entered
    <2>1. /\ status \in [Task -> Scope] /\ parent \in [Scope -> Scope \cup {None}]
          /\ active \subseteq has_been_entered /\ has_been_entered \subseteq Scope
          /\ parent[n] # None /\ n \in Scope
        BY <1>1 DEF NInv, IInv, TypeOK, Tree
    <2>2. parent[n] \in has_been_entered
        BY <2>1 DEF NInv, IInv, Tree
    <2> QED
        BY <2>1, <2>2
<1>4. IInv
    BY DEF NInv
<1> HIDE DEF st, n
<1> QED
    BY <1>1, <1>2, <1>3, <1>4, CloseScopeStep

--------------------------------------------------------------------------------
(***************************************************************************)
(* What a nursery keeps is an exception.                                   *)
(***************************************************************************)
LEMMA PendingType ==
    ASSUME NEW base \in [Scope -> Exception], PendingExcs(base)
    PROVE  pending_excs' \in [Scope -> Exception]
<1>1. \A n \in Scope : base[n] \in SUBSET {"Cancelled", "Error"}
    BY DEF Exception
<1>2. \A n \in Scope :
         base[n] \cup (IF n \in Aborted THEN {"Cancelled"} ELSE {}) \in Exception
    BY <1>1 DEF Exception
<1> HIDE DEF Aborted
<1> QED
    BY <1>2 DEF PendingExcs

(***************************************************************************)
(* The types of what the steps of the program's own code leave alone.      *)
(***************************************************************************)
LEMMA SameNurseryTypes ==
    ASSUME NurseryTypeOK, TypeOK', SameNurseries,
           UNCHANGED <<called_started, main_task_outcome>>,
           pc' \in [Task -> PC], pending_excs' \in [Scope -> Exception]
    PROVE  NurseryTypeOK'
BY DEF NurseryTypeOK, SameNurseries

(***************************************************************************)
(* Steps of the program's own code keep the types.                         *)
(***************************************************************************)
LEMMA CodeTypes ==
    ASSUME NInv, TypeOK', NEW t \in Task,
           \/ CodeStep(t) \/ Wake(t) \/ ResumeCode(t) \/ Time \/ Finished
           \/ \E n \in NurseryScope : StartRefused(t, n)
           \/ \E o \in StartScope : StartedAgain(t, o)
    PROVE  NurseryTypeOK'
<1>0. /\ NurseryTypeOK /\ pending_excs \in [Scope -> Exception] /\ pc \in [Task -> PC]
    BY DEF NInv, NurseryTypeOK
<1>1. CASE CodeStep(t) \/ Time
    <2>1. SameNurseries /\ UNCHANGED <<called_started, main_task_outcome, pc>>
          /\ PendingExcs(pending_excs)
        BY <1>1 DEF CodeStep, Time, SameNurseries
    <2> QED
        BY <1>0, <2>1, PendingType, SameNurseryTypes
<1>2. CASE UNCHANGED nurseryVars
    <2>1. SameNurseries /\ UNCHANGED <<called_started, main_task_outcome, pc, pending_excs>>
        BY <1>2 DEF nurseryVars, SameNurseries
    <2> QED
        BY <1>0, <2>1, SameNurseryTypes
<1> QED
    BY <1>1, <1>2 DEF Wake, ResumeCode, Finished, allVars, StartRefused, StartedAgain

(***************************************************************************)
(* Opening nurseries and spawning tasks keep the types.                    *)
(***************************************************************************)
LEMMA OpenTypes ==
    ASSUME NInv, TypeOK', NEW t \in Task,
           \/ \E n \in NurseryScope : OpenNursery(t, n)
           \/ \E n \in NurseryScope, u \in Task : StartSoon(t, u, n)
           \/ \E n \in NurseryScope, o \in StartScope : Start(t, n, o)
           \/ \E u \in Task : StartSpawn(t, u)
    PROVE  NurseryTypeOK'
<1>0. NurseryTypeOK /\ NurseryScope \subseteq Scope /\ StartScope \subseteq Scope
      /\ status[t] \in Scope
    BY NurseryAssumption DEF NInv, NurseryTypeOK, TypeOK
<1>1. CASE \E n \in NurseryScope : OpenNursery(t, n)
    BY <1>0, <1>1 DEF OpenNursery, NurseryTypeOK
<1>2. CASE \E n \in NurseryScope, u \in Task : StartSoon(t, u, n)
    BY <1>0, <1>2 DEF StartSoon, Goto, NurseryTypeOK, PC
<1>3. CASE \E n \in NurseryScope, o \in StartScope : Start(t, n, o)
    BY <1>0, <1>3 DEF Start, Goto, NurseryTypeOK, PC
<1>4. CASE \E u \in Task : StartSpawn(t, u)
    BY <1>0, <1>4 DEF StartSpawn, NurseryTypeOK, PC
<1> QED
    BY <1>1, <1>2, <1>3, <1>4

(***************************************************************************)
(* __aexit__ keeps the types.                                              *)
(***************************************************************************)
LEMMA AexitTypes ==
    ASSUME NInv, TypeOK', NEW t \in Task,
           \/ \E n \in NurseryScope : NestedChildFinished(t, n)
           \/ AexitWait(t) \/ AexitCheckpoint(t) \/ ResumeInAexit(t)
           \/ ResumeCancelled(t) \/ AexitClose(t)
    PROVE  NurseryTypeOK'
<1>0. /\ NurseryTypeOK /\ NurseryScope \subseteq Scope /\ status[t] \in Scope
      /\ pending_excs \in [Scope -> Exception] /\ pc \in [Task -> PC]
      /\ raised \in [Scope \cup Task -> Exception]
    BY NurseryAssumption DEF NInv, NurseryTypeOK, TypeOK
<1>1. \A x, l : l \in PC => [pc EXCEPT ![x] = l] \in [Task -> PC]
    BY <1>0
<1>2. {} \in Exception /\ \A n \in Scope : pending_excs[n] \cup {"Cancelled"} \in Exception
    <2>1. \A n \in Scope : pending_excs[n] \in SUBSET {"Cancelled", "Error"}
        BY <1>0 DEF Exception
    <2> QED
        BY <2>1 DEF Exception
<1>3. CASE \E n \in NurseryScope : NestedChildFinished(t, n)
    <2>1. PICK n \in NurseryScope : NestedChildFinished(t, n)
        BY <1>3
    <2>2. pending_excs' \in [Scope -> Exception]
        <3> DEFINE base == [pending_excs EXCEPT ![n] = @ \cup raised[n]]
        <3>1. pending_excs[n] \in SUBSET {"Cancelled", "Error"}
              /\ raised[n] \in SUBSET {"Cancelled", "Error"}
            BY <1>0 DEF Exception
        <3>2. pending_excs[n] \cup raised[n] \in Exception
            BY <3>1 DEF Exception
        <3>3. base \in [Scope -> Exception]
            BY <1>0, <3>2
        <3>4. PendingExcs(base)
            BY <2>1 DEF NestedChildFinished
        <3> HIDE DEF base
        <3> QED
            BY <3>3, <3>4, PendingType
    <2>3. pc' \in [Task -> PC]
        BY <1>1, <2>1 DEF NestedChildFinished, Goto, PC
    <2> QED
        BY <1>0, <2>1, <2>2, <2>3 DEF NestedChildFinished, NurseryTypeOK
<1>4. CASE AexitWait(t)
    <2>1. pending_excs' \in [Scope -> Exception]
        BY <1>0, <1>4, PendingType DEF AexitWait
    <2>2. pc' \in [Task -> PC]
        BY <1>1, <1>4 DEF AexitWait, Goto, PC
    <2> QED
        BY <1>0, <1>4, <2>1, <2>2 DEF AexitWait, NurseryTypeOK
<1>5. CASE AexitCheckpoint(t)
    <2>1. pc' \in [Task -> PC]
        BY <1>1, <1>5 DEF AexitCheckpoint, Goto, PC
    <2> QED
        BY <1>0, <1>5, <2>1 DEF AexitCheckpoint, NurseryTypeOK
<1>6. CASE ResumeInAexit(t)
    <2>1. pc' \in [Task -> PC]
        BY <1>1, <1>6 DEF ResumeInAexit, Goto, PC
    <2> QED
        BY <1>0, <1>6, <2>1 DEF ResumeInAexit, NurseryTypeOK
<1>7. CASE ResumeCancelled(t)
    <2>1. pc' \in [Task -> PC]
        BY <1>1, <1>7 DEF ResumeCancelled, Goto, PC
    <2>2. pending_excs' \in [Scope -> Exception]
        BY <1>0, <1>2, <1>7 DEF ResumeCancelled
    <2> QED
        BY <1>0, <1>7, <2>1, <2>2 DEF ResumeCancelled, NurseryTypeOK
<1>8. CASE AexitClose(t)
    <2>1. pc' \in [Task -> PC]
        BY <1>1, <1>8 DEF AexitClose, Goto, PC
    <2>2. pending_excs' \in [Scope -> Exception]
        BY <1>0, <1>2, <1>8 DEF AexitClose
    <2> QED
        BY <1>0, <1>8, <2>1, <2>2 DEF AexitClose, NurseryTypeOK
<1> QED
    BY <1>3, <1>4, <1>5, <1>6, <1>7, <1>8

(***************************************************************************)
(* start(), started() and task_exited keep the types.                      *)
(***************************************************************************)
LEMMA StartTypes ==
    ASSUME NInv, TypeOK', Starts', NEW t \in Task,
           \/ \E o \in StartScope :
                 StartReturns(t, o) \/ Started(t, o) \/ StartedPoke(t, o)
           \/ TaskExited(t) \/ ChildFinished(t)
    PROVE  NurseryTypeOK'
<1>0. /\ NurseryTypeOK /\ StartScope \subseteq Scope
      /\ pending_excs \in [Scope -> Exception] /\ pc \in [Task -> PC]
      /\ raised \in [Scope \cup Task -> Exception]
    BY NurseryAssumption DEF NInv, NurseryTypeOK, TypeOK
<1>1. \A x, l : l \in PC => [pc EXCEPT ![x] = l] \in [Task -> PC]
    BY <1>0
<1>2. ASSUME NEW n \in Scope, CheckNurseryClosed(n)
      PROVE  closed' \subseteq Scope /\ parent_waiting_in_aexit' \subseteq Scope
    BY <1>0, <1>2 DEF CheckNurseryClosed, NurseryTypeOK
<1>3. CASE \E o \in StartScope : StartReturns(t, o)
    <2>1. PICK o \in StartScope : StartReturns(t, o)
        BY <1>3
    <2>2. new_nursery[o] \in Scope
        BY <1>0, <2>1 DEF StartReturns, NurseryTypeOK
    <2>3. pc' \in [Task -> PC]
        BY <1>1, <2>1 DEF StartReturns, Goto, PC
    <2>4. pending_starts' \in [Scope -> Nat]
        <3>1. \A n \in Scope : pending_starts'[n] \in Nat
            BY FS_CardinalityType DEF Starts
        <3>2. pending_starts' = [pending_starts EXCEPT ![new_nursery[o]] = @ - 1]
            BY <2>1 DEF StartReturns
        <3> QED
            BY <1>0, <3>1, <3>2 DEF NurseryTypeOK
    <2>5. closed' \subseteq Scope /\ parent_waiting_in_aexit' \subseteq Scope
        BY <1>2, <2>1, <2>2 DEF StartReturns
    <2> QED
        BY <1>0, <2>1, <2>3, <2>4, <2>5 DEF StartReturns, NurseryTypeOK
<1>4. CASE \E o \in StartScope : StartedPoke(t, o)
    <2>1. PICK o \in StartScope : StartedPoke(t, o)
        BY <1>4
    <2>2. pc' \in [Task -> PC]
        BY <1>1, <2>1 DEF StartedPoke, Goto, PC
    <2>3. closed' \subseteq Scope /\ parent_waiting_in_aexit' \subseteq Scope
        BY <1>0, <1>2, <2>1 DEF StartedPoke
    <2> QED
        BY <1>0, <2>1, <2>2, <2>3 DEF StartedPoke, NurseryTypeOK
<1>5. CASE \E o \in StartScope : Started(t, o)
    <2>1. PICK o \in StartScope : Started(t, o)
        BY <1>5
    <2>2. pending_excs' \in [Scope -> Exception]
        BY <1>0, <2>1, PendingType DEF Started
    <2>3. pc' \in [Task -> PC]
        BY <1>0, <1>1, <2>1 DEF Started, Goto, PC
    <2>4. new_nursery[o] \in Scope /\ o \in Scope
        BY <1>0, <2>1 DEF Started, NurseryTypeOK
    <2>5. children' \in [Scope -> SUBSET Task]
          /\ parent_nursery' \in [Task -> Scope \cup {None}]
        <3>1. CASE MayMove(o)
            BY <1>0, <2>1, <2>4, <3>1 DEF Started, NurseryTypeOK
        <3>2. CASE ~MayMove(o)
            BY <1>0, <2>1, <3>2 DEF Started, NurseryTypeOK
        <3> QED
            BY <3>1, <3>2
    <2> QED
        BY <1>0, <2>1, <2>2, <2>3, <2>5 DEF Started, NurseryTypeOK
<1>6. CASE TaskExited(t)
    <2> DEFINE n   == parent_nursery[t]
               exc == IF status[t] \in abandoned /\ parent[status[t]] = None
                      THEN {"Error"} ELSE raised[t]
               toNursery == IF t = Main THEN {} ELSE exc
               base == [pending_excs EXCEPT ![n] = @ \cup toNursery]
    <2>1. exc \in SUBSET {"Cancelled", "Error"} /\ toNursery \in SUBSET {"Cancelled", "Error"}
        <3>1. raised[t] \in SUBSET {"Cancelled", "Error"}
            BY <1>0 DEF Exception
        <3> QED
            BY <3>1
    <2>2. main_task_outcome' \in Exception
        BY <1>0, <1>6, <2>1 DEF TaskExited, NurseryTypeOK, Exception
    <2>3. PendingExcs(base)
        BY <1>6 DEF TaskExited
    <2> HIDE DEF exc, toNursery
    <2>4. base \in [Scope -> Exception]
        <3>1. \A m \in Scope : pending_excs[m] \cup toNursery \in Exception
            <4>1. \A m \in Scope : pending_excs[m] \in SUBSET {"Cancelled", "Error"}
                BY <1>0 DEF Exception
            <4> QED
                BY <2>1, <4>1 DEF Exception
        <3> QED
            BY <1>0, <3>1
    <2> HIDE DEF base
    <2>5. pending_excs' \in [Scope -> Exception]
        BY <2>3, <2>4, PendingType
    <2>6. pc' \in [Task -> PC]
        BY <1>1, <1>6 DEF TaskExited, Goto, PC
    <2> QED
        BY <1>0, <1>6, <2>2, <2>5, <2>6 DEF TaskExited, NurseryTypeOK
<1>7. CASE ChildFinished(t)
    <2>1. parent_nursery[t] \in Scope
        BY <1>0, <1>7 DEF ChildFinished, NInv, Lives, Alive, NurseryTypeOK
    <2>2. pc' \in [Task -> PC]
        BY <1>1, <1>7 DEF ChildFinished, Goto, PC
    <2>3. closed' \subseteq Scope /\ parent_waiting_in_aexit' \subseteq Scope
        BY <1>2, <1>7, <2>1 DEF ChildFinished
    <2> QED
        BY <1>0, <1>7, <2>2, <2>3 DEF ChildFinished, NurseryTypeOK
<1> QED
    BY <1>3, <1>4, <1>5, <1>6, <1>7

--------------------------------------------------------------------------------
(***************************************************************************)
(* Steps of the program's own code leave the nurseries in order.           *)
(***************************************************************************)
LEMMA CodeAside ==
    ASSUME NInv, NEW t \in Task,
           \/ CodeStep(t) \/ Wake(t) \/ ResumeCode(t) \/ Time \/ Finished
           \/ \E n \in NurseryScope : StartRefused(t, n)
           \/ \E o \in StartScope : StartedAgain(t, o)
    PROVE  Aside'
<1>0. TypeOK
    BY DEF NInv, IInv
<1>1. CASE CodeStep(t)
    <2>1. Code(t) /\ SameNurseries /\ pc' = pc
        BY <1>1 DEF CodeStep, SameNurseries
    <2>2. CASE UserCode(t)
        <3>1. SameTree /\ UNCHANGED <<status, current, wait, next_send>>
            BY <2>2 DEF UserCode, SameTree, scopeVars
        <3> QED
            BY <2>1, <3>1, CodeFrame DEF NudgeAt
    <2>3. CASE CancelShieldedCheckpoint(t)
        <3>1. /\ SameTree /\ status' = status /\ current = t /\ current' = None
              /\ \A u \in Task : pc[u] = "code" \/ NudgeAt(u)
            BY <1>0, <2>1, <2>3
            DEF CancelShieldedCheckpoint, SameTree, scopeVars, NudgeAt, Code, TypeOK
        <3> QED
            BY <2>1, <3>1, CodeFrame
    <2>4. CASE \E k \in Blocking : WaitTaskRescheduled(t, k)
        <3>1. /\ SameTree /\ status' = status /\ current = t /\ current' = None
              /\ \A u \in Task : pc[u] = "code" \/ NudgeAt(u)
            BY <1>0, <2>1, <2>4
            DEF WaitTaskRescheduled, SameTree, NudgeAt, Code, TypeOK
        <3> QED
            BY <2>1, <3>1, CodeFrame
    <2>5. CASE \E s \in PlainScope : Enter(t, s)
        <3>1. PICK s \in PlainScope : Enter(t, s)
            BY <2>5
        <3>2. s \in Scope \ StartScope
            BY DEF PlainScope
        <3>3. /\ UNCHANGED <<children, parent_nursery, parent_waiting_in_aexit,
                             pending_starts, closed, new_nursery, pc>>
              /\ nested_child_running' = nested_child_running
            BY <2>1 DEF SameNurseries
        <3> QED
            BY <2>1, <3>1, <3>2, <3>3, EnterAside
    <2>6. CASE \E s \in PlainScope : Exit(t, s)
        BY <2>1, <2>6, ExitAside
    <2>7. CASE \E s \in Cancellable : Cancel(s)
        <3>1. SameTree /\ UNCHANGED <<status, current>>
            BY <2>7 DEF Cancel, SameTree
        <3>2. \A u \in Task : NudgeAt(u)
            BY <1>0, <2>7, DeliverNudges DEF Cancel, Recalculate, NudgeAt
        <3> QED
            BY <2>1, <3>1, <3>2, CodeFrame
    <2>8. CASE \E s \in Shielding : SetShield(s)
        <3>1. SameTree /\ UNCHANGED <<status, current>>
            BY <2>8 DEF SetShield, SameTree
        <3>2. \A u \in Task : NudgeAt(u)
            BY <1>0, <2>8, DeliverNudges DEF SetShield, Recalculate, NudgeAt
        <3> QED
            BY <2>1, <3>1, <3>2, CodeFrame
    <2> QED
        BY <1>1, <2>2, <2>3, <2>4, <2>5, <2>6, <2>7, <2>8 DEF CodeStep
<1>2. CASE Wake(t)
    <2>1. /\ SameTree /\ SameNurseries /\ UNCHANGED <<status, current, pc>>
          /\ pc[t] = "code"
        BY <1>2 DEF Wake, Reschedule, SameTree, scopeVars, SameNurseries, nurseryVars
    <2>2. \A u \in Task : pc[u] = "code" \/ NudgeAt(u)
        BY <1>0, <1>2, <2>1 DEF Wake, Reschedule, NudgeAt, TypeOK
    <2> QED
        BY <2>1, <2>2, CodeFrame
<1>3. CASE ResumeCode(t)
    <2>1. /\ SameTree /\ SameNurseries /\ UNCHANGED <<status, pc>>
          /\ pc[t] = "code" /\ current = None /\ current' = t
        BY <1>3 DEF ResumeCode, Resume, SameTree, scopeVars, SameNurseries, nurseryVars
    <2>2. \A u \in Task : pc[u] = "code" \/ NudgeAt(u)
        BY <1>0, <1>3, <2>1 DEF ResumeCode, Resume, NudgeAt, TypeOK
    <2> QED
        BY <2>1, <2>2, CodeFrame
<1>4. CASE Time
    <2>1. SameNurseries /\ pc' = pc
        BY <1>4 DEF Time, SameNurseries
    <2>2. CASE \E s \in Deadlined : MoveDeadline(s)
        <3>1. SameTree /\ UNCHANGED <<status, current, wait, next_send>>
            BY <2>2 DEF MoveDeadline, SameTree, taskVars
        <3> QED
            BY <2>1, <3>1, CodeFrame DEF NudgeAt
    <2>3. CASE Expire
        <3>1. SameTree /\ UNCHANGED <<status, current>>
            BY <2>3 DEF Expire, SameTree
        <3>2. \A u \in Task : NudgeAt(u)
            BY <1>0, <2>3, DeliverNudges DEF Expire, Recalculate
        <3> QED
            BY <2>1, <3>1, <3>2, CodeFrame
    <2> QED
        BY <1>4, <2>2, <2>3 DEF Time
<1>5. CASE /\ UNCHANGED <<scopeVars, status, current, wait, next_send>>
           /\ UNCHANGED nurseryVars
    <2>1. SameTree /\ SameNurseries /\ UNCHANGED <<status, current, wait, next_send, pc>>
        BY <1>5 DEF SameTree, scopeVars, SameNurseries, nurseryVars
    <2> QED
        BY <2>1, CodeFrame DEF NudgeAt
<1> QED
    BY <1>1, <1>2, <1>3, <1>4, <1>5
    DEF Finished, allVars, vars, taskVars, StartRefused, StartedAgain

(***************************************************************************)
(* started() on a cancelled nursery only takes note of the call.           *)
(***************************************************************************)
LEMMA StartedCancelled ==
    ASSUME NInv, NEW t \in Task, NEW o \in StartScope, Started(t, o), ~MayMove(o)
    PROVE  Aside' /\ IInv'
<1>1. /\ SameTree /\ SameNurseries
      /\ UNCHANGED <<scopeVars, status, current, wait, next_send, raised, pc>>
    BY DEF Started, SameTree, SameNurseries, scopeVars
<1>2. Aside'
    BY <1>1, CodeFrame DEF NudgeAt
<1>3. [Next]_vars
    BY <1>1 DEF vars, taskVars
<1> QED
    BY <1>2, <1>3, NextInv DEF NInv

(***************************************************************************)
(* The initial states have the invariant.                                  *)
(***************************************************************************)
LEMMA NurseryInitInv == NurseryInit => NInv
<1> SUFFICES ASSUME NurseryInit
             PROVE  NInv
    OBVIOUS
<1>0. Init /\ IInv /\ TypeOK /\ Main \in Task /\ next_send[Main] = "Value"
    BY InitInv, NurseryAssumption DEF NurseryInit, IInv
<1>1. \A u \in Task : next_send[u] # "none" => u = Main
    BY <1>0 DEF Init
<1>2. NurseryTypeOK
    <2>1. {} \in Exception
        BY DEF Exception
    <2>2. pending_excs \in [Scope -> Exception] /\ main_task_outcome \in Exception
        BY <2>1 DEF NurseryInit
    <2> QED
        BY <1>0, <2>2, CancelScopeAssumption DEF NurseryInit, NurseryTypeOK, PC
<1>3. GroundedTogether(parent, new_nursery) /\ NoOrphans
    BY <1>0, CancelScopeAssumption DEF NurseryInit, Init, GroundedTogether, NoOrphans
<1>4. Lives
    BY <1>0, <1>1, CancelScopeAssumption DEF NurseryInit, Init, Lives, Alive, Busy
<1>5. Membership
    BY <1>0, CancelScopeAssumption DEF NurseryInit, Init, Membership, Alive
<1>6. Blocks /\ Waiting /\ StartBlocks
    <2>1. Emptied = {}
        BY <1>0, NurseryAssumption DEF Emptied, Init
    <2> QED
        BY <1>0, <2>1, NurseryAssumption
        DEF NurseryInit, Init, Blocks, InAexit, Waiting, StartBlocks, NurseryKind
<1>7. Starts
    <2>1. \A n \in Scope : StartsInto(new_nursery, n) = {}
        BY CancelScopeAssumption DEF NurseryInit, StartsInto
    <2>2. \A n \in Scope : /\ IsFiniteSet(StartsInto(new_nursery, n))
                           /\ pending_starts[n] = Cardinality(StartsInto(new_nursery, n))
        BY <2>1, FS_EmptySet DEF NurseryInit
    <2> QED
        BY <2>2 DEF NurseryInit, Starts
<1>8. Stacks /\ Innermost
    BY <1>0, CancelScopeAssumption
    DEF NurseryInit, Init, Stacks, Innermost, Alive, Outside
<1> QED
    BY <1>0, <1>2, <1>3, <1>4, <1>5, <1>6, <1>7, <1>8 DEF NInv

(***************************************************************************)
(* Every step keeps the invariant: one case per handler.                   *)
(***************************************************************************)
LEMMA NurseryNextInv == NInv /\ [NurseryNext]_allVars => NInv'
<1> SUFFICES ASSUME NInv, [NurseryNext]_allVars
             PROVE  NInv'
    OBVIOUS
<1>0. IInv
    BY DEF NInv
<1>1. ASSUME NurseryTypeOK', IInv', Aside'
      PROVE  NInv'
    BY <1>1 DEF NInv, Aside
<1>2. ASSUME NEW t \in Task, TaskNext(t)
      PROVE  NInv'
    <2>1. CASE CodeStep(t) \/ Wake(t) \/ ResumeCode(t)
        <3>1. IInv' /\ Aside'
            BY <1>0, <2>1, ScopeSteps, CodeAside
        <3>2. NurseryTypeOK'
            BY <2>1, <3>1, CodeTypes DEF IInv
        <3> QED
            BY <1>1, <3>1, <3>2
    <2>2. CASE AexitWait(t) \/ AexitCheckpoint(t)
        <3>1. IInv' /\ Aside'
            BY <1>0, <2>2, ScopeSteps, AexitWaitAside, AexitCheckpointAside
        <3>2. NurseryTypeOK'
            BY <2>2, <3>1, AexitTypes DEF IInv
        <3> QED
            BY <1>1, <3>1, <3>2
    <2>3. CASE ResumeInAexit(t) \/ ResumeCancelled(t) \/ AexitClose(t)
        <3>1. IInv' /\ Aside'
            BY <2>3, ResumeAexitSteps, ResumeAexitAside, AexitCloseStep, AexitCloseAside
        <3>2. NurseryTypeOK'
            BY <2>3, <3>1, AexitTypes DEF IInv
        <3> QED
            BY <1>1, <3>1, <3>2
    <2>4. CASE TaskExited(t)
        <3>1. IInv' /\ Aside'
            BY <2>4, ExceptionSteps, TaskExitedAside
        <3>2. NurseryTypeOK'
            BY <2>4, <3>1, StartTypes DEF IInv, Aside
        <3> QED
            BY <1>1, <3>1, <3>2
    <2>5. CASE ChildFinished(t)
        <3>1. IInv' /\ Aside'
            BY <2>5, PokeSteps, ChildFinishedAside
        <3>2. NurseryTypeOK'
            BY <2>5, <3>1, StartTypes DEF IInv, Aside
        <3> QED
            BY <1>1, <3>1, <3>2
    <2>6. CASE \E u \in Task : StartSpawn(t, u)
        <3>1. IInv' /\ Aside'
            BY <1>0, <2>6, ScopeSteps, StartSpawnAside
        <3>2. NurseryTypeOK'
            BY <2>6, <3>1, OpenTypes DEF IInv
        <3> QED
            BY <1>1, <3>1, <3>2
    <2>7. ASSUME NEW n \in NurseryScope, OpenNursery(t, n)
          PROVE  NInv'
        <3>1. n \in Scope \ StartScope
            BY NurseryAssumption
        <3>2. /\ Code(t) /\ Enter(t, n)
              /\ UNCHANGED <<children, parent_nursery, parent_waiting_in_aexit,
                             pending_starts, closed, new_nursery, pc>>
              /\ nested_child_running' = nested_child_running \cup {n}
            BY <2>7 DEF OpenNursery
        <3>3. IInv' /\ Aside'
            BY <1>0, <2>7, <3>1, <3>2, ScopeSteps, EnterAside
        <3>4. NurseryTypeOK'
            BY <2>7, <3>3, OpenTypes DEF IInv
        <3> QED
            BY <1>1, <3>3, <3>4
    <2>8. ASSUME NEW n \in NurseryScope, NestedChildFinished(t, n)
          PROVE  NInv'
        <3>1. IInv' /\ Aside'
            BY <2>8, ExceptionSteps, NestedAside
        <3>2. NurseryTypeOK'
            BY <2>8, <3>1, AexitTypes DEF IInv
        <3> QED
            BY <1>1, <3>1, <3>2
    <2>9. ASSUME NEW n \in NurseryScope, StartRefused(t, n)
          PROVE  NInv'
        <3>1. IInv' /\ Aside'
            BY <1>0, <2>9, ErrorSteps, CodeAside
        <3>2. NurseryTypeOK'
            BY <2>9, <3>1, CodeTypes DEF IInv
        <3> QED
            BY <1>1, <3>1, <3>2
    <2>10. ASSUME NEW n \in NurseryScope, NEW u \in Task, StartSoon(t, u, n)
           PROVE  NInv'
        <3>1. IInv' /\ Aside'
            BY <1>0, <2>10, ScopeSteps, StartSoonAside
        <3>2. NurseryTypeOK'
            BY <2>10, <3>1, OpenTypes DEF IInv
        <3> QED
            BY <1>1, <3>1, <3>2
    <2>11. ASSUME NEW n \in NurseryScope, NEW o \in StartScope, Start(t, n, o)
           PROVE  NInv'
        <3>1. IInv' /\ Aside'
            BY <1>0, <2>11, ScopeSteps, StartAside
        <3>2. NurseryTypeOK'
            BY <2>11, <3>1, OpenTypes DEF IInv
        <3> QED
            BY <1>1, <3>1, <3>2
    <2>12. ASSUME NEW o \in StartScope, StartReturns(t, o) \/ StartedPoke(t, o)
           PROVE  NInv'
        <3>1. IInv' /\ Aside'
            BY <2>12, PokeSteps, StartReturnsAside, StartedPokeAside
        <3>2. NurseryTypeOK'
            BY <2>12, <3>1, StartTypes DEF IInv, Aside
        <3> QED
            BY <1>1, <3>1, <3>2
    <2>13. ASSUME NEW o \in StartScope, Started(t, o)
           PROVE  NInv'
        <3>1. IInv' /\ Aside'
            BY <2>13, StartedStep, StartedAside, StartedCancelled
        <3>2. NurseryTypeOK'
            BY <2>13, <3>1, StartTypes DEF IInv, Aside
        <3> QED
            BY <1>1, <3>1, <3>2
    <2>14. ASSUME NEW o \in StartScope, StartedAgain(t, o)
           PROVE  NInv'
        <3>1. IInv' /\ Aside'
            BY <1>0, <2>14, ErrorSteps, CodeAside
        <3>2. NurseryTypeOK'
            BY <2>14, <3>1, CodeTypes DEF IInv
        <3> QED
            BY <1>1, <3>1, <3>2
    <2> QED
        BY <1>2, <2>1, <2>2, <2>3, <2>4, <2>5, <2>6, <2>7, <2>8, <2>9, <2>10, <2>11,
           <2>12, <2>13, <2>14 DEF TaskNext
<1>3. CASE Time
    <2>1. IInv' /\ Aside'
        BY <1>0, <1>3, ScopeSteps, CodeAside, NurseryAssumption
    <2>2. NurseryTypeOK'
        BY <1>3, <2>1, CodeTypes, NurseryAssumption DEF IInv
    <2> QED
        BY <1>1, <2>1, <2>2
<1>4. CASE UNCHANGED allVars
    <2>1. /\ UNCHANGED vars
          /\ SameTree /\ SameNurseries /\ UNCHANGED <<status, current, wait, next_send, pc>>
          /\ UNCHANGED <<called_started, main_task_outcome, pending_excs>>
        BY <1>4 DEF allVars, vars, scopeVars, taskVars, nurseryVars, SameTree, SameNurseries
    <2>2. IInv'
        BY <1>0, <2>1, NextInv
    <2>3. Aside'
        BY <2>1, CodeFrame DEF NudgeAt
    <2>4. NurseryTypeOK'
        <3>1. NurseryTypeOK /\ pc' \in [Task -> PC] /\ pending_excs' \in [Scope -> Exception]
            BY <2>1 DEF NInv, NurseryTypeOK
        <3> QED
            BY <2>1, <2>2, <3>1, SameNurseryTypes DEF IInv
    <2> QED
        BY <1>1, <2>2, <2>3, <2>4
<1> QED
    BY <1>2, <1>3, <1>4 DEF NurseryNext, Finished

(***************************************************************************)
(* So it is an invariant.                                                  *)
(***************************************************************************)
LEMMA NurseryInvariance == NurserySpec => []NInv
BY NurseryInitInv, NurseryNextInv, PTL DEF NurserySpec

(***************************************************************************)
(* Every status agrees with its scope and its parent, and no task that can *)
(* be cancelled sleeps in a cancelled status, also when started() moves    *)
(* tasks and statuses to another nursery and when handlers of __aexit__    *)
(* and task_exited cancel one.                                             *)
(***************************************************************************)
THEOREM CancellationFollows == NurserySpec => []CancellationFollowsTasks
<1>1. NInv => CancellationFollowsTasks
    BY DEF NInv, IInv, CancellationFollowsTasks
<1> QED
    BY <1>1, NurseryInvariance, PTL

(***************************************************************************)
(* With nurseries, and tasks moving between them, effectively_cancelled is *)
(* still exactly what the whole tree says.                                 *)
(***************************************************************************)
THEOREM NurseryCancellationExact == NurserySpec => []EffectivelyCancelledIsExact
<1>1. ASSUME NInv
      PROVE  EffectivelyCancelledIsExact
    <2>1. IInv
        BY <1>1 DEF NInv
    <2>2. Grounded(parent)
        BY <1>1 DEF NInv, GroundedTogether, Grounded
    <2>3. Orphans
        BY <1>1, CancelScopeAssumption DEF NInv, NoOrphans, Orphans, Children
    <2> QED
        BY <2>1, <2>2, <2>3, ReachedIsCancelled, CancelledIsReached
        DEF Settled, EffectivelyCancelledIsExact
<1> QED
    BY <1>1, NurseryInvariance, PTL

(***************************************************************************)
(* Going up from the status of a task one comes to its nursery: the scopes *)
(* of the task on the way end there.                                       *)
(***************************************************************************)
LEMMA StatusBelowNursery ==
    ASSUME NInv, NEW t \in Task, pc[t] \notin Outside
    PROVE  Encloses(parent, parent_nursery[t], status[t])
<1> SUFFICES ASSUME NEW A \in SUBSET Scope, status[t] \in A, UpwardClosed(parent, A),
                    parent_nursery[t] \notin A
             PROVE  FALSE
    BY DEF Encloses
<1> DEFINE C == {x \in A : x \in active /\ owner[x] = t}
<1>1. status[t] \in C
    BY DEF NInv, Stacks, NoOrphans
<1>2. ASSUME NEW x \in C
      PROVE  parent[x] \in C
    <2>1. x \in active \ {Root} /\ owner[x] = t /\ x \in Scope
        BY CancelScopeAssumption DEF NInv, Stacks
    <2>2. parent[x] # None
        BY <2>1 DEF NInv, IInv, Tree
    <2>3. parent[x] \in A /\ parent[x] \in active
        BY <2>1, <2>2 DEF UpwardClosed, NInv, NoOrphans
    <2>4. owner[parent[x]] = t
        BY <2>1, <2>3 DEF NInv, Stacks
    <2> QED
        BY <2>3, <2>4
<1>3. C \in SUBSET Scope /\ C # {}
    BY <1>1
<1> HIDE DEF C
<1> QED
    BY <1>2, <1>3 DEF NInv, GroundedTogether

(***************************************************************************)
(* No task outlives its nursery and no nursery outlives its tasks, however *)
(* many tasks and nurseries there are and wherever started() moves them;   *)
(* a target of start() stays open meanwhile, and a parent asleep in        *)
(* __aexit__ still has something whose end will wake it.                   *)
(***************************************************************************)
THEOREM NurseriesWait == NurserySpec => []NurseryWaitsForItsTasks
<1>1. ASSUME NInv
      PROVE  NurseryWaitsForItsTasks
    <2>0. NurseryTypeOK
        BY <1>1 DEF NInv
    <2>1. ASSUME NEW t \in Task, Alive(t), pc[t] # "exiting"
          PROVE  /\ parent_nursery[t] \in active \ closed
                 /\ Encloses(parent, parent_nursery[t], status[t])
        <3>1. pc[t] \notin Outside
            BY <1>1, <2>1 DEF NInv, Lives, Outside
        <3> QED
            BY <1>1, <2>1, <3>1, StatusBelowNursery DEF NInv, Membership
    <2>2. \A t \in Task, n \in Scope : t \in children[n] <=> parent_nursery[t] = n
        BY <1>1 DEF NInv, Membership
    <2>3. \A o \in StartScope :
             new_nursery[o] # None => new_nursery[o] \in active \ closed
        BY <1>1, NurseryAssumption DEF NInv, Starts
    <2>4. ASSUME Quiet, NEW n \in parent_waiting_in_aexit
          PROVE  children[n] # {} \/ pending_starts[n] > 0
        <3>1. /\ n \in active \ closed /\ owner[n] \in Task /\ pc[owner[n]] = "waiting"
              /\ status[owner[n]] = n
              /\ n \in NurseryScope => children[n] # {} \/ pending_starts[n] > 0
            BY <1>1 DEF NInv, Waiting
        <3>2. n \in NurseryKind /\ n \notin nested_child_running
            BY <1>1, <3>1 DEF NInv, Blocks, InAexit
        <3>3. CASE n \in StartScope
            <4>1. n \notin Emptied
                BY <1>1, <2>4 DEF NInv, StartBlocks, Quiet
            <4> QED
                BY <3>1, <3>2, <3>3, <4>1 DEF Emptied
        <3> QED
            BY <3>1, <3>2, <3>3 DEF NurseryKind
    <2> QED
        BY <2>0, <2>1, <2>2, <2>3, <2>4 DEF NurseryWaitsForItsTasks
<1> QED
    BY <1>1, NurseryInvariance, PTL

--------------------------------------------------------------------------------
(***************************************************************************)
(* Cancelled and what catches it.  A cancellation once seen stays, unless  *)
(* the program sets a shield on an open scope; no error is dropped by a    *)
(* nursery; and whatever the shields do, every Cancelled on its way has an *)
(* open cancelled scope around it.                                         *)
(***************************************************************************)

\* No open scope is shielded; a shield may be taken away.
NoneShieldedWhileOpen == [][shield' \cap active \subseteq shield]_allVars

(***************************************************************************)
(* recalculate() takes no cancellation back as long as every status that   *)
(* is cancelled has a reason to be.                                        *)
(***************************************************************************)
LEMMA RecalculateGrows ==
    ASSUME NEW c, NEW sh, NEW p \in [Scope -> Scope \cup {None}], NEW e,
           NEW R \in SUBSET Scope,
           \A x \in Scope : (x \in R \/ p[x] # None) /\ x \in e => NewState(c, sh, p, e, x)
    PROVE  Changed(c, sh, p, e, R) \cap e = {}
<1> DEFINE ch == Changed(c, sh, p, e, R)
           A  == ch \ e
<1>1. ch \subseteq Scope /\ ChangeClosed(c, sh, p, e, R, ch)
    BY ChangedIsClosed
<1>2. ChangedRoot(c, sh, p, e, R) \subseteq A
    BY <1>1 DEF ChangedRoot, ChangeClosed, NewState
<1>3. ASSUME NEW x \in Scope, p[x] \in A, ChangedChild(c, sh, p, e, x)
      PROVE  x \in A
    <2>1. x \in ch
        BY <1>1, <1>3 DEF ChangeClosed
    <2>2. p[x] # None /\ p[x] \notin e
        BY <1>1, <1>3, CancelScopeAssumption
    <2>3. x \notin e
        BY <1>3, <2>2 DEF ChangedChild, NewState, ParentCancellationIsVisible
    <2> QED
        BY <2>1, <2>3
<1>4. ChangeClosed(c, sh, p, e, R, A)
    BY <1>2, <1>3 DEF ChangeClosed
<1> QED
    BY <1>1, <1>4, ChangedIsLeast

(***************************************************************************)
(* A walk after a cancel() or the removal of a shield takes none back.     *)
(***************************************************************************)
LEMMA CancelGrows ==
    ASSUME IInv, NEW c, cancel_called \subseteq c, NEW sh, NEW R \in SUBSET active,
           sh \cap active \subseteq shield, NEW st,
           Recalculate(c, sh, parent, effectively_cancelled, st, R)
    PROVE  effectively_cancelled \subseteq effectively_cancelled'
<1> DEFINE e  == effectively_cancelled
           ch == Changed(c \cup LateScopes, sh, parent, e, R)
<1>1. /\ parent \in [Scope -> Scope \cup {None}] /\ R \in SUBSET Scope
      /\ active \subseteq Scope
    BY DEF IInv, TypeOK
<1>2. ASSUME NEW x \in Scope, x \in R \/ parent[x] # None, x \in e
      PROVE  NewState(c \cup LateScopes, sh, parent, e, x)
    <2>1. x \in active
        BY <1>2 DEF IInv, Tree
    <2> QED
        BY <1>2, <2>1 DEF IInv, Consistent, NewState, ParentCancellationIsVisible
<1>3. ch \cap e = {}
    BY <1>1, <1>2, RecalculateGrows
<1>4. e' = (e \ ch) \cup (ch \ e)
    BY DEF Recalculate
<1> HIDE DEF ch
<1> QED
    BY <1>3, <1>4

(***************************************************************************)
(* started() takes none back: a status below the old nursery is cancelled  *)
(* on its own account, since the old nursery is not cancelled.             *)
(***************************************************************************)
LEMMA StartedGrows ==
    ASSUME NInv, NEW t \in Task, NEW o \in StartScope, Started(t, o), MayMove(o)
    PROVE  effectively_cancelled \subseteq effectively_cancelled'
<1> DEFINE n     == new_nursery[o]
           below == Children(parent, o)
           p     == [s \in Scope |-> IF s \in below THEN n ELSE parent[s]]
           e     == effectively_cancelled
           ch    == Changed(cancel_called \cup LateScopes, shield, p, e, below)
<1>1. Moves(t, o, n) /\ o \notin e
    BY StartedFacts DEF MayMove
<1>2. Move(o, n)
    BY DEF Started
<1>3. e' = (e \ ch) \cup (ch \ e)
    BY <1>2 DEF Move
<1>4. n \in Scope /\ o \in Scope /\ parent \in [Scope -> Scope \cup {None}]
    BY <1>1 DEF Moves, NInv, IInv, TypeOK
<1>5. /\ below \in SUBSET Scope /\ \A s \in Scope : s \in below <=> parent[s] = o
      /\ p \in [Scope -> Scope \cup {None}]
      /\ \A s \in Scope : p[s] = IF s \in below THEN n ELSE parent[s]
    BY <1>4 DEF Children
<1> HIDE DEF n, below, p
<1>6. ASSUME NEW x \in Scope, x \in below \/ p[x] # None, x \in e
      PROVE  NewState(cancel_called \cup LateScopes, shield, p, e, x)
    <2>1. x \in active
        <3>1. parent[x] # None
            BY <1>4, <1>5, <1>6, CancelScopeAssumption
        <3> QED
            BY <3>1 DEF NInv, IInv, Tree
    <2>2. NewState(cancel_called, shield, parent, e, x)
        BY <1>6, <2>1 DEF NInv, IInv, Consistent
    <2> QED
        BY <1>1, <1>5, <2>2 DEF NewState, ParentCancellationIsVisible
<1>7. ch \cap e = {}
    BY <1>5, <1>6, RecalculateGrows
<1> HIDE DEF ch
<1> QED
    BY <1>3, <1>7

(***************************************************************************)
(* So no step of the system takes a cancellation back.                     *)
(***************************************************************************)
LEMMA EffectivelyGrows ==
    ASSUME NInv, [NurseryNext]_allVars, [shield' \cap active \subseteq shield]_allVars
    PROVE  effectively_cancelled \subseteq effectively_cancelled'
<1>0. IInv /\ TypeOK
    BY DEF NInv, IInv
<1>1. CASE UNCHANGED allVars
    BY <1>1 DEF allVars, vars, scopeVars
<1>2. CASE Time
    <2>1. CASE Expire
        <3> DEFINE expired == LateScopes \ cancel_called
                   c == cancel_called \cup expired
        <3>1. Recalculate(c, shield, parent, effectively_cancelled, status, expired)
            BY <2>1 DEF Expire
        <3>2. expired \in SUBSET active /\ cancel_called \subseteq c
            BY DEF LateScopes
        <3> HIDE DEF c, expired
        <3> QED
            BY <1>0, <3>1, <3>2, CancelGrows
    <2> QED
        BY <1>2, <2>1 DEF Time, MoveDeadline
<1>3. ASSUME NEW t \in Task, CodeStep(t), ~UNCHANGED allVars
      PROVE  effectively_cancelled \subseteq effectively_cancelled'
    <2>1. CASE \E s \in PlainScope : Enter(t, s)
        BY <2>1 DEF Enter
    <2>2. CASE \E s \in PlainScope : Exit(t, s)
        <3>1. PICK s \in PlainScope : Exit(t, s)
            BY <2>2
        <3>2. Code(t)
            BY <1>3 DEF CodeStep
        <3>3. /\ s \in active \ {Root} /\ status[t] = s /\ owner[s] = t
              /\ \A u \in Task : parent_nursery[u] # s
              /\ CloseScope(t, s, InFlight(t), [status EXCEPT ![t] = parent[s]])
            BY <3>1, <3>2, ExitOwned
        <3> QED
            BY <3>3, CloseFacts
    <2>3. CASE \E s \in Cancellable : Cancel(s)
        <3>1. PICK s \in Cancellable : Cancel(s)
            BY <2>3
        <3>2. CASE s \in active
            <4> DEFINE c == cancel_called \cup {s}
            <4>1. Recalculate(c, shield, parent, effectively_cancelled, status, {s})
                BY <3>1, <3>2 DEF Cancel
            <4>2. {s} \in SUBSET active /\ cancel_called \subseteq c
                BY <3>2
            <4> HIDE DEF c
            <4> QED
                BY <1>0, <4>1, <4>2, CancelGrows
        <3> QED
            BY <3>1, <3>2 DEF Cancel
    <2>4. CASE \E s \in Shielding : SetShield(s)
        <3>1. PICK s \in Shielding : SetShield(s)
            BY <2>4
        <3>2. CASE s \in active
            <4>1. Recalculate(cancel_called, shield', parent, effectively_cancelled,
                              status, {s})
                BY <3>1, <3>2 DEF SetShield
            <4>2. {s} \in SUBSET active /\ shield' \cap active \subseteq shield
                BY <1>3, <3>2
            <4> QED
                BY <1>0, <4>1, <4>2, CancelGrows
        <3> QED
            BY <3>1, <3>2 DEF SetShield
    <2>5. CASE \/ UserCode(t) \/ CancelShieldedCheckpoint(t)
               \/ \E k \in Blocking : WaitTaskRescheduled(t, k)
        BY <2>5 DEF UserCode, CancelShieldedCheckpoint, WaitTaskRescheduled, scopeVars
    <2> QED
        BY <1>3, <2>1, <2>2, <2>3, <2>4, <2>5 DEF CodeStep
<1>4. ASSUME NEW n \in active, NEW exc, CancelFor(n, exc)
      PROVE  effectively_cancelled \subseteq effectively_cancelled'
    <2>1. CASE Recalculate(cancel_called \cup {n}, shield, parent,
                           effectively_cancelled, status, {n})
        <3> DEFINE c == cancel_called \cup {n}
        <3>1. Recalculate(c, shield, parent, effectively_cancelled, status, {n})
            BY <2>1
        <3>2. {n} \in SUBSET active /\ cancel_called \subseteq c
            BY <1>4
        <3> HIDE DEF c
        <3> QED
            BY <1>0, <3>1, <3>2, CancelGrows
    <2> QED
        BY <1>4, <2>1 DEF CancelFor
<1>5. ASSUME NEW t \in Task, TaskNext(t), ~CodeStep(t)
      PROVE  effectively_cancelled \subseteq effectively_cancelled'
    <2>1. CASE TaskExited(t)
        <3>1. parent_nursery[t] \in active
            BY <2>1 DEF TaskExited, Code, NInv, Lives, Membership, Alive
        <3>2. PICK exc : CancelFor(parent_nursery[t], exc)
            BY <2>1 DEF TaskExited
        <3> QED
            BY <1>4, <3>1, <3>2
    <2>2. CASE \E n \in NurseryScope : NestedChildFinished(t, n)
        BY <1>4, <2>2 DEF NestedChildFinished, NInv, NoOrphans
    <2>3. CASE AexitClose(t)
        <3>1. /\ status[t] \in active \ {Root} /\ owner[status[t]] = t
              /\ \A u \in Task : parent_nursery[u] # status[t]
            BY <2>3, AexitOwned
        <3>2. CloseScope(t, status[t], pending_excs[status[t]],
                         [status EXCEPT ![t] = parent[status[t]]])
            BY <2>3 DEF AexitClose
        <3> QED
            BY <3>1, <3>2, CloseFacts
    <2>4. CASE \E o \in StartScope : Started(t, o)
        <3>1. PICK o \in StartScope : Started(t, o)
            BY <2>4
        <3>2. CASE MayMove(o)
            BY <3>1, <3>2, StartedGrows
        <3>3. CASE ~MayMove(o)
            BY <3>1, <3>3 DEF Started
        <3> QED
            BY <3>2, <3>3
    <2>5. CASE \/ \E n \in NurseryScope : OpenNursery(t, n)
               \/ \E n \in NurseryScope, o \in StartScope : Start(t, n, o)
        BY <2>5 DEF OpenNursery, Start, Enter
    <2>6. CASE \/ Wake(t) \/ ResumeCode(t) \/ AexitWait(t) \/ AexitCheckpoint(t)
               \/ ResumeInAexit(t) \/ ResumeCancelled(t)
        BY <2>6 DEF Wake, Reschedule, ResumeCode, Resume, AexitWait, WaitTaskRescheduled,
            AexitCheckpoint, CancelShieldedCheckpoint, ResumeInAexit, ResumeCancelled,
            scopeVars
    <2>7. CASE \/ ChildFinished(t) \/ \E u \in Task : StartSpawn(t, u)
               \/ \E n \in NurseryScope : StartRefused(t, n)
               \/ \E n \in NurseryScope, u \in Task : StartSoon(t, u, n)
               \/ \E o \in StartScope :
                     StartReturns(t, o) \/ StartedPoke(t, o) \/ StartedAgain(t, o)
        BY <2>7 DEF ChildFinished, StartSpawn, Spawn, StartRefused, StartSoon,
            StartReturns, StartedPoke, StartedAgain, scopeVars
    <2> QED
        BY <1>5, <2>1, <2>2, <2>3, <2>4, <2>5, <2>6, <2>7 DEF TaskNext
<1> QED
    BY <1>1, <1>2, <1>3, <1>5 DEF NurseryNext, Finished

(***************************************************************************)
(* A status that is cancelled stays cancelled: no cancel(), deadline,      *)
(* block, task or move to another nursery takes a cancellation back, only  *)
(* a shield that the program sets on an open scope does.                   *)
(***************************************************************************)
THEOREM CancellationStays ==
    NurserySpec /\ NoneShieldedWhileOpen =>
        [][effectively_cancelled \subseteq effectively_cancelled']_allVars
<1>1. NInv /\ [NurseryNext]_allVars /\ [shield' \cap active \subseteq shield]_allVars =>
         [effectively_cancelled \subseteq effectively_cancelled']_allVars
    BY EffectivelyGrows
<1> QED
    BY <1>1, NurseryInvariance, PTL DEF NurserySpec, NoneShieldedWhileOpen

(***************************************************************************)
(* Exceptions kept by nurseries.                                           *)
(***************************************************************************)

\* Only nurseries keep exceptions.
NurseriesKeep ==
    \A n \in Scope : pending_excs[n] # {} => n \in NurseryKind \cup {Root}

(***************************************************************************)
(* A wait that is aborted is that of the parent of an open nursery.        *)
(***************************************************************************)
LEMMA AbortedNursery ==
    ASSUME NInv', NEW n \in Aborted
    PROVE  /\ n \in NurseryKind /\ n \in active' /\ owner'[n] \in Task
           /\ status'[owner'[n]] = n
<1>1. n \in parent_waiting_in_aexit'
    BY DEF Aborted
<1>2. /\ n \in active' /\ owner'[n] \in Task /\ pc'[owner'[n]] = "waiting"
      /\ status'[owner'[n]] = n
    BY <1>1 DEF NInv, Waiting
<1> QED
    BY <1>2 DEF NInv, Blocks, InAexit

(***************************************************************************)
(* What a nursery is given, and what aborted waits add.                    *)
(***************************************************************************)
LEMMA PendingExcsAt ==
    ASSUME NEW base, PendingExcs(base), NEW n \in Scope
    PROVE  /\ \A exc \in pending_excs'[n] :
                 exc \in base[n] \/ (n \in Aborted /\ exc = "Cancelled")
           /\ pending_excs'[n] # {} => base[n] # {} \/ n \in Aborted
<1>1. pending_excs'[n] = base[n] \cup IF n \in Aborted THEN {"Cancelled"} ELSE {}
    BY DEF PendingExcs
<1> QED
    BY <1>1

(***************************************************************************)
(* Every step leaves exceptions in nurseries only.                         *)
(***************************************************************************)
LEMMA NurseriesKeepNext ==
    ASSUME NInv, NInv', NurseriesKeep, [NurseryNext]_allVars
    PROVE  NurseriesKeep'
<1>0. NurseryTypeOK /\ pending_excs \in [Scope -> Exception]
    BY DEF NInv, NurseryTypeOK
<1>1. CASE PendingExcs(pending_excs)
    BY <1>1, PendingExcsAt, AbortedNursery DEF NurseriesKeep
<1>2. CASE UNCHANGED pending_excs
    BY <1>2 DEF NurseriesKeep
<1>3. ASSUME NEW t \in Task, NEW n \in NurseryScope, NestedChildFinished(t, n)
      PROVE  NurseriesKeep'
    <2> DEFINE base == [pending_excs EXCEPT ![n] = @ \cup raised[n]]
    <2>1. PendingExcs(base)
        BY <1>3 DEF NestedChildFinished
    <2>2. \A m \in Scope : m # n => base[m] = pending_excs[m]
        BY <1>0
    <2> HIDE DEF base
    <2> QED
        BY <2>1, <2>2, PendingExcsAt, AbortedNursery DEF NurseriesKeep, NurseryKind
<1>4. ASSUME NEW t \in Task, TaskExited(t)
      PROVE  NurseriesKeep'
    <2>1. PICK exc : PendingExcs([pending_excs EXCEPT ![parent_nursery[t]] = @ \cup exc])
        BY <1>4 DEF TaskExited
    <2> DEFINE n    == parent_nursery[t]
               base == [pending_excs EXCEPT ![n] = @ \cup exc]
    <2>2. n \in NurseryKind \cup {Root}
        BY <1>4 DEF TaskExited, Code, NInv, Lives, Membership, Alive
    <2>3. \A m \in Scope : m # n => base[m] = pending_excs[m]
        BY <1>0
    <2>4. PendingExcs(base)
        BY <2>1
    <2> HIDE DEF base, n
    <2> QED
        BY <2>2, <2>3, <2>4, PendingExcsAt, AbortedNursery DEF NurseriesKeep
<1>5. ASSUME NEW t \in Task, ResumeCancelled(t)
      PROVE  NurseriesKeep'
    <2>1. status[t] \in NurseryKind
        BY <1>5 DEF ResumeCancelled, NInv, Blocks, InAexit
    <2> QED
        BY <1>0, <1>5, <2>1 DEF ResumeCancelled, NurseriesKeep
<1>6. ASSUME NEW t \in Task, AexitClose(t)
      PROVE  NurseriesKeep'
    BY <1>0, <1>6 DEF AexitClose, NurseriesKeep
<1>7. ASSUME NEW t \in Task, TaskNext(t)
      PROVE  \/ PendingExcs(pending_excs) \/ UNCHANGED pending_excs
             \/ \E n \in NurseryScope : NestedChildFinished(t, n)
             \/ TaskExited(t) \/ ResumeCancelled(t) \/ AexitClose(t)
    <2>1. CASE \/ CodeStep(t) \/ AexitWait(t) \/ \E o \in StartScope : Started(t, o)
        BY <2>1 DEF CodeStep, AexitWait, Started
    <2>2. CASE \/ Wake(t) \/ ResumeCode(t) \/ AexitCheckpoint(t) \/ ResumeInAexit(t)
               \/ ChildFinished(t) \/ \E u \in Task : StartSpawn(t, u)
        BY <2>2 DEF Wake, ResumeCode, AexitCheckpoint, ResumeInAexit, ChildFinished,
            StartSpawn, nurseryVars
    <2>3. CASE \E n \in NurseryScope :
                  \/ OpenNursery(t, n) \/ StartRefused(t, n)
                  \/ \E u \in Task : StartSoon(t, u, n)
                  \/ \E o \in StartScope : Start(t, n, o)
        BY <2>3 DEF OpenNursery, StartRefused, StartSoon, Start, nurseryVars
    <2>4. CASE \E o \in StartScope :
                  StartReturns(t, o) \/ StartedPoke(t, o) \/ StartedAgain(t, o)
        BY <2>4 DEF StartReturns, StartedPoke, StartedAgain, nurseryVars
    <2> QED
        BY <1>7, <2>1, <2>2, <2>3, <2>4 DEF TaskNext
<1>8. CASE Time \/ UNCHANGED allVars
    BY <1>1, <1>2, <1>8 DEF Time, allVars, nurseryVars
<1> QED
    BY <1>1, <1>2, <1>3, <1>4, <1>5, <1>6, <1>7, <1>8 DEF NurseryNext, Finished

(***************************************************************************)
(* Only __exit__ and the end of __aexit__ close a scope.                   *)
(***************************************************************************)
LEMMA OnlyCloseCloses ==
    ASSUME [NurseryNext]_allVars, NEW n \in active, n \notin active'
    PROVE  \E t \in Task : \/ AexitClose(t)
                           \/ Code(t) /\ \E s \in PlainScope : Exit(t, s)
<1>1. CASE UNCHANGED allVars
    BY <1>1 DEF allVars, vars, scopeVars
<1>2. CASE Time
    BY <1>2 DEF Time, MoveDeadline, Expire
<1>3. ASSUME NEW t \in Task, TaskNext(t), ~AexitClose(t),
             ~(Code(t) /\ \E s \in PlainScope : Exit(t, s))
      PROVE  FALSE
    <2>1. CASE CodeStep(t)
        BY <1>3, <2>1 DEF CodeStep, UserCode, CancelShieldedCheckpoint, WaitTaskRescheduled,
            Enter, Cancel, SetShield, scopeVars
    <2>2. CASE \/ Wake(t) \/ ResumeCode(t) \/ AexitWait(t) \/ AexitCheckpoint(t)
               \/ ResumeInAexit(t) \/ ResumeCancelled(t)
        BY <2>2 DEF Wake, Reschedule, ResumeCode, Resume, AexitWait, WaitTaskRescheduled,
            AexitCheckpoint, CancelShieldedCheckpoint, ResumeInAexit, ResumeCancelled,
            scopeVars
    <2>3. CASE TaskExited(t) \/ ChildFinished(t) \/ \E u \in Task : StartSpawn(t, u)
        BY <2>3 DEF TaskExited, ChildFinished, StartSpawn, Spawn, scopeVars
    <2>4. CASE \E m \in NurseryScope :
                  \/ OpenNursery(t, m) \/ NestedChildFinished(t, m) \/ StartRefused(t, m)
                  \/ \E u \in Task : StartSoon(t, u, m)
                  \/ \E o \in StartScope : Start(t, m, o)
        BY <2>4 DEF OpenNursery, Enter, NestedChildFinished, StartRefused, StartSoon, Spawn,
            Start, scopeVars
    <2>5. CASE \E o \in StartScope :
                  \/ StartReturns(t, o) \/ Started(t, o)
                  \/ StartedPoke(t, o) \/ StartedAgain(t, o)
        BY <2>5 DEF StartReturns, Started, StartedPoke, StartedAgain, scopeVars
    <2> QED
        BY <1>3, <2>1, <2>2, <2>3, <2>4, <2>5 DEF TaskNext
<1> QED
    BY <1>1, <1>2, <1>3 DEF NurseryNext, Finished

(***************************************************************************)
(* No error is lost in a nursery: what __aexit__ has collected goes        *)
(* through _close(), which drops Cancelled and nothing else, into the      *)
(* block that the parent task is in then; and __exit__ of a scope without  *)
(* a nursery has no exceptions kept to lose.                               *)
(***************************************************************************)
THEOREM NoErrorLost == NurserySpec => ErrorsPropagate
<1>1. NurseryInit => NurseriesKeep
    BY DEF NurseryInit, NurseriesKeep
<1>2. NInv /\ NInv' /\ NurseriesKeep /\ [NurseryNext]_allVars => NurseriesKeep'
    BY NurseriesKeepNext
<1>3. ASSUME NInv, NurseriesKeep, [NurseryNext]_allVars, NEW n \in Scope,
             "Error" \in pending_excs[n], n \in active, n \notin active'
      PROVE  "Error" \in raised'[Block(status', owner', owner[n])]
    <2>0. /\ TypeOK /\ raised \in [Scope \cup Task -> Exception]
          /\ status \in [Task -> Scope] /\ n \in NurseryKind \cup {Root}
          /\ owner \in [Scope -> Task \cup {None}]
        BY <1>3 DEF NInv, IInv, TypeOK, NurseriesKeep
    <2>1. PICK t \in Task : \/ AexitClose(t)
                            \/ Code(t) /\ \E s \in PlainScope : Exit(t, s)
        BY <1>3, OnlyCloseCloses
    <2>2. CASE Code(t) /\ \E s \in PlainScope : Exit(t, s)
        <3>1. PICK s \in PlainScope : Exit(t, s)
            BY <2>2
        <3>2. active' = active \ {s}
            BY <3>1 DEF Exit, CloseScope
        <3> QED
            BY <1>3, <2>0, <3>2 DEF PlainScope, NurseryKind
    <2>3. CASE AexitClose(t)
        <3> DEFINE m   == status[t]
                   exc == pending_excs[m]
                   st  == [status EXCEPT ![t] = parent[m]]
        <3>1. /\ m \in active \ {Root} /\ owner[m] = t /\ exc \in Exception
              /\ \A u \in Task : parent_nursery[u] # m
            BY <1>3, <2>3, AexitOwned
        <3>2. CloseScope(t, m, exc, st)
            BY <2>3 DEF AexitClose
        <3>3. /\ parent[m] \in active /\ parent[m] # m /\ owner' = owner
              /\ active' = active \ {m}
            BY <1>3, <3>1, <3>2, CloseFacts
        <3>4. n = m /\ status' = st
            BY <1>3, <3>2, <3>3 DEF CloseScope
        <3>5. "Error" \in Remaining(m, exc) /\ Remaining(m, exc) # {}
            BY <1>3, <3>4 DEF Remaining
        <3>6. Block(st, owner, t) \in Scope \cup Task
            BY <2>0, <3>3 DEF Block, TypeOK
        <3>7. raised'[Block(st, owner, t)] = Remaining(m, exc)
            <4>1. raised' = [raised EXCEPT
                        ![Block(status, owner, t)] = {},
                        ![Block(st, owner, t)] = IF Remaining(m, exc) = {} THEN @
                                                 ELSE Remaining(m, exc)]
                BY <3>2 DEF CloseScope
            <4> HIDE DEF st, exc, m
            <4> QED
                BY <2>0, <3>5, <3>6, <4>1
        <3> QED
            BY <3>1, <3>3, <3>4, <3>5, <3>7
    <2> QED
        BY <2>1, <2>2, <2>3
<1>4. NInv /\ NurseriesKeep /\ [NurseryNext]_allVars =>
         [\A n \in Scope :
             "Error" \in pending_excs[n] /\ n \in active /\ n \notin active'
                 => "Error" \in raised'[Block(status', owner', owner[n])]]_allVars
    BY <1>3
<1> QED
    BY <1>1, <1>2, <1>4, NurseryInvariance, PTL DEF NurserySpec, ErrorsPropagate

(***************************************************************************)
(* How links that are added, cut or moved change what encloses what.       *)
(***************************************************************************)

(***************************************************************************)
(* A leaf of the tree is on nobody else's way.                             *)
(***************************************************************************)
LEMMA LeafAside ==
    ASSUME NEW p, NEW q, NEW s, NEW a, NEW x \in Scope, x # s, Encloses(p, a, x),
           \A y \in Scope : y # s => q[y] = p[y],
           \A y \in Scope : q[y] # s
    PROVE  Encloses(q, a, x)
<1> SUFFICES ASSUME NEW A \in SUBSET Scope, x \in A, UpwardClosed(q, A)
             PROVE  a \in A
    BY DEF Encloses
<1> DEFINE B == A \ {s}
<1>1. x \in B /\ B \in SUBSET Scope
    OBVIOUS
<1>2. UpwardClosed(p, B)
    BY DEF UpwardClosed
<1> HIDE DEF B
<1>3. a \in B
    BY <1>1, <1>2 DEF Encloses
<1> QED
    BY <1>3 DEF B

(***************************************************************************)
(* q is p with the links to o moved to n.                                  *)
(***************************************************************************)
Relinked(p, q, o, n) ==
    /\ p \in [Scope -> Scope \cup {None}] /\ o \in Scope /\ n \in Scope
    /\ \A y \in Scope : q[y] = IF p[y] = o THEN n ELSE p[y]

(***************************************************************************)
(* What is not below o has the same scopes around it, and o is around none *)
(* of them.                                                                *)
(***************************************************************************)
LEMMA OuterSame ==
    ASSUME NEW p, NEW q, NEW o, NEW n, Relinked(p, q, o, n),
           NEW y \in Scope, ~Encloses(p, o, y), NEW x
    PROVE  /\ Encloses(p, x, y) <=> Encloses(q, x, y)
           /\ Encloses(p, x, y) /\ x \in Scope => ~Encloses(p, o, x)
<1>1. PICK A0 \in SUBSET Scope : y \in A0 /\ UpwardClosed(p, A0) /\ o \notin A0
    BY DEF Encloses
<1>2. \A z \in A0 : q[z] = p[z]
    BY <1>1, CancelScopeAssumption DEF Relinked, UpwardClosed
<1>3. ASSUME Encloses(p, x, y), NEW A \in SUBSET Scope, y \in A, UpwardClosed(q, A)
      PROVE  x \in A
    <2> DEFINE B == A \cap A0
    <2>1. y \in B /\ B \in SUBSET Scope /\ UpwardClosed(p, B)
        BY <1>1, <1>2, <1>3 DEF UpwardClosed
    <2> HIDE DEF B
    <2>2. x \in B
        BY <1>3, <2>1 DEF Encloses
    <2> QED
        BY <2>2 DEF B
<1>4. ASSUME Encloses(q, x, y), NEW A \in SUBSET Scope, y \in A, UpwardClosed(p, A)
      PROVE  x \in A
    <2> DEFINE B == A \cap A0
    <2>1. y \in B /\ B \in SUBSET Scope /\ UpwardClosed(q, B)
        BY <1>1, <1>2, <1>4 DEF UpwardClosed
    <2> HIDE DEF B
    <2>2. x \in B
        BY <1>4, <2>1 DEF Encloses
    <2> QED
        BY <2>2 DEF B
<1>5. Encloses(p, x, y) => Encloses(q, x, y)
    BY <1>3 DEF Encloses
<1>6. Encloses(q, x, y) => Encloses(p, x, y)
    BY <1>4 DEF Encloses
<1>7. Encloses(p, x, y) /\ x \in Scope => ~Encloses(p, o, x)
    BY EnclosesTransitive
<1> QED
    BY <1>5, <1>6, <1>7

(***************************************************************************)
(* What is around a scope and not around o stays around that scope.        *)
(***************************************************************************)
LEMMA InnerStays ==
    ASSUME NEW p, NEW q, NEW o, NEW n, Relinked(p, q, o, n),
           NEW a, NEW y \in Scope, Encloses(p, a, y), ~Encloses(p, a, o)
    PROVE  Encloses(q, a, y)
<1>1. PICK A1 \in SUBSET Scope : o \in A1 /\ UpwardClosed(p, A1) /\ a \notin A1
    BY DEF Encloses
<1> SUFFICES ASSUME NEW A \in SUBSET Scope, y \in A, UpwardClosed(q, A)
             PROVE  a \in A
    BY DEF Encloses
<1> DEFINE B == A \cup A1
<1>2. y \in B /\ B \in SUBSET Scope
    OBVIOUS
<1>3. ASSUME NEW z \in B, p[z] # None
      PROVE  p[z] \in B
    <2>1. CASE z \in A1
        BY <1>1, <1>3, <2>1 DEF UpwardClosed
    <2>2. CASE z \in A /\ p[z] = o
        BY <1>1, <2>2
    <2>3. CASE z \in A /\ p[z] # o
        <3>1. q[z] = p[z]
            BY <2>3 DEF Relinked
        <3> QED
            BY <1>3, <2>3, <3>1 DEF UpwardClosed
    <2> QED
        BY <2>1, <2>2, <2>3
<1>4. UpwardClosed(p, B)
    BY <1>3 DEF UpwardClosed
<1> HIDE DEF B
<1>5. a \in B
    BY <1>2, <1>4 DEF Encloses
<1> QED
    BY <1>1, <1>5 DEF B

(***************************************************************************)
(* A scope strictly below o is around the same scopes as before, all of    *)
(* them below o.                                                           *)
(***************************************************************************)
LEMMA InnerSame ==
    ASSUME NEW p, NEW q, NEW o, NEW n, Relinked(p, q, o, n), Grounded(p),
           ~Encloses(p, o, n), NEW x \in Scope, x # o, Encloses(p, o, x),
           NEW y \in Scope, Encloses(q, x, y)
    PROVE  /\ y # o /\ Encloses(p, o, y)
           /\ Encloses(p, x, y)
<1> DEFINE D == {z \in Scope : z # o /\ Encloses(p, o, z)}
           C == Scope \ D
<1>0. /\ p \in [Scope -> Scope \cup {None}] /\ o \in Scope /\ n \in C /\ x \in D
      /\ C \in SUBSET Scope
      /\ \A z \in Scope : q[z] = IF p[z] = o THEN n ELSE p[z]
    BY EnclosesSelf DEF Relinked
<1>1. ASSUME NEW z \in C, p[z] # None
      PROVE  p[z] \notin D /\ p[z] # o
    <2>1. Encloses(p, p[z], z) /\ z \in Scope
        BY <1>1, EnclosesSelf
    <2> SUFFICES ASSUME Encloses(p, o, p[z])
                 PROVE  FALSE
        BY EnclosesSelf
    <2>2. Encloses(p, o, z)
        BY <2>1, EnclosesTransitive
    <2>3. z = o
        BY <2>1, <2>2
    <2> QED
        BY <1>0, <1>1, <2>3, GroundedNoCycle
<1>2. UpwardClosed(q, C)
    <2> SUFFICES ASSUME NEW z \in C, q[z] # None
                 PROVE  q[z] \in C
        BY DEF UpwardClosed
    <2>1. CASE p[z] = o
        BY <1>0, <2>1
    <2>2. CASE p[z] # o
        <3>1. q[z] = p[z] /\ p[z] \in Scope
            BY <1>0, <2>2
        <3> QED
            BY <1>1, <3>1
    <2> QED
        BY <2>1, <2>2
<1>3. y \in D
    <2>1. y \in C => x \in C
        BY <1>0, <1>2 DEF Encloses
    <2> QED
        BY <1>0, <2>1
<1>4. Encloses(p, x, y)
    <2> SUFFICES ASSUME NEW A \in SUBSET Scope, y \in A, UpwardClosed(p, A)
                 PROVE  x \in A
        BY DEF Encloses
    <2> DEFINE B == A \cup C
    <2>1. y \in B /\ B \in SUBSET Scope
        BY <1>0
    <2>2. ASSUME NEW z \in B, q[z] # None
          PROVE  q[z] \in B
        <3>1. CASE z \in C
            BY <1>2, <2>2, <3>1 DEF UpwardClosed
        <3>2. CASE z \in A /\ p[z] = o
            BY <1>0, <3>2
        <3>3. CASE z \in A /\ p[z] # o
            <4>1. q[z] = p[z]
                BY <1>0, <3>3
            <4> QED
                BY <2>2, <3>3, <4>1 DEF UpwardClosed
        <3> QED
            BY <3>1, <3>2, <3>3
    <2>3. UpwardClosed(q, B)
        BY <2>2 DEF UpwardClosed
    <2> HIDE DEF B
    <2>4. x \in B
        BY <2>1, <2>3 DEF Encloses
    <2> QED
        BY <1>0, <2>4 DEF B
<1> QED
    BY <1>3, <1>4
(***************************************************************************)
(* Where a Cancelled can be, and the scope that will catch it.  That its   *)
(* status is effectively cancelled would not be an invariant: a shield set *)
(* while Cancelled is on its way takes the cancellation back.  What lasts  *)
(* is that a scope whose cancel() was called is around it, with no start() *)
(* nursery in between that started() could still move things out of.       *)
(***************************************************************************)

\* The start() nurseries that started() may still empty.
Movable == (StartScope \cap (active \ closed)) \ cancel_called

\* An open cancelled scope is around s and will stay there.
Held(s) ==
    /\ s \in active
    /\ \E a \in active \cap cancel_called :
          /\ Encloses(parent, a, s)
          /\ \A o \in Movable : Encloses(parent, o, s) => ~Encloses(parent, a, o)

\* A Cancelled is to be sent to task u, or may be once u is woken.
OnItsWay(u) ==
    wait[u] = "failed" \/ (next_send[u] = "Cancelled" /\ pc[u] # "cancelled")

\* The status of such a task is held,
SendKept == \A u \in Task : OnItsWay(u) => Held(status[u])

\* so is the block a Cancelled is raised in, or the nursery of the task,
RaisedKept ==
    /\ \A u \in Task : "Cancelled" \in raised[u] =>
          pc[u] \notin Outside /\ Held(parent_nursery[u])
    /\ \A s \in Scope : "Cancelled" \in raised[s] => Held(s)

\* a nursery that keeps one was cancelled itself,
PendingKept ==
    \A s \in Scope : "Cancelled" \in pending_excs[s] => s \in active \cap cancel_called

\* and so was one whose __aexit__ was interrupted, by its abort function.
FailedKept ==
    \A n \in parent_waiting_in_aexit : wait[owner[n]] = "failed" => n \in cancel_called

Kept == SendKept /\ RaisedKept /\ PendingKept /\ FailedKept /\ NurseriesKeep

\* No task is between opening the nursery of a start() and waiting in it.
NoWindow == \A o \in StartScope \cap active : pc[owner[o]] \notin {"spawn", "aexit"}

(***************************************************************************)
(* A start() nursery that can be emptied is not itself held.               *)
(***************************************************************************)
LEMMA MovableNotHeld ==
    ASSUME NEW o \in Movable
    PROVE  ~Held(o)
BY EnclosesSelf DEF Held

(***************************************************************************)
(* A cancelled status is held: the cancellation that reaches it has also   *)
(* reached any start() nursery in between, whose parent sleeps in          *)
(* __aexit__ and whose abort function has cancelled it.                    *)
(***************************************************************************)
LEMMA HeldCancelled ==
    NInv /\ FailedKept /\ NoWindow =>
        \A s \in active : s \in effectively_cancelled => Held(s)
<1> SUFFICES ASSUME NInv, FailedKept, NoWindow, NEW s \in active,
                    s \in effectively_cancelled
             PROVE  Held(s)
    OBVIOUS
<1>0. /\ s \in Scope /\ parent \in [Scope -> Scope \cup {None}] /\ active \subseteq Scope
      /\ IInv
    BY DEF NInv, IInv, TypeOK
<1>1. Settled
    BY <1>0, CancelScopeAssumption
    DEF NInv, GroundedTogether, Grounded, NoOrphans, Orphans, Children, Settled
<1>2. PICK a \in Scope :
         /\ Encloses(parent, a, s) /\ (a \in cancel_called \/ a \notin active)
         /\ \A x \in Scope : Encloses(parent, a, x) /\ Encloses(parent, x, s) /\ x # a
               => x \notin shield
    BY <1>0, <1>1, CancelledIsReached DEF CancellationReaches
<1>3. a \in active
    <2>1. CASE a = s
        BY <2>1
    <2>2. CASE a # s
        <3>1. PICK y \in Scope : parent[y] = a
            BY <1>0, <1>2, <2>2, EnclosesHasChild
        <3> QED
            BY <3>1, CancelScopeAssumption DEF NInv, NoOrphans
    <2> QED
        BY <2>1, <2>2
<1>4. ASSUME NEW o \in Movable, Encloses(parent, o, s), Encloses(parent, a, o)
      PROVE  FALSE
    <2>1. o \in Scope /\ o \in StartScope /\ o \in active /\ o \notin closed
          /\ o \notin cancel_called
        BY <1>0 DEF Movable
    <2>2. \A x \in Scope : Encloses(parent, a, x) /\ Encloses(parent, x, o) /\ x # a
             => x \notin shield
        BY <1>2, <1>4, EnclosesTransitive
    <2>3. CancellationReaches(o)
        BY <1>2, <1>4, <2>2 DEF CancellationReaches
    <2>4. o \in effectively_cancelled
        BY <1>0, <1>1, <2>1, <2>3, ReachedIsCancelled DEF InUse
    <2>5. owner[o] \in Task /\ status[owner[o]] = o /\ pc[owner[o]] \in InAexit
        BY <2>1 DEF NInv, StartBlocks
    <2>6. pc[owner[o]] = "waiting"
        BY <2>1, <2>5 DEF NInv, Blocks, NoWindow, InAexit
    <2>7. o \in parent_waiting_in_aexit
        BY <2>1, <2>5, <2>6 DEF NInv, Blocks
    <2>8. wait[owner[o]] \in {"cancels", "failed"}
        BY <2>7 DEF NInv, Waiting
    <2>9. wait[owner[o]] # "cancels"
        BY <2>4, <2>5 DEF NInv, IInv, NoLostCancel, HasAbortFunc, AbortKind
    <2> QED
        BY <2>1, <2>7, <2>8, <2>9 DEF FailedKept
<1> QED
    BY <1>2, <1>3, <1>4 DEF Held

(***************************************************************************)
(* A held scope is caught.                                                 *)
(***************************************************************************)
LEMMA HeldIsCaught ==
    ASSUME NEW s, Held(s)
    PROVE  \E a \in active \cap cancel_called : Encloses(parent, a, s)
BY DEF Held
(***************************************************************************)
(* Entering a block and leaving one keep what is held.                     *)
(***************************************************************************)
LEMMA EnterHeld ==
    ASSUME NInv, NEW t \in Task, NEW s0 \in Scope, Enter(t, s0), closed \subseteq closed',
           cancel_called \subseteq cancel_called', NEW s, Held(s)
    PROVE  Held(s)'
<1>0. /\ parent \in [Scope -> Scope \cup {None}] /\ active \subseteq Scope
      /\ s \in active /\ s \in Scope
    BY DEF NInv, IInv, TypeOK, Held
<1>1. /\ s0 \notin active /\ status[t] \in Scope /\ status[t] # s0
      /\ \A x \in Scope : parent[x] # s0
      /\ active' = active \cup {s0}
      /\ \A x \in Scope : parent'[x] = IF x = s0 THEN status[t] ELSE parent[x]
    BY EnterFacts
<1>2. /\ \A y \in Scope : y # s0 => parent'[y] = parent[y]
      /\ \A y \in Scope : parent'[y] # s0
      /\ s # s0
    BY <1>0, <1>1
<1>3. parent' \in [Scope -> Scope \cup {None}]
    BY <1>0, <1>1 DEF Enter
<1>4. PICK a \in active \cap cancel_called :
         /\ Encloses(parent, a, s)
         /\ \A o \in Movable : Encloses(parent, o, s) => ~Encloses(parent, a, o)
    BY DEF Held
<1>5. Encloses(parent', a, s)
    BY <1>0, <1>2, <1>4, LeafAside
<1>6. ASSUME NEW o \in Movable', Encloses(parent', o, s), Encloses(parent', a, o)
      PROVE  FALSE
    <2>1. o \in Movable \cup {s0}
        BY <1>1 DEF Movable
    <2>2. o # s0
        BY <1>0, <1>2, <1>3, <1>6, EnclosesHasChild
    <2>3. o \in Scope /\ o \in Movable
        BY <1>0, <2>1, <2>2 DEF Movable
    <2>4. Encloses(parent, o, s)
        BY <1>0, <1>1, <1>2, <1>6, LeafAside
    <2>5. Encloses(parent, a, o)
        BY <1>1, <1>2, <1>6, <2>2, <2>3, LeafAside
    <2> QED
        BY <1>4, <2>3, <2>4, <2>5
<1>7. s \in active' /\ a \in active' \cap cancel_called'
    BY <1>0, <1>1, <1>4
<1> QED
    BY <1>5, <1>6, <1>7 DEF Held

(***************************************************************************)
(* Leaving a block keeps what is held elsewhere.                           *)
(***************************************************************************)
LEMMA CloseHeld ==
    ASSUME NInv, NEW s0 \in Scope, \A x \in Scope : parent[x] # s0,
           \A x \in Scope : parent'[x] = IF x = s0 THEN None ELSE parent[x],
           active' = active \ {s0}, closed \subseteq closed',
           cancel_called \subseteq cancel_called', NEW s \in active', Held(s)
    PROVE  Held(s)'
<1>0. /\ parent \in [Scope -> Scope \cup {None}] /\ active \subseteq Scope
      /\ s \in active /\ s \in Scope /\ s # s0
    BY DEF NInv, IInv, TypeOK, Held
<1>1. /\ \A y \in Scope : y # s0 => parent'[y] = parent[y]
      /\ \A y \in Scope : parent'[y] # s0
    BY <1>0, CancelScopeAssumption
<1>2. PICK a \in active \cap cancel_called :
         /\ Encloses(parent, a, s)
         /\ \A o \in Movable : Encloses(parent, o, s) => ~Encloses(parent, a, o)
    BY DEF Held
<1>3. Encloses(parent', a, s)
    BY <1>0, <1>1, <1>2, LeafAside
<1>4. ASSUME NEW o \in Movable', Encloses(parent', o, s), Encloses(parent', a, o)
      PROVE  FALSE
    <2>1. o \in Movable /\ o \in Scope /\ o # s0
        BY <1>0 DEF Movable
    <2>2. Encloses(parent, o, s)
        BY <1>0, <1>1, <1>4, LeafAside
    <2>3. Encloses(parent, a, o)
        BY <1>1, <1>4, <2>1, LeafAside
    <2> QED
        BY <1>2, <2>1, <2>2, <2>3
<1>5. a # s0
    BY <1>0, <1>2, EnclosesHasChild
<1>6. s \in active' /\ a \in active' \cap cancel_called'
    BY <1>2, <1>5
<1> QED
    BY <1>3, <1>4, <1>6 DEF Held

(***************************************************************************)
(* The target of a start() is not below the nursery of that start().       *)
(***************************************************************************)
LEMMA TargetNotBelow ==
    ASSUME NInv, NEW t, NEW o, NEW n, Moves(t, o, n)
    PROVE  ~Encloses(parent, o, n)
<1> SUFFICES ASSUME Encloses(parent, o, n)
             PROVE  FALSE
    OBVIOUS
<1>0. /\ parent \in [Scope -> Scope \cup {None}] /\ o \in Scope /\ n \in Scope
      /\ new_nursery[o] = n
    BY DEF NInv, IInv, TypeOK, Moves
<1> DEFINE A == {x \in Scope : Encloses(parent, x, n) /\ Encloses(parent, o, x)}
<1>1. A \in SUBSET Scope /\ n \in A
    BY <1>0, EnclosesSelf
<1>2. ASSUME NEW x \in A
      PROVE  parent[x] \in A \/ new_nursery[x] \in A
    <2>1. CASE x = o
        BY <1>0, <1>1, <2>1
    <2>2. CASE x # o
        <3>1. parent[x] \in Scope /\ parent[x] # None /\ Encloses(parent, o, parent[x])
            BY <1>0, <2>2, EnclosesStep
        <3>2. Encloses(parent, parent[x], n)
            BY <3>1, EnclosesSelf, EnclosesTransitive
        <3> QED
            BY <3>1, <3>2
    <2> QED
        BY <2>1, <2>2
<1> HIDE DEF A
<1> QED
    BY <1>1, <1>2 DEF NInv, GroundedTogether

(***************************************************************************)
(* started() keeps what is held: the scope that holds it is not around the *)
(* nursery that is emptied, unless it is still around it afterwards.       *)
(***************************************************************************)
LEMMA MoveHeld ==
    ASSUME NInv, NInv', NEW t, NEW o, NEW n, Moves(t, o, n), o \notin effectively_cancelled,
           cancel_called \subseteq cancel_called', NEW s, Held(s)
    PROVE  Held(s)'
<1>0. /\ parent \in [Scope -> Scope \cup {None}] /\ active \subseteq Scope
      /\ s \in active /\ s \in Scope /\ o \in Scope /\ n \in Scope
      /\ UNCHANGED <<active, closed>>
      /\ \A x \in Scope : parent'[x] = IF parent[x] = o THEN n ELSE parent[x]
    BY DEF NInv, IInv, TypeOK, Held, Moves
<1>1. Relinked(parent, parent', o, n)
    BY <1>0 DEF Relinked
<1>2. Grounded(parent) /\ ~Encloses(parent, o, n)
    BY TargetNotBelow DEF NInv, GroundedTogether, Grounded
<1>3. Movable' \subseteq Movable
    BY <1>0 DEF Movable
<1>4. PICK a \in active \cap cancel_called :
         /\ Encloses(parent, a, s)
         /\ \A q \in Movable : Encloses(parent, q, s) => ~Encloses(parent, a, q)
    BY DEF Held
<1>5. a \in Scope /\ s \in active' /\ a \in active' \cap cancel_called'
    BY <1>0, <1>4
<1>6. CASE ~Encloses(parent, o, s)
    <2>1. Encloses(parent', a, s)
        BY <1>0, <1>1, <1>4, <1>6, OuterSame
    <2>2. ASSUME NEW q \in Movable', Encloses(parent', q, s), Encloses(parent', a, q)
          PROVE  FALSE
        <3>0. q \in Movable /\ q \in Scope
            BY <1>0, <1>3 DEF Movable
        <3>1. Encloses(parent, q, s)
            BY <1>0, <1>1, <1>6, <2>2, OuterSame
        <3>2. ~Encloses(parent, o, q)
            BY <1>0, <1>1, <1>6, <3>0, <3>1, OuterSame
        <3>3. Encloses(parent, a, q)
            BY <1>0, <1>1, <2>2, <3>0, <3>2, OuterSame
        <3> QED
            BY <1>4, <3>0, <3>1, <3>3
    <2> QED
        BY <1>5, <2>1, <2>2 DEF Held
<1>7. CASE o \notin Movable
    <2>1. o \notin cancel_called
        BY DEF NInv, IInv, Consistent, NewState, Moves
    <2>2. o \in closed
        BY <1>7, <2>1 DEF Movable, Moves
    <2>3. ASSUME NEW x \in Scope, parent[x] = o
          PROVE  FALSE
        <3>1. owner[x] \in Task /\ parent_nursery[owner[x]] = o
            BY <2>3, BelowOld
        <3> QED
            BY <1>0, <2>2, <3>1, CancelScopeAssumption DEF NInv, Membership, Alive
    <2>4. parent' = parent
        <3>1. \A x \in Scope : parent'[x] = parent[x]
            BY <1>0, <2>3
        <3>2. parent' \in [Scope -> Scope \cup {None}]
            BY DEF NInv, IInv, TypeOK
        <3> QED
            BY <1>0, <3>1, <3>2
    <2> QED
        BY <1>3, <1>4, <1>5, <2>4 DEF Held
<1>8. CASE o \in Movable /\ Encloses(parent, o, s)
    <2>1. ~Encloses(parent, a, o)
        BY <1>4, <1>8
    <2>2. Encloses(parent', a, s)
        BY <1>0, <1>1, <1>4, <2>1, InnerStays
    <2>3. Encloses(parent, o, a) /\ a # o
        BY <1>0, <1>4, <1>5, <1>8, <2>1, EnclosesChain, EnclosesSelf
    <2>4. ASSUME NEW q \in Movable', Encloses(parent', q, s), Encloses(parent', a, q)
          PROVE  FALSE
        <3>0. q \in Movable /\ q \in Scope
            BY <1>0, <1>3 DEF Movable
        <3>1. q # o /\ Encloses(parent, o, q) /\ Encloses(parent, a, q)
            BY <1>1, <1>2, <1>5, <2>3, <2>4, <3>0, InnerSame
        <3>2. Encloses(parent, q, s)
            BY <1>0, <1>1, <1>2, <2>4, <3>0, <3>1, InnerSame
        <3> QED
            BY <1>4, <3>0, <3>1, <3>2
    <2> QED
        BY <1>5, <2>2, <2>4 DEF Held
<1> QED
    BY <1>6, <1>7, <1>8
(***************************************************************************)
(* recalculate() uncancels no scope.                                       *)
(***************************************************************************)
LEMMA RecalculateCalls ==
    ASSUME NEW c, NEW sh, NEW p, NEW e, NEW st, NEW R, Recalculate(c, sh, p, e, st, R)
    PROVE  c \subseteq cancel_called'
<1>1. PICK c2, T : c \subseteq c2 /\ Deliver(c2, st, T)
    BY DEF Recalculate
<1> QED
    BY <1>1 DEF Deliver

(***************************************************************************)
(* No step takes back a cancel() or reopens a nursery.                     *)
(***************************************************************************)
LEMMA CallsGrow ==
    ASSUME NInv, [NurseryNext]_allVars
    PROVE  cancel_called \subseteq cancel_called' /\ closed \subseteq closed'
<1>1. CASE UNCHANGED allVars
    BY <1>1 DEF allVars, vars, scopeVars, nurseryVars
<1>2. CASE Time
    <2>1. closed' = closed
        BY <1>2 DEF Time
    <2>2. CASE Expire
        BY <2>1, <2>2, RecalculateCalls DEF Expire
    <2> QED
        BY <1>2, <2>1, <2>2 DEF Time, MoveDeadline
<1>3. ASSUME NEW t \in Task, CodeStep(t)
      PROVE  cancel_called \subseteq cancel_called' /\ closed \subseteq closed'
    <2>0. closed' = closed /\ Code(t)
        BY <1>3 DEF CodeStep
    <2>1. CASE \E s \in PlainScope : Exit(t, s)
        <3>1. PICK s \in PlainScope : Exit(t, s)
            BY <2>1
        <3>2. /\ s \in active \ {Root} /\ status[t] = s /\ owner[s] = t
              /\ \A u \in Task : parent_nursery[u] # s
              /\ CloseScope(t, s, InFlight(t), [status EXCEPT ![t] = parent[s]])
            BY <2>0, <3>1, ExitOwned
        <3> QED
            BY <2>0, <3>2, CloseFacts
    <2>2. CASE \E s \in PlainScope : Enter(t, s)
        BY <2>0, <2>2 DEF Enter
    <2>3. CASE \E s \in Cancellable : Cancel(s)
        BY <2>0, <2>3, RecalculateCalls DEF Cancel
    <2>4. CASE \E s \in Shielding : SetShield(s)
        BY <2>0, <2>4, RecalculateCalls DEF SetShield
    <2>5. CASE \/ UserCode(t) \/ CancelShieldedCheckpoint(t)
               \/ \E k \in Blocking : WaitTaskRescheduled(t, k)
        BY <2>0, <2>5 DEF UserCode, CancelShieldedCheckpoint, WaitTaskRescheduled, scopeVars
    <2> QED
        BY <1>3, <2>1, <2>2, <2>3, <2>4, <2>5 DEF CodeStep
<1>4. ASSUME NEW n, NEW exc, CancelFor(n, exc)
      PROVE  cancel_called \subseteq cancel_called' /\ (exc # {} => n \in cancel_called')
    BY <1>4, RecalculateCalls DEF CancelFor
<1>5. ASSUME NEW t \in Task, TaskNext(t), ~CodeStep(t)
      PROVE  cancel_called \subseteq cancel_called' /\ closed \subseteq closed'
    <2>1. CASE TaskExited(t)
        BY <1>4, <2>1 DEF TaskExited
    <2>2. CASE \E n \in NurseryScope : NestedChildFinished(t, n)
        BY <1>4, <2>2 DEF NestedChildFinished
    <2>3. CASE AexitClose(t)
        <3>1. /\ status[t] \in active \ {Root} /\ owner[status[t]] = t
              /\ \A u \in Task : parent_nursery[u] # status[t]
            BY <2>3, AexitOwned
        <3>2. CloseScope(t, status[t], pending_excs[status[t]],
                         [status EXCEPT ![t] = parent[status[t]]]) /\ closed' = closed
            BY <2>3 DEF AexitClose
        <3> QED
            BY <3>1, <3>2, CloseFacts
    <2>4. CASE \E o \in StartScope : Started(t, o)
        BY <2>4 DEF Started, Move, Deliver
    <2>5. CASE \/ \E n \in NurseryScope : OpenNursery(t, n)
               \/ \E n \in NurseryScope, o \in StartScope : Start(t, n, o)
        BY <2>5 DEF OpenNursery, Start, Enter
    <2>6. CASE \/ Wake(t) \/ ResumeCode(t) \/ AexitWait(t) \/ AexitCheckpoint(t)
               \/ ResumeInAexit(t) \/ ResumeCancelled(t)
        BY <2>6 DEF Wake, Reschedule, ResumeCode, Resume, AexitWait, WaitTaskRescheduled,
            AexitCheckpoint, CancelShieldedCheckpoint, ResumeInAexit, ResumeCancelled,
            scopeVars, nurseryVars
    <2>7. CASE \/ ChildFinished(t) \/ \E u \in Task : StartSpawn(t, u)
               \/ \E n \in NurseryScope : StartRefused(t, n)
               \/ \E n \in NurseryScope, u \in Task : StartSoon(t, u, n)
               \/ \E o \in StartScope :
                     StartReturns(t, o) \/ StartedPoke(t, o) \/ StartedAgain(t, o)
        BY <2>7 DEF ChildFinished, StartSpawn, Spawn, StartRefused, StartSoon, StartReturns,
            StartedPoke, StartedAgain, CheckNurseryClosed, scopeVars, nurseryVars
    <2> QED
        BY <1>5, <2>1, <2>2, <2>3, <2>4, <2>5, <2>6, <2>7 DEF TaskNext
<1> QED
    BY <1>1, <1>2, <1>3, <1>5 DEF NurseryNext, Finished

(***************************************************************************)
(* Every step keeps what is held and not closed.                           *)
(***************************************************************************)
LEMMA HeldNext ==
    ASSUME NInv, NInv', [NurseryNext]_allVars
    PROVE  \A s \in active' : Held(s) => Held(s)'
<1> SUFFICES ASSUME NEW s \in active', Held(s)
             PROVE  Held(s)'
    OBVIOUS
<1>0. cancel_called \subseteq cancel_called' /\ closed \subseteq closed'
    BY CallsGrow
<1>1. CASE UNCHANGED <<active, parent>>
    <2>1. Movable' \subseteq Movable
        BY <1>0, <1>1 DEF Movable
    <2>2. PICK a \in active \cap cancel_called :
             /\ Encloses(parent, a, s)
             /\ \A o \in Movable : Encloses(parent, o, s) => ~Encloses(parent, a, o)
        BY DEF Held
    <2>3. a \in active' \cap cancel_called'
        BY <1>0, <1>1, <2>2
    <2> QED
        BY <1>1, <2>1, <2>2, <2>3 DEF Held
<1>2. ASSUME NEW t \in Task, NEW s0 \in Scope, Enter(t, s0)
      PROVE  Held(s)'
    BY <1>0, <1>2, EnterHeld
<1>3. ASSUME NEW t \in Task, NEW s0 \in active \ {Root}, status[t] = s0, owner[s0] = t,
             \A u \in Task : parent_nursery[u] # s0, NEW exc,
             CloseScope(t, s0, exc, [status EXCEPT ![t] = parent[s0]])
      PROVE  Held(s)'
    <2>1. /\ s0 \in Scope /\ \A x \in Scope : parent[x] # s0
          /\ \A x \in Scope : parent'[x] = IF x = s0 THEN None ELSE parent[x]
          /\ active' = active \ {s0}
        BY <1>3, CloseFacts
    <2> QED
        BY <1>0, <2>1, CloseHeld
<1>4. ASSUME NEW t \in Task, NEW o \in StartScope, Started(t, o)
      PROVE  Held(s)'
    <2>1. CASE MayMove(o)
        BY <1>0, <1>4, <2>1, StartedFacts, MoveHeld DEF MayMove
    <2>2. CASE ~MayMove(o)
        BY <1>1, <1>4, <2>2 DEF Started
    <2> QED
        BY <2>1, <2>2
<1>5. ASSUME NEW t \in Task, CodeStep(t)
      PROVE  Held(s)'
    <2>0. Code(t)
        BY <1>5 DEF CodeStep
    <2>1. CASE \E s0 \in PlainScope : Exit(t, s0)
        <3>1. PICK s0 \in PlainScope : Exit(t, s0)
            BY <2>1
        <3>2. /\ s0 \in active \ {Root} /\ status[t] = s0 /\ owner[s0] = t
              /\ \A u \in Task : parent_nursery[u] # s0
              /\ CloseScope(t, s0, InFlight(t), [status EXCEPT ![t] = parent[s0]])
            BY <2>0, <3>1, ExitOwned
        <3> QED
            BY <1>3, <3>2
    <2>2. CASE \E s0 \in PlainScope : Enter(t, s0)
        BY <1>2, <2>2 DEF PlainScope
    <2>3. CASE \/ UserCode(t) \/ CancelShieldedCheckpoint(t)
               \/ \E k \in Blocking : WaitTaskRescheduled(t, k)
               \/ \E s0 \in Cancellable : Cancel(s0)
               \/ \E s0 \in Shielding : SetShield(s0)
        BY <1>1, <2>3 DEF UserCode, CancelShieldedCheckpoint, WaitTaskRescheduled, Cancel,
            SetShield, scopeVars
    <2> QED
        BY <1>5, <2>1, <2>2, <2>3 DEF CodeStep
<1>6. ASSUME NEW t \in Task, TaskNext(t), ~CodeStep(t)
      PROVE  Held(s)'
    <2>1. CASE AexitClose(t)
        <3>1. /\ status[t] \in active \ {Root} /\ owner[status[t]] = t
              /\ \A u \in Task : parent_nursery[u] # status[t]
            BY <2>1, AexitOwned
        <3>2. CloseScope(t, status[t], pending_excs[status[t]],
                         [status EXCEPT ![t] = parent[status[t]]])
            BY <2>1 DEF AexitClose
        <3> QED
            BY <1>3, <3>1, <3>2
    <2>2. CASE \/ \E n \in NurseryScope : OpenNursery(t, n)
               \/ \E n \in NurseryScope, o \in StartScope : Start(t, n, o)
        BY <1>2, <2>2, NurseryAssumption DEF OpenNursery, Start
    <2>3. CASE \E o \in StartScope : Started(t, o)
        BY <1>4, <2>3
    <2>4. CASE \/ Wake(t) \/ ResumeCode(t) \/ AexitWait(t) \/ AexitCheckpoint(t)
               \/ ResumeInAexit(t) \/ ResumeCancelled(t) \/ TaskExited(t)
               \/ \E n \in NurseryScope : NestedChildFinished(t, n)
        BY <1>1, <2>4 DEF Wake, Reschedule, ResumeCode, Resume, AexitWait,
            WaitTaskRescheduled, AexitCheckpoint, CancelShieldedCheckpoint, ResumeInAexit,
            ResumeCancelled, TaskExited, NestedChildFinished, scopeVars
    <2>5. CASE \/ ChildFinished(t) \/ \E u \in Task : StartSpawn(t, u)
               \/ \E n \in NurseryScope : StartRefused(t, n)
               \/ \E n \in NurseryScope, u \in Task : StartSoon(t, u, n)
               \/ \E o \in StartScope :
                     StartReturns(t, o) \/ StartedPoke(t, o) \/ StartedAgain(t, o)
        BY <1>1, <2>5 DEF ChildFinished, StartSpawn, Spawn, StartRefused, StartSoon,
            StartReturns, StartedPoke, StartedAgain, scopeVars
    <2> QED
        BY <1>6, <2>1, <2>2, <2>3, <2>4, <2>5 DEF TaskNext
<1>7. CASE Time \/ UNCHANGED allVars
    BY <1>1, <1>7 DEF Time, MoveDeadline, Expire, allVars, vars, scopeVars
<1> QED
    BY <1>5, <1>6, <1>7 DEF NurseryNext, Finished
(***************************************************************************)
(* What a step may do to each part of Kept: a Cancelled appears below a    *)
(* scope that is already held, or in a status that is cancelled.           *)
(***************************************************************************)

Carried(z) == Held(z) \/ (z \in effectively_cancelled' /\ NoWindow')

SendStep ==
    \A u \in Task : OnItsWay(u)' =>
        \/ status'[u] \in effectively_cancelled' /\ NoWindow'
        \/ OnItsWay(u) /\ status'[u] = status[u]

RaiseStep ==
    /\ \A x \in Scope \cup Task : "Cancelled" \in raised'[x] =>
          \/ "Cancelled" \in raised[x]
          \/ \E t \in Task : /\ x = Block(status', owner', t)
                             /\ Carried(status'[t])
                             /\ pc'[t] \notin Outside
    /\ \A u \in Task : "Cancelled" \in raised[u] /\ "Cancelled" \in raised'[u] =>
          pc'[u] \notin Outside /\ parent_nursery'[u] = parent_nursery[u]
    /\ \A s \in active \ active' : "Cancelled" \notin raised'[s]

PendStep ==
    /\ \A s \in Scope : "Cancelled" \in pending_excs'[s] =>
          \/ "Cancelled" \in pending_excs[s]
          \/ s \in active' \cap cancel_called'
          \/ s \in Aborted /\ owner'[s] = owner[s]
    /\ \A s \in active \ active' : "Cancelled" \notin pending_excs'[s]

FailStep ==
    \A n \in parent_waiting_in_aexit' : wait'[owner'[n]] = "failed" =>
        \/ n \in cancel_called'
        \/ /\ n \in parent_waiting_in_aexit /\ owner'[n] = owner[n]
           /\ wait[owner[n]] = "failed"

KeptSteps == SendStep /\ RaiseStep /\ PendStep /\ FailStep

(***************************************************************************)
(* Steps that do no more than that keep every Cancelled in a held scope.   *)
(***************************************************************************)
LEMMA KeptStep ==
    ASSUME NInv, NInv', Kept, [NurseryNext]_allVars, KeptSteps
    PROVE  SendKept' /\ RaisedKept' /\ PendingKept' /\ FailedKept'
<1>0. /\ status' \in [Task -> Scope] /\ owner' \in [Scope -> Task \cup {None}]
      /\ Scope \cap Task = {} /\ None \notin Scope
    BY CancelScopeAssumption DEF NInv, IInv, TypeOK
<1>1. cancel_called \subseteq cancel_called' /\ \A s \in active' : Held(s) => Held(s)'
    BY CallsGrow, HeldNext
<1>2. FailedKept'
    BY <1>1 DEF Kept, FailedKept, KeptSteps, FailStep
<1>3. (NInv /\ FailedKept /\ NoWindow =>
          \A s \in active : s \in effectively_cancelled => Held(s))'
    BY HeldCancelled, PTL
<1>4. \A z \in active' : Carried(z) => Held(z)'
    BY <1>1, <1>2, <1>3 DEF Carried
<1>5. SendKept'
    <2> SUFFICES ASSUME NEW u \in Task, OnItsWay(u)'
                 PROVE  Held(status[u])'
        BY DEF SendKept
    <2>1. status'[u] \in active'
        BY DEF NInv, NoOrphans
    <2>2. Carried(status'[u])
        BY DEF Kept, SendKept, KeptSteps, SendStep, Carried
    <2> QED
        BY <1>4, <2>1, <2>2
<1>6. ASSUME NEW t \in Task, Carried(status'[t]), pc'[t] \notin Outside
      PROVE  /\ Block(status', owner', t) = t => Held(parent_nursery[t])'
             /\ Block(status', owner', t) # t =>
                   /\ Block(status', owner', t) \in Scope
                   /\ \A s : s = Block(status', owner', t) => Held(s)'
    <2>1. status'[t] \in active' /\ Held(status[t])'
        BY <1>4, <1>6 DEF NInv, NoOrphans
    <2>2. CASE owner'[status'[t]] = t
        BY <1>0, <2>1, <2>2 DEF Block
    <2>3. CASE owner'[status'[t]] # t
        <3>1. status'[t] = parent_nursery'[t]
            BY <1>6, <2>3 DEF NInv, Stacks
        <3> QED
            BY <1>0, <2>1, <2>3, <3>1 DEF Block
    <2> QED
        BY <2>2, <2>3
<1>7. ASSUME NEW u \in Task, "Cancelled" \in raised'[u]
      PROVE  pc'[u] \notin Outside /\ Held(parent_nursery[u])'
    <2>1. CASE "Cancelled" \in raised[u]
        <3>1. /\ pc'[u] \notin Outside /\ parent_nursery'[u] = parent_nursery[u]
              /\ Held(parent_nursery[u])
            BY <1>7, <2>1 DEF Kept, RaisedKept, KeptSteps, RaiseStep
        <3>2. parent_nursery'[u] \in active'
            BY <3>1 DEF NInv, Lives, Membership, Outside
        <3> QED
            BY <1>1, <3>1, <3>2
    <2>2. CASE "Cancelled" \notin raised[u]
        <3>1. PICK t \in Task : /\ u = Block(status', owner', t)
                                /\ Carried(status'[t]) /\ pc'[t] \notin Outside
            BY <1>7, <2>2 DEF KeptSteps, RaiseStep
        <3>2. u = t
            BY <1>0, <1>6, <3>1
        <3> QED
            BY <1>6, <3>1, <3>2
    <2> QED
        BY <2>1, <2>2
<1>8. ASSUME NEW s \in Scope, "Cancelled" \in raised'[s]
      PROVE  Held(s)'
    <2>1. CASE "Cancelled" \in raised[s]
        <3>1. Held(s) /\ s \in active
            BY <2>1 DEF Kept, RaisedKept, Held
        <3>2. s \in active'
            BY <1>8, <3>1 DEF KeptSteps, RaiseStep
        <3> QED
            BY <1>1, <3>1, <3>2
    <2>2. CASE "Cancelled" \notin raised[s]
        <3>1. PICK t \in Task : /\ s = Block(status', owner', t)
                                /\ Carried(status'[t]) /\ pc'[t] \notin Outside
            BY <1>8, <2>2 DEF KeptSteps, RaiseStep
        <3>2. s # t
            BY <1>0
        <3> QED
            BY <1>6, <3>1, <3>2
    <2> QED
        BY <2>1, <2>2
<1>9. ASSUME NEW s \in Scope, "Cancelled" \in pending_excs'[s]
      PROVE  s \in active' \cap cancel_called'
    <2>1. CASE "Cancelled" \in pending_excs[s]
        BY <1>1, <1>9, <2>1 DEF Kept, PendingKept, KeptSteps, PendStep
    <2>2. CASE s \in Aborted /\ owner'[s] = owner[s]
        <3>1. s \in active'
            BY <2>2, AbortedNursery
        <3>2. s \in parent_waiting_in_aexit' /\ wait'[owner'[s]] = "failed"
            BY <2>2 DEF Aborted
        <3> QED
            BY <1>2, <3>1, <3>2 DEF FailedKept
    <2> QED
        BY <1>9, <2>1, <2>2 DEF KeptSteps, PendStep
<1>10. RaisedKept'
    BY <1>7, <1>8 DEF RaisedKept
<1>11. PendingKept'
    BY <1>9 DEF PendingKept
<1> QED
    BY <1>2, <1>5, <1>10, <1>11

(***************************************************************************)
(* A window is open only while the task in it runs.                        *)
(***************************************************************************)
LEMMA WindowShut ==
    ASSUME NInv',
           \A t \in Task : t = current' =>
               pc'[t] \notin {"spawn", "aexit"} \/ status'[t] \notin StartScope
    PROVE  NoWindow'
<1>1. \A o \in StartScope \cap active' :
         owner'[o] \in Task /\ status'[owner'[o]] = o
    BY DEF NInv, StartBlocks
<1>2. \A t \in Task : pc'[t] \in {"spawn", "aexit"} => t = current'
    BY DEF NInv, Lives, Busy
<1> QED
    BY <1>1, <1>2 DEF NoWindow

(***************************************************************************)
(* Delivery sends Cancelled to tasks in a cancelled status.                *)
(***************************************************************************)
LEMMA DeliverSend ==
    ASSUME NInv, NoWindow', NEW c, NEW st, NEW T \in SUBSET Task, Deliver(c, st, T),
           \A u \in T : u # current => status'[u] \in effectively_cancelled',
           \A u \in Task : u # current => pc'[u] = pc[u],
           \A u \in Task : u # current =>
               \/ status'[u] = status[u]
               \/ status'[u] \in effectively_cancelled' \/ ~OnItsWay(u)
    PROVE  SendStep
<1>0. TypeOK /\ OneStateAtATime
    BY DEF NInv, IInv
<1>1. /\ \A u \in Task \ T : wait'[u] = wait[u] /\ next_send'[u] = next_send[u]
      /\ \A u \in Task : wait[u] = "none" =>
            wait'[u] = "none" /\ next_send'[u] = next_send[u]
    BY DEF Deliver, AfterAbort
<1>2. \A u \in Task : u = current => wait[u] = "none" /\ next_send[u] = "none"
    BY <1>0 DEF OneStateAtATime
<1>3. \A u \in Task : u = current => ~OnItsWay(u)'
    BY <1>1, <1>2 DEF OnItsWay
<1>4. \A u \in Task \ T : u # current /\ OnItsWay(u)' => OnItsWay(u)
    BY <1>1 DEF OnItsWay
<1> QED
    BY <1>3, <1>4 DEF SendStep

(***************************************************************************)
(* The abort function of a nursery whose __aexit__ it interrupts cancels   *)
(* that nursery.                                                           *)
(***************************************************************************)
LEMMA DeliverFail ==
    ASSUME NInv, NInv', NEW c, NEW st, NEW T \in SUBSET Task, Deliver(c, st, T),
           UNCHANGED <<parent_waiting_in_aexit, owner>>,
           \A u \in Task : u # current => st[u] = status'[u]
    PROVE  FailStep
<1> SUFFICES ASSUME NEW n \in parent_waiting_in_aexit', wait'[owner'[n]] = "failed",
                    wait[owner[n]] # "failed"
             PROVE  n \in cancel_called'
    BY DEF FailStep
<1> DEFINE u == owner[n]
<1>1. u \in Task /\ wait[u] = "cancels" /\ status'[u] = n
    BY DEF NInv, Waiting
<1>2. u # current
    BY <1>1 DEF NInv, IInv, OneStateAtATime
<1>3. u \in T
    BY <1>1 DEF Deliver
<1>4. st[u] \in cancel_called'
    BY <1>1, <1>3 DEF Deliver
<1> QED
    BY <1>1, <1>2, <1>4

(***************************************************************************)
(* A step that interrupts no __aexit__.                                    *)
(***************************************************************************)
LEMMA FailFrame ==
    ASSUME NInv, parent_waiting_in_aexit' \subseteq parent_waiting_in_aexit,
           \A n \in parent_waiting_in_aexit : owner'[n] = owner[n],
           \A u \in Task : wait'[u] = "failed" => wait[u] = "failed" \/ u = current
    PROVE  FailStep
<1>1. \A n \in parent_waiting_in_aexit : owner[n] \in Task /\ owner[n] # current
    BY DEF NInv, IInv, Waiting, OneStateAtATime
<1> QED
    BY <1>1 DEF FailStep

(***************************************************************************)
(* A step that sends no Cancelled.                                         *)
(***************************************************************************)
LEMMA SendFrame ==
    ASSUME NInv,
           \A u \in Task : \/ wait'[u] # "failed" /\ next_send'[u] # "Cancelled"
                           \/ wait'[u] = wait[u] /\ next_send'[u] = next_send[u]
                              /\ (u # current => status'[u] = status[u] /\ pc'[u] = pc[u])
    PROVE  SendStep
<1>1. \A u \in Task : u = current => wait[u] = "none" /\ next_send[u] = "none"
    BY DEF NInv, IInv, OneStateAtATime
<1> QED
    BY <1>1 DEF SendStep, OnItsWay

(***************************************************************************)
(* A step that raises no Cancelled and closes no scope.                    *)
(***************************************************************************)
LEMMA RaiseFrame ==
    ASSUME Kept, active \subseteq active',
           \A x \in Scope \cup Task : "Cancelled" \in raised'[x] => "Cancelled" \in raised[x],
           \A u \in Task : "Cancelled" \in raised[u] /\ "Cancelled" \in raised'[u] =>
               /\ pc'[u] \notin Outside \/ pc'[u] = pc[u]
               /\ parent_nursery'[u] = parent_nursery[u]
    PROVE  RaiseStep
BY DEF RaiseStep, Kept, RaisedKept

(***************************************************************************)
(* A step that gives nurseries nothing but aborted waits.                  *)
(***************************************************************************)
LEMMA PendFrame ==
    ASSUME active \subseteq active',
           \/ UNCHANGED pending_excs
           \/ PendingExcs(pending_excs) /\ \A s \in Aborted : owner'[s] = owner[s]
    PROVE  PendStep
BY PendingExcsAt DEF PendStep
(***************************************************************************)
(* What holds a scope from outside holds its parent.                       *)
(***************************************************************************)
LEMMA HeldFromOutside ==
    ASSUME NInv, NEW s \in active, Held(s), s \notin cancel_called
    PROVE  Held(parent[s])
<1>0. /\ s \in Scope /\ parent \in [Scope -> Scope \cup {None}] /\ active \subseteq Scope
    BY DEF NInv, IInv, TypeOK
<1>1. PICK a \in active \cap cancel_called :
         /\ Encloses(parent, a, s)
         /\ \A o \in Movable : Encloses(parent, o, s) => ~Encloses(parent, a, o)
    BY DEF Held
<1>2. /\ a \in Scope /\ a # s
      /\ parent[s] \in Scope /\ parent[s] # None /\ Encloses(parent, a, parent[s])
    BY <1>0, <1>1, EnclosesStep
<1>3. parent[s] \in active /\ Encloses(parent, parent[s], s)
    BY <1>0, <1>2, EnclosesSelf DEF NInv, NoOrphans
<1>4. \A o \in Movable : Encloses(parent, o, parent[s]) => ~Encloses(parent, a, o)
    BY <1>1, <1>3, EnclosesTransitive
<1> QED
    BY <1>1, <1>2, <1>3, <1>4 DEF Held

(***************************************************************************)
(* Closing a scope: a Cancelled that goes on does so because the parent's  *)
(* cancellation is visible, or because this scope was not cancelled.       *)
(***************************************************************************)
LEMMA CloseKept ==
    ASSUME NInv, NInv', Kept, NEW t \in Task, NEW s \in active \ {Root}, status[t] = s,
           owner[s] = t, \A u \in Task : parent_nursery[u] # s, NEW exc,
           CloseScope(t, s, exc, [status EXCEPT ![t] = parent[s]]),
           "Cancelled" \in exc => Held(s) \/ s \in cancel_called, current = t,
           UNCHANGED <<parent_nursery, parent_waiting_in_aexit>>,
           pc'[t] \notin Outside, pc'[t] \notin {"spawn", "aexit"},
           \A u \in Task \ {t} : pc'[u] = pc[u]
    PROVE  SendStep /\ RaiseStep /\ FailStep
<1> DEFINE st == [status EXCEPT ![t] = parent[s]]
<1>0. /\ raised \in [Scope \cup Task -> Exception] /\ status \in [Task -> Scope]
      /\ s \in Scope /\ Scope \cap Task = {} /\ None \notin Scope
    BY CancelScopeAssumption DEF NInv, IInv, TypeOK
<1>1. /\ parent[s] \in active /\ parent[s] # s /\ parent[s] \in Scope
      /\ \A u \in Task : status'[u] = IF u = t THEN parent[s] ELSE status[u]
      /\ active' = active \ {s}
      /\ UNCHANGED <<owner, current, wait, next_send, effectively_cancelled>>
    <2>1. active \subseteq Scope
        BY DEF NInv, IInv, TypeOK
    <2>2. /\ parent[s] \in active /\ parent[s] # s
          /\ \A u \in Task : status'[u] = IF u = t THEN parent[s] ELSE status[u]
          /\ active' = active \ {s}
          /\ UNCHANGED <<owner, current, wait, next_send, effectively_cancelled>>
        BY CloseFacts
    <2> QED
        BY <2>1, <2>2
<1>2. SendStep /\ FailStep
    <2>1. ASSUME NEW u \in Task
          PROVE  /\ wait'[u] = wait[u] /\ next_send'[u] = next_send[u]
                 /\ (u # current => status'[u] = status[u] /\ pc'[u] = pc[u])
        BY <1>1, <2>1
    <2> QED
        BY <1>1, <2>1, SendFrame, FailFrame
<1> DEFINE b == Block(st, owner, t)
<1>3. /\ Block(status, owner, t) = s /\ b = Block(status', owner', t)
      /\ b \in Scope \cup Task /\ b # s
    BY <1>0, <1>1 DEF Block, CloseScope
<1>4. raised' = [raised EXCEPT ![s] = {},
                               ![b] = IF Remaining(s, exc) = {} THEN @
                                      ELSE Remaining(s, exc)]
    BY <1>3 DEF CloseScope
<1> HIDE DEF b, st
<1>5. /\ raised'[s] = {}
      /\ raised'[b] = IF Remaining(s, exc) = {} THEN raised[b] ELSE Remaining(s, exc)
      /\ \A x \in Scope \cup Task : x # s /\ x # b => raised'[x] = raised[x]
    BY <1>0, <1>3, <1>4
<1>6. "Cancelled" \in Remaining(s, exc) => Carried(parent[s])
    <2> SUFFICES ASSUME "Cancelled" \in Remaining(s, exc)
                 PROVE  Carried(parent[s])
        OBVIOUS
    <2>1. NoWindow'
        BY <1>1, WindowShut
    <2>2. CASE s \in effectively_cancelled
        <3>1. parent[s] \in effectively_cancelled
            BY <2>2 DEF Remaining, ParentCancellationIsVisible
        <3> QED
            BY <1>1, <2>1, <3>1 DEF Carried
    <2>3. CASE s \notin effectively_cancelled
        <3>1. s \notin cancel_called
            BY <2>3 DEF NInv, IInv, Consistent, NewState
        <3>2. "Cancelled" \in exc
            BY DEF Remaining
        <3> QED
            BY <3>1, <3>2, HeldFromOutside DEF Carried
    <2> QED
        BY <2>2, <2>3
<1>7. ASSUME NEW x \in Scope \cup Task, "Cancelled" \in raised'[x],
             "Cancelled" \notin raised[x]
      PROVE  \E u \in Task : /\ x = Block(status', owner', u)
                             /\ Carried(status'[u])
                             /\ pc'[u] \notin Outside
    <2>1. x = b /\ "Cancelled" \in Remaining(s, exc)
        BY <1>5, <1>7
    <2>2. Carried(status'[t])
        BY <1>1, <1>6, <2>1
    <2> QED
        BY <1>3, <2>1, <2>2
<1>8. \A u \in Task : "Cancelled" \in raised[u] =>
          pc'[u] \notin Outside /\ parent_nursery'[u] = parent_nursery[u]
    BY DEF Kept, RaisedKept
<1>9. \A x \in active \ active' : "Cancelled" \notin raised'[x]
    BY <1>1, <1>5
<1>10. RaiseStep
    BY <1>7, <1>8, <1>9 DEF RaiseStep
<1> QED
    BY <1>2, <1>10

(***************************************************************************)
(* recalculate() delivers to tasks whose status it has just cancelled.     *)
(***************************************************************************)
LEMMA RecalculateSend ==
    ASSUME NInv, NInv', NoWindow', NEW c, NEW sh, NEW R,
           Recalculate(c, sh, parent, effectively_cancelled, status, R),
           UNCHANGED <<parent_waiting_in_aexit, owner>>,
           \A u \in Task : u # current => status'[u] = status[u] /\ pc'[u] = pc[u]
    PROVE  SendStep /\ FailStep
<1> DEFINE e  == effectively_cancelled
           ch == Changed(c \cup LateScopes, sh, parent, e, R)
           c2 == c \cup (Visited(parent, R, ch) \cap LateScopes)
           T  == {u \in Task : status[u] \in ch \ e}
<1>1. e' = (e \ ch) \cup (ch \ e) /\ Deliver(c2, status, T)
    BY DEF Recalculate
<1>2. \A u \in T : status[u] \in e'
    BY <1>1
<1>3. T \in SUBSET Task
    OBVIOUS
<1> HIDE DEF ch, T, c2
<1>4. \A u \in T : u # current => status'[u] \in effectively_cancelled'
    BY <1>2, <1>3
<1>5. SendStep
    BY <1>1, <1>3, <1>4, DeliverSend
<1>6. FailStep
    BY <1>1, <1>3, DeliverFail
<1> QED
    BY <1>5, <1>6

(***************************************************************************)
(* The steps of the program's own code keep every Cancelled in a held      *)
(* scope.                                                                  *)
(***************************************************************************)
LEMMA CodeKept ==
    ASSUME NInv, NInv', Kept, NEW t \in Task, CodeStep(t)
    PROVE  KeptSteps
<1>0. TypeOK /\ raised \in [Scope \cup Task -> Exception] /\ OneStateAtATime
    BY DEF NInv, IInv, TypeOK
<1>1. /\ current = t /\ pc[t] = "code" /\ PendingExcs(pending_excs)
      /\ UNCHANGED <<pc, parent_nursery, parent_waiting_in_aexit>>
    BY DEF CodeStep, Code
<1>2. ASSUME UNCHANGED <<raised, active, owner>>, SendStep, FailStep
      PROVE  KeptSteps
    BY <1>1, <1>2, RaiseFrame, PendFrame DEF KeptSteps
<1>3. ASSUME current' \in {t, None}
      PROVE  NoWindow'
    BY <1>1, <1>3, WindowShut, CancelScopeAssumption
<1>4. CASE UserCode(t)
    <2>1. UNCHANGED <<active, owner, status, wait, next_send, current>>
        BY <1>4 DEF UserCode, scopeVars
    <2>2. \A x \in Scope \cup Task : "Cancelled" \in raised'[x] => "Cancelled" \in raised[x]
        BY <1>0, <1>4 DEF UserCode
    <2>3. SendStep /\ FailStep
        BY <1>1, <2>1, SendFrame, FailFrame
    <2> QED
        BY <1>1, <2>1, <2>2, <2>3, RaiseFrame, PendFrame DEF KeptSteps
<1>5. CASE CancelShieldedCheckpoint(t)
    <2>1. /\ UNCHANGED <<active, owner, status, raised, wait>>
          /\ \A u \in Task : next_send'[u] = IF u = t THEN "Value" ELSE next_send[u]
        BY <1>0, <1>5 DEF CancelShieldedCheckpoint, scopeVars, TypeOK
    <2>2. wait[t] = "none"
        BY <1>0, <1>1 DEF OneStateAtATime
    <2> QED
        BY <1>1, <1>2, <2>1, <2>2, SendFrame, FailFrame
<1>6. ASSUME NEW k \in Blocking, WaitTaskRescheduled(t, k)
      PROVE  KeptSteps
    <2>1. /\ UNCHANGED <<active, owner, status, raised, effectively_cancelled>>
          /\ \A u \in Task \ {t} : wait'[u] = wait[u] /\ next_send'[u] = next_send[u]
          /\ status[t] \notin effectively_cancelled =>
                wait'[t] = k /\ next_send'[t] = next_send[t]
        BY <1>0, <1>6 DEF WaitTaskRescheduled, TypeOK
    <2>2. k # "failed" /\ next_send[t] = "none"
        BY <1>0, <1>1, NurseryAssumption DEF OneStateAtATime
    <2>3. NoWindow'
        BY <1>6, <1>3 DEF WaitTaskRescheduled
    <2>4. SendStep
        BY <1>1, <2>1, <2>2, <2>3 DEF SendStep, OnItsWay
    <2>5. FailStep
        BY <1>1, <2>1, FailFrame
    <2> QED
        BY <1>2, <2>1, <2>4, <2>5
<1>7. ASSUME NEW s \in PlainScope, Enter(t, s)
      PROVE  KeptSteps
    <2>0. s \in Scope
        BY DEF PlainScope
    <2>1. /\ s \notin parent_waiting_in_aexit /\ active' = active \cup {s}
          /\ \A x \in Scope : owner'[x] = IF x = s THEN t ELSE owner[x]
          /\ \A u \in Task : status'[u] = IF u = t THEN s ELSE status[u]
          /\ UNCHANGED <<wait, next_send>>
        BY <1>7, <2>0, EnterFacts
    <2>2. raised' = raised /\ parent_waiting_in_aexit \subseteq Scope
        BY <1>7 DEF Enter, NInv, NurseryTypeOK
    <2>3. \A n \in parent_waiting_in_aexit : owner'[n] = owner[n]
        BY <2>1, <2>2
    <2>4. \A n \in Aborted : owner'[n] = owner[n]
        BY <1>1, <2>3 DEF Aborted
    <2>5. SendStep /\ FailStep
        BY <1>1, <2>1, <2>3, SendFrame, FailFrame
    <2> QED
        BY <1>1, <2>1, <2>2, <2>4, <2>5, RaiseFrame, PendFrame DEF KeptSteps
<1>8. ASSUME NEW s \in PlainScope, Exit(t, s)
      PROVE  KeptSteps
    <2>1. /\ s \in active \ {Root} /\ status[t] = s /\ owner[s] = t
          /\ \A u \in Task : parent_nursery[u] # s
          /\ CloseScope(t, s, InFlight(t), [status EXCEPT ![t] = parent[s]])
        BY <1>1, <1>8, ExitOwned DEF Code
    <2>2. s \in Scope /\ s \notin NurseryKind \cup {Root}
        BY DEF PlainScope, NurseryKind
    <2>3. InFlight(t) = raised[s]
        BY <2>1, <2>2, CancelScopeAssumption DEF InFlight, Block
    <2>4. "Cancelled" \in InFlight(t) => Held(s)
        BY <2>2, <2>3 DEF Kept, RaisedKept
    <2>5. SendStep /\ RaiseStep /\ FailStep
        <3>1. pc'[t] \notin Outside /\ pc'[t] \notin {"spawn", "aexit"}
              /\ \A u \in Task \ {t} : pc'[u] = pc[u]
            BY <1>1 DEF Outside
        <3> QED
            BY <1>1, <2>1, <2>4, <3>1, CloseKept
    <2>6. active' = active \ {s} /\ wait' = wait
        BY <2>1, CloseFacts
    <2>7. Aborted = {}
        BY <2>6 DEF Aborted
    <2>8. \A x \in Scope : "Cancelled" \in pending_excs'[x] => "Cancelled" \in pending_excs[x]
        BY <1>1, <2>7, PendingExcsAt
    <2>9. "Cancelled" \notin pending_excs'[s]
        BY <2>2, <2>8 DEF Kept, NurseriesKeep
    <2>10. PendStep
        BY <2>6, <2>8, <2>9 DEF PendStep
    <2> QED
        BY <2>5, <2>10 DEF KeptSteps
<1>9. ASSUME NEW s \in Scope, Cancel(s)
      PROVE  KeptSteps
    <2>1. UNCHANGED <<raised, active, owner, status, current>>
        BY <1>9 DEF Cancel
    <2>2. NoWindow'
        BY <1>1, <1>3, <2>1
    <2>3. SendStep /\ FailStep
        <3>1. CASE s \in active
            <4> DEFINE c == cancel_called \cup {s}
            <4>1. Recalculate(c, shield, parent, effectively_cancelled, status, {s})
                BY <1>9, <3>1 DEF Cancel
            <4> HIDE DEF c
            <4> QED
                BY <1>1, <2>1, <2>2, <4>1, RecalculateSend
        <3>2. CASE s \notin active
            BY <1>1, <1>9, <2>1, <3>2, SendFrame, FailFrame DEF Cancel
        <3> QED
            BY <3>1, <3>2
    <2> QED
        BY <1>2, <2>1, <2>3
<1>10. ASSUME NEW s \in Shielding, SetShield(s)
      PROVE  KeptSteps
    <2>1. UNCHANGED <<raised, active, owner, status, current>>
        BY <1>10 DEF SetShield
    <2>2. NoWindow'
        BY <1>1, <1>3, <2>1
    <2>3. SendStep /\ FailStep
        <3>1. CASE s \in active
            <4>1. Recalculate(cancel_called, shield', parent, effectively_cancelled,
                              status, {s})
                BY <1>10, <3>1 DEF SetShield
            <4> QED
                BY <1>1, <2>1, <2>2, <4>1, RecalculateSend
        <3>2. CASE s \notin active
            BY <1>1, <1>10, <2>1, <3>2, SendFrame, FailFrame DEF SetShield
        <3> QED
            BY <3>1, <3>2
    <2> QED
        BY <1>2, <2>1, <2>3
<1> QED
    BY <1>4, <1>5, <1>6, <1>7, <1>8, <1>9, <1>10, NurseryAssumption DEF CodeStep

(***************************************************************************)
(* So do waking and resuming a task, and the passing of time.              *)
(***************************************************************************)
LEMMA LoopKept ==
    ASSUME NInv, NInv', Kept, NEW t \in Task, Wake(t) \/ ResumeCode(t) \/ Time
    PROVE  KeptSteps
<1>0. /\ TypeOK /\ raised \in [Scope \cup Task -> Exception] /\ OneStateAtATime
      /\ status \in [Task -> Scope] /\ next_send \in [Task -> {"none", "Value", "Cancelled"}]
    BY DEF NInv, IInv, TypeOK
<1>1. CASE Wake(t)
    <2>1. /\ UNCHANGED <<active, owner, status, raised, parent_nursery, pending_excs, pc>>
          /\ UNCHANGED parent_waiting_in_aexit
        BY <1>1 DEF Wake, Reschedule, scopeVars, nurseryVars
    <2>2. PICK outcome \in {"Value", "Cancelled"} :
             /\ outcome = "Cancelled" => wait[t] = "failed"
             /\ next_send' = [next_send EXCEPT ![t] = outcome]
             /\ wait' = [wait EXCEPT ![t] = "none"]
        BY <1>1 DEF Wake, Reschedule
    <2>3. /\ \A u \in Task : wait'[u] = IF u = t THEN "none" ELSE wait[u]
          /\ \A u \in Task : next_send'[u] = IF u = t THEN outcome ELSE next_send[u]
        BY <1>0, <2>2 DEF TypeOK
    <2>4. SendStep
        BY <2>1, <2>2, <2>3 DEF SendStep, OnItsWay
    <2>5. FailStep
        BY <2>1, <2>3, FailFrame
    <2> QED
        BY <2>1, <2>4, <2>5, RaiseFrame, PendFrame DEF KeptSteps
<1>2. CASE ResumeCode(t)
    <2>1. /\ UNCHANGED <<active, owner, status, wait, effectively_cancelled>>
          /\ UNCHANGED <<parent_nursery, pending_excs, pc, parent_waiting_in_aexit>>
          /\ pc[t] = "code" /\ next_send[t] # "none"
        BY <1>2 DEF ResumeCode, Resume, scopeVars, nurseryVars
    <2>2. /\ \A u \in Task : next_send'[u] = IF u = t THEN "none" ELSE next_send[u]
          /\ wait[t] = "none"
        BY <1>0, <1>2, <2>1 DEF ResumeCode, Resume, OneStateAtATime
    <2>3. SendStep
        BY <2>1, <2>2 DEF SendStep, OnItsWay
    <2>4. FailStep
        BY <2>1, FailFrame
    <2> DEFINE b == Block(status, owner, t)
    <2>5. b \in Scope \cup Task /\ b = Block(status', owner', t)
        BY <1>0, <2>1 DEF Block
    <2>6. raised' = [raised EXCEPT ![b] =
                IF (IF next_send[t] = "Cancelled" THEN {"Cancelled"} ELSE {}) = {} THEN @
                ELSE IF next_send[t] = "Cancelled" THEN {"Cancelled"} ELSE {}]
        BY <1>2 DEF ResumeCode, Resume, Raise
    <2> HIDE DEF b
    <2>7. ASSUME NEW x \in Scope \cup Task, "Cancelled" \in raised'[x],
                 "Cancelled" \notin raised[x]
          PROVE  \E u \in Task : /\ x = Block(status', owner', u)
                                 /\ Carried(status'[u])
                                 /\ pc'[u] \notin Outside
        <3>1. x = b /\ next_send[t] = "Cancelled"
            BY <1>0, <2>5, <2>6, <2>7
        <3>2. Held(status[t])
            BY <2>1, <3>1 DEF Kept, SendKept, OnItsWay
        <3>3. Carried(status'[t])
            BY <2>1, <3>2 DEF Carried
        <3>4. pc'[t] \notin Outside
            BY <2>1 DEF Outside
        <3> QED
            BY <2>5, <3>1, <3>3, <3>4
    <2>8. \A u \in Task : "Cancelled" \in raised[u] =>
              pc'[u] \notin Outside /\ parent_nursery'[u] = parent_nursery[u]
        BY <2>1 DEF Kept, RaisedKept
    <2>9. RaiseStep
        BY <2>1, <2>7, <2>8 DEF RaiseStep
    <2> QED
        BY <2>1, <2>3, <2>4, <2>9, PendFrame DEF KeptSteps
<1>3. CASE Time
    <2>1. /\ UNCHANGED <<active, owner, status, raised, parent_nursery, pc, current>>
          /\ UNCHANGED parent_waiting_in_aexit /\ PendingExcs(pending_excs)
        BY <1>3 DEF Time, MoveDeadline, Expire, taskVars
    <2>2. CASE Expire
        <3> DEFINE expired == LateScopes \ cancel_called
                   c == cancel_called \cup expired
        <3>1. /\ Recalculate(c, shield, parent, effectively_cancelled, status, expired)
              /\ current = None
            BY <2>2 DEF Expire
        <3> HIDE DEF c, expired
        <3>2. NoWindow'
            BY <2>1, <3>1, WindowShut, CancelScopeAssumption
        <3>3. SendStep /\ FailStep
            BY <2>1, <3>1, <3>2, RecalculateSend
        <3> QED
            BY <2>1, <3>3, RaiseFrame, PendFrame DEF KeptSteps
    <2>3. CASE \E s \in Deadlined : MoveDeadline(s)
        <3>1. UNCHANGED <<wait, next_send>>
            BY <2>3 DEF MoveDeadline, taskVars
        <3>2. SendStep /\ FailStep
            BY <2>1, <3>1, SendFrame, FailFrame
        <3> QED
            BY <2>1, <3>2, RaiseFrame, PendFrame DEF KeptSteps
    <2> QED
        BY <1>3, <2>2, <2>3 DEF Time
<1> QED
    BY <1>1, <1>2, <1>3
(***************************************************************************)
(* And the steps of __aexit__.                                             *)
(***************************************************************************)
LEMMA AexitKept ==
    ASSUME NInv, NInv', Kept, NEW t \in Task,
           \/ AexitWait(t) \/ AexitCheckpoint(t) \/ ResumeInAexit(t)
           \/ ResumeCancelled(t) \/ AexitClose(t)
    PROVE  KeptSteps
<1>0. /\ TypeOK /\ raised \in [Scope \cup Task -> Exception] /\ OneStateAtATime
      /\ status \in [Task -> Scope] /\ NurseryTypeOK
      /\ next_send \in [Task -> {"none", "Value", "Cancelled"}]
      /\ pending_excs \in [Scope -> Exception] /\ pc \in [Task -> PC]
    BY DEF NInv, IInv, TypeOK, NurseryTypeOK
<1>1. ASSUME UNCHANGED <<raised, active, parent_nursery>>,
             \A u \in Task : pc'[u] \notin Outside \/ pc'[u] = pc[u]
      PROVE  RaiseStep
    BY <1>1, RaiseFrame
<1>2. CASE AexitWait(t)
    <2> DEFINE n == status[t]
    <2>1. /\ UNCHANGED <<active, owner, status, raised, effectively_cancelled>>
          /\ current = t /\ current' = None /\ pc[t] = "aexit"
          /\ UNCHANGED parent_nursery /\ PendingExcs(pending_excs)
          /\ \A u \in Task \ {t} : wait'[u] = wait[u] /\ next_send'[u] = next_send[u]
          /\ n \notin effectively_cancelled =>
                wait'[t] = "cancels" /\ next_send'[t] = next_send[t]
          /\ n \in effectively_cancelled => n \in cancel_called'
          /\ parent_waiting_in_aexit' = parent_waiting_in_aexit \cup {n}
          /\ \A u \in Task : pc'[u] = IF u = t THEN "waiting" ELSE pc[u]
        BY <1>0, <1>2 DEF AexitWait, WaitTaskRescheduled, TypeOK, Goto
    <2>2. next_send[t] = "none" /\ NoWindow'
        BY <1>0, <2>1, WindowShut, CancelScopeAssumption DEF OneStateAtATime
    <2>3. SendStep
        BY <2>1, <2>2 DEF SendStep, OnItsWay
    <2>4. RaiseStep
        BY <1>1, <2>1 DEF Outside
    <2>5. FailStep
        <3> SUFFICES ASSUME NEW m \in parent_waiting_in_aexit', wait'[owner'[m]] = "failed",
                            m \notin cancel_called'
                     PROVE  m \in parent_waiting_in_aexit /\ wait[owner[m]] = "failed"
            BY <2>1 DEF FailStep
        <3>1. owner[n] = t
            BY <2>1 DEF NInv, Blocks, InAexit
        <3>2. m # n
            BY <2>1, <3>1
        <3>3. m \in parent_waiting_in_aexit
            BY <2>1, <3>2
        <3>4. owner[m] \in Task /\ pc[owner[m]] = "waiting"
            BY <3>3 DEF NInv, Waiting
        <3> QED
            BY <2>1, <3>3, <3>4
    <2> QED
        BY <2>1, <2>3, <2>4, <2>5, PendFrame DEF KeptSteps
<1>3. CASE AexitCheckpoint(t)
    <2>1. /\ UNCHANGED <<active, owner, status, raised, wait>> /\ current = t
          /\ UNCHANGED <<parent_nursery, pending_excs, parent_waiting_in_aexit>>
          /\ \A u \in Task : next_send'[u] = IF u = t THEN "Value" ELSE next_send[u]
          /\ \A u \in Task : pc'[u] = IF u = t THEN "checkpoint" ELSE pc[u]
        BY <1>0, <1>3 DEF AexitCheckpoint, CancelShieldedCheckpoint, scopeVars, Goto
    <2>2. wait[t] = "none"
        BY <1>0, <2>1 DEF OneStateAtATime
    <2>3. SendStep /\ FailStep
        BY <2>1, <2>2, SendFrame, FailFrame
    <2>4. RaiseStep
        BY <1>1, <2>1 DEF Outside
    <2> QED
        BY <2>1, <2>3, <2>4, PendFrame DEF KeptSteps
<1>4. CASE ResumeInAexit(t)
    <2>1. /\ UNCHANGED <<active, owner, status, raised, wait>> /\ next_send[t] # "none"
          /\ UNCHANGED <<parent_nursery, pending_excs, parent_waiting_in_aexit>>
          /\ \A u \in Task \ {t} : next_send'[u] = next_send[u] /\ pc'[u] = pc[u]
          /\ \/ next_send'[t] = "Cancelled" /\ pc'[t] = "cancelled"
             \/ next_send'[t] = "none" /\ pc'[t] = "close"
        BY <1>0, <1>4 DEF ResumeInAexit, scopeVars, Goto
    <2>2. wait[t] = "none"
        BY <1>0, <2>1 DEF OneStateAtATime
    <2>3. SendStep
        BY <2>1, <2>2 DEF SendStep, OnItsWay
    <2>4. RaiseStep
        BY <1>1, <2>1 DEF Outside
    <2>5. FailStep
        BY <2>1, FailFrame
    <2> QED
        BY <2>1, <2>3, <2>4, <2>5, PendFrame DEF KeptSteps
<1>5. CASE ResumeCancelled(t)
    <2>1. /\ UNCHANGED <<active, owner, status, raised, wait, effectively_cancelled>>
          /\ UNCHANGED <<parent_nursery, parent_waiting_in_aexit>> /\ pc[t] = "cancelled"
          /\ \A u \in Task : next_send'[u] = IF u = t THEN "none" ELSE next_send[u]
          /\ \A u \in Task : pc'[u] = IF u = t THEN "close" ELSE pc[u]
        BY <1>0, <1>5 DEF ResumeCancelled, Goto
    <2>2. wait[t] = "none"
        BY <1>0, <2>1 DEF OneStateAtATime, NInv, Lives
    <2>3. SendStep
        BY <2>1, <2>2 DEF SendStep, OnItsWay
    <2>4. RaiseStep
        BY <1>1, <2>1 DEF Outside
    <2>5. status[t] \in active /\ status[t] \in Scope
        BY <1>0 DEF NInv, NoOrphans
    <2>6. \A s \in Scope : "Cancelled" \in pending_excs'[s] =>
             "Cancelled" \in pending_excs[s] \/ s \in active \cap cancel_called'
        BY <1>0, <1>5, <2>5 DEF ResumeCancelled
    <2>7. PendStep
        BY <2>1, <2>6 DEF PendStep
    <2>8. FailStep
        BY <2>1, FailFrame
    <2> QED
        BY <2>3, <2>4, <2>7, <2>8 DEF KeptSteps
<1>6. CASE AexitClose(t)
    <2> DEFINE n == status[t]
    <2>1. /\ n \in active \ {Root} /\ owner[n] = t
          /\ \A u \in Task : parent_nursery[u] # n
        BY <1>6, AexitOwned
    <2>2. /\ CloseScope(t, n, pending_excs[n], [status EXCEPT ![t] = parent[n]])
          /\ current = t /\ n \in Scope
          /\ UNCHANGED <<parent_nursery, parent_waiting_in_aexit>>
          /\ \A s \in Scope : pending_excs'[s] = IF s = n THEN {} ELSE pending_excs[s]
        BY <1>0, <1>6 DEF AexitClose
    <2>3. pc'[t] \in {"code", "returned", "finally"} /\ \A u \in Task \ {t} : pc'[u] = pc[u]
        BY <1>0, <1>6 DEF AexitClose, Goto
    <2>4. "Cancelled" \in pending_excs[n] => n \in cancel_called
        BY <2>2 DEF Kept, PendingKept
    <2>5. active' = active \ {n}
        BY <2>2 DEF CloseScope
    <2>6. pc'[t] \notin Outside /\ pc'[t] \notin {"spawn", "aexit"}
        BY <2>3 DEF Outside
    <2> HIDE DEF n
    <2>7. PendStep
        BY <2>2, <2>5 DEF PendStep
    <2>8. SendStep /\ RaiseStep /\ FailStep
        BY <2>1, <2>2, <2>3, <2>4, <2>6, CloseKept DEF n
    <2> QED
        BY <2>7, <2>8 DEF KeptSteps
<1> QED
    BY <1>2, <1>3, <1>4, <1>5, <1>6

(***************************************************************************)
(* Steps that raise RuntimeError, open a block or make a task.             *)
(***************************************************************************)
LEMMA OpenKept ==
    ASSUME NInv, NInv', Kept, NEW t \in Task,
           \/ \E u \in Task : StartSpawn(t, u)
           \/ \E n \in NurseryScope : OpenNursery(t, n) \/ StartRefused(t, n)
           \/ \E n \in NurseryScope, u \in Task : StartSoon(t, u, n)
           \/ \E n \in NurseryScope, o \in StartScope : Start(t, n, o)
           \/ \E o \in StartScope : StartedAgain(t, o)
    PROVE  KeptSteps
<1>0. /\ TypeOK /\ raised \in [Scope \cup Task -> Exception] /\ OneStateAtATime
      /\ status \in [Task -> Scope] /\ NurseryTypeOK
      /\ next_send \in [Task -> {"none", "Value", "Cancelled"}]
      /\ pc \in [Task -> PC] /\ parent_nursery \in [Task -> Scope \cup {None}]
      /\ parent_waiting_in_aexit \subseteq Scope
    BY DEF NInv, IInv, TypeOK, NurseryTypeOK
<1>1. UNCHANGED parent_waiting_in_aexit
    BY DEF StartSpawn, OpenNursery, StartRefused, StartSoon, Start, StartedAgain, nurseryVars
<1>2. ASSUME NEW s \in Scope, Enter(t, s), UNCHANGED <<parent_nursery, pending_excs>>,
             \A u \in Task : pc'[u] = pc[u] \/ (u = t /\ pc'[u] = "spawn")
      PROVE  KeptSteps
    <2>1. /\ active' = active \cup {s} /\ current = t /\ s \notin parent_waiting_in_aexit
          /\ \A x \in Scope : owner'[x] = IF x = s THEN t ELSE owner[x]
          /\ \A u \in Task : status'[u] = IF u = t THEN s ELSE status[u]
          /\ UNCHANGED <<wait, next_send>>
        BY <1>2, EnterFacts
    <2>2. raised' = raised
        BY <1>2 DEF Enter
    <2>3. SendStep
        BY <1>2, <2>1, SendFrame
    <2>4. RaiseStep
        BY <1>2, <2>1, <2>2, RaiseFrame DEF Outside
    <2>5. \A n \in parent_waiting_in_aexit : owner'[n] = owner[n]
        BY <1>0, <2>1
    <2>6. FailStep
        BY <1>1, <2>1, <2>5, FailFrame
    <2> QED
        BY <1>2, <2>1, <2>3, <2>4, <2>6, PendFrame DEF KeptSteps
<1>3. CASE \/ \E n \in NurseryScope : OpenNursery(t, n)
           \/ \E n \in NurseryScope, o \in StartScope : Start(t, n, o)
    <2>1. PICK s \in Scope : Enter(t, s)
        BY <1>3, NurseryAssumption DEF OpenNursery, Start
    <2>2. UNCHANGED <<parent_nursery, pending_excs>>
        BY <1>3 DEF OpenNursery, Start
    <2>3. \A u \in Task : pc'[u] = pc[u] \/ (u = t /\ pc'[u] = "spawn")
        BY <1>0, <1>3 DEF OpenNursery, Start, Goto
    <2> QED
        BY <1>2, <2>1, <2>2, <2>3
<1>4. ASSUME NEW u \in Task, NEW s, Spawn(u, s), pc[u] = "unborn", UNCHANGED pending_excs,
             current = t,
             \A v \in Task \ {u} : parent_nursery'[v] = parent_nursery[v],
             \A v \in Task \ {u, t} : pc'[v] = pc[v],
             pc'[t] \in {"code", "aexit"}, pc'[u] = "code"
      PROVE  KeptSteps
    <2>1. /\ UNCHANGED <<active, owner, raised, wait>>
          /\ \A v \in Task : next_send'[v] = IF v = u THEN "Value" ELSE next_send[v]
          /\ \A v \in Task \ {u} : status'[v] = status[v]
        BY <1>0, <1>4 DEF Spawn, scopeVars
    <2>2. wait[u] = "none"
        BY <1>4 DEF NInv, Lives
    <2>3. SendStep
        BY <1>4, <2>1, <2>2, SendFrame
    <2>4. "Cancelled" \notin raised[u]
        BY <1>4 DEF Kept, RaisedKept, Outside
    <2>5. RaiseStep
        BY <1>4, <2>1, <2>4, RaiseFrame DEF Outside
    <2>6. FailStep
        BY <1>1, <2>1, FailFrame
    <2> QED
        BY <1>4, <2>1, <2>3, <2>5, <2>6, PendFrame DEF KeptSteps
<1>5. ASSUME NEW u \in Task, StartSpawn(t, u)
      PROVE  KeptSteps
    <2>1. /\ Spawn(u, status[t]) /\ pc[u] = "unborn" /\ pc[t] = "spawn" /\ current = t
          /\ UNCHANGED pending_excs
        BY <1>5 DEF StartSpawn
    <2>2. /\ \A v \in Task \ {u} : parent_nursery'[v] = parent_nursery[v]
          /\ \A v \in Task \ {u, t} : pc'[v] = pc[v]
          /\ pc'[t] \in {"code", "aexit"} /\ pc'[u] = "code"
        BY <1>0, <1>5, <2>1 DEF StartSpawn
    <2> QED
        BY <1>4, <2>1, <2>2
<1>6. ASSUME NEW n \in NurseryScope, NEW u \in Task, StartSoon(t, u, n)
      PROVE  KeptSteps
    <2>1. /\ Spawn(u, n) /\ pc[u] = "unborn" /\ pc[t] = "code" /\ current = t
          /\ UNCHANGED pending_excs
        BY <1>6 DEF StartSoon, Code
    <2>2. /\ \A v \in Task \ {u} : parent_nursery'[v] = parent_nursery[v]
          /\ \A v \in Task \ {u, t} : pc'[v] = pc[v]
          /\ pc'[t] \in {"code", "aexit"} /\ pc'[u] = "code"
        BY <1>0, <1>6, <2>1 DEF StartSoon, Goto
    <2> QED
        BY <1>4, <2>1, <2>2
<1>7. CASE \/ \E n \in NurseryScope : StartRefused(t, n)
           \/ \E o \in StartScope : StartedAgain(t, o)
    <2>1. /\ UNCHANGED <<active, owner, status, wait, next_send, pc>>
          /\ UNCHANGED <<parent_nursery, pending_excs>>
          /\ Raise(Block(status, owner, t), {"Error"})
        BY <1>7 DEF StartRefused, StartedAgain, scopeVars, nurseryVars
    <2>2. \A x \in Scope \cup Task : "Cancelled" \in raised'[x] => "Cancelled" \in raised[x]
        BY <1>0, <2>1 DEF Raise
    <2>3. SendStep /\ FailStep
        BY <1>1, <2>1, SendFrame, FailFrame
    <2> QED
        BY <2>1, <2>2, <2>3, RaiseFrame, PendFrame DEF KeptSteps
<1> QED
    BY <1>3, <1>5, <1>6, <1>7

(***************************************************************************)
(* _check_nursery_closed sends a value, never Cancelled.                   *)
(***************************************************************************)
LEMMA PokeKept ==
    ASSUME NInv, Kept, NEW t \in Task,
           \/ ChildFinished(t)
           \/ \E o \in StartScope : StartReturns(t, o) \/ StartedPoke(t, o)
    PROVE  KeptSteps
<1>0. /\ TypeOK /\ raised \in [Scope \cup Task -> Exception]
      /\ next_send \in [Task -> {"none", "Value", "Cancelled"}] /\ wait \in [Task -> Wait]
      /\ pc \in [Task -> PC] /\ parent_nursery \in [Task -> Scope \cup {None}]
    BY DEF NInv, IInv, TypeOK, NurseryTypeOK
<1>1. /\ current = t /\ UNCHANGED <<active, owner, status, pending_excs>>
      /\ \E n : CheckNurseryClosed(n)
    BY DEF ChildFinished, StartReturns, StartedPoke, scopeVars
<1>2. /\ \A u \in Task : \/ wait'[u] = wait[u] /\ next_send'[u] = next_send[u]
                         \/ wait'[u] = "none" /\ next_send'[u] = "Value"
      /\ parent_waiting_in_aexit' \subseteq parent_waiting_in_aexit
    BY <1>0, <1>1 DEF CheckNurseryClosed
<1>3. \A u \in Task \ {t} : pc'[u] = pc[u] /\ parent_nursery'[u] = parent_nursery[u]
    BY <1>0 DEF ChildFinished, StartReturns, StartedPoke, Goto
<1>4. SendStep
    BY <1>1, <1>2, <1>3, SendFrame
<1>5. FailStep
    BY <1>1, <1>2, FailFrame
<1>6. \A x \in Scope \cup Task : "Cancelled" \in raised'[x] => "Cancelled" \in raised[x]
    BY <1>0 DEF ChildFinished, StartReturns, StartedPoke, Raise
<1>7. PendStep
    BY <1>1, PendFrame
<1>8. CASE ChildFinished(t)
    <2>1. "Cancelled" \notin raised[t]
        BY <1>8 DEF ChildFinished, Kept, RaisedKept, Outside
    <2>2. RaiseStep
        BY <1>1, <1>3, <1>6, <2>1, RaiseFrame
    <2> QED
        BY <1>4, <1>5, <1>7, <2>2 DEF KeptSteps
<1>9. CASE \E o \in StartScope : StartReturns(t, o) \/ StartedPoke(t, o)
    <2>1. pc'[t] = "code" /\ parent_nursery'[t] = parent_nursery[t]
        BY <1>0, <1>9 DEF StartReturns, StartedPoke, Goto
    <2>2. RaiseStep
        BY <1>1, <1>3, <1>6, <2>1, RaiseFrame DEF Outside
    <2> QED
        BY <1>4, <1>5, <1>7, <2>2 DEF KeptSteps
<1> QED
    BY <1>8, <1>9
(***************************************************************************)
(* The exception of a nested child or of a task goes to a nursery that is  *)
(* cancelled with it.                                                      *)
(***************************************************************************)
LEMMA ExceptionKept ==
    ASSUME NInv, NInv', Kept, NEW t \in Task,
           TaskExited(t) \/ \E n \in NurseryScope : NestedChildFinished(t, n)
    PROVE  KeptSteps
<1>0. /\ TypeOK /\ raised \in [Scope \cup Task -> Exception] /\ status \in [Task -> Scope]
      /\ pc \in [Task -> PC] /\ pending_excs \in [Scope -> Exception]
      /\ Scope \cap Task = {} /\ UNCHANGED parent_waiting_in_aexit
    BY CancelScopeAssumption
    DEF NInv, IInv, TypeOK, NurseryTypeOK, TaskExited, NestedChildFinished
<1>1. ASSUME NEW n \in Scope, NEW exc, CancelFor(n, exc), current = t, NoWindow',
             UNCHANGED owner,
             \A u \in Task \ {t} : status'[u] = status[u] /\ pc'[u] = pc[u]
      PROVE  SendStep /\ FailStep /\ (exc # {} => n \in cancel_called')
    <2>1. CASE Recalculate(cancel_called \cup {n}, shield, parent,
                           effectively_cancelled, status, {n})
        <3> DEFINE c == cancel_called \cup {n}
        <3>1. Recalculate(c, shield, parent, effectively_cancelled, status, {n}) /\ n \in c
            BY <2>1
        <3> HIDE DEF c
        <3> QED
            BY <1>0, <1>1, <3>1, RecalculateSend, RecalculateCalls
    <2>2. CASE UNCHANGED <<wait, next_send, cancel_called>>
               /\ (exc # {} => n \in cancel_called)
        BY <1>0, <1>1, <2>2, SendFrame, FailFrame
    <2> QED
        BY <1>1, <2>1, <2>2 DEF CancelFor
<1>2. ASSUME NEW n \in Scope, NEW exc, NEW x \in Scope \cup Task,
             PendingExcs([pending_excs EXCEPT ![n] = @ \cup exc]), n \in active,
             exc # {} => n \in cancel_called', UNCHANGED <<active, owner, parent_nursery>>,
             raised' = [raised EXCEPT ![x] = {}],
             \A u \in Task : x = u \/ pc'[u] \notin Outside \/ pc'[u] = pc[u]
      PROVE  RaiseStep /\ PendStep
    <2>1. /\ \A y \in Scope \cup Task : "Cancelled" \in raised'[y] => "Cancelled" \in raised[y]
          /\ "Cancelled" \notin raised'[x]
        BY <1>0, <1>2
    <2>2. RaiseStep
        BY <1>2, <2>1, RaiseFrame
    <2> DEFINE base == [pending_excs EXCEPT ![n] = @ \cup exc]
    <2>3. \A s \in Scope : base[s] = IF s = n THEN pending_excs[s] \cup exc
                                     ELSE pending_excs[s]
        BY <1>0
    <2>4. PendingExcs(base)
        BY <1>2
    <2> HIDE DEF base
    <2>5. ASSUME NEW s \in Scope, "Cancelled" \in pending_excs'[s]
          PROVE  "Cancelled" \in base[s] \/ s \in Aborted
        BY <2>4, <2>5, PendingExcsAt
    <2>6. ASSUME NEW s \in Scope, "Cancelled" \in base[s], "Cancelled" \notin pending_excs[s]
          PROVE  s \in active' \cap cancel_called'
        <3>1. s = n /\ "Cancelled" \in exc
            BY <2>3, <2>6
        <3> QED
            BY <1>2, <3>1
    <2> QED
        BY <1>2, <2>2, <2>5, <2>6 DEF PendStep
<1>3. ASSUME NEW n \in NurseryScope, NestedChildFinished(t, n)
      PROVE  KeptSteps
    <2>1. /\ CancelFor(n, raised[n]) /\ current = t /\ n \in Scope /\ status[t] = n
          /\ PendingExcs([pending_excs EXCEPT ![n] = @ \cup raised[n]])
          /\ UNCHANGED <<active, owner, parent_nursery, status, current>>
          /\ raised' = [raised EXCEPT ![n] = {}]
        BY <1>3, NurseryAssumption DEF NestedChildFinished, Code
    <2>2. \A u \in Task : pc'[u] = IF u = t THEN "aexit" ELSE pc[u]
        BY <1>0, <1>3 DEF NestedChildFinished, Goto
    <2>3. n \in active /\ n \notin StartScope
        BY <2>1, NurseryAssumption DEF NInv, NoOrphans
    <2>4. NoWindow'
        BY <2>1, <2>3, WindowShut
    <2>5. SendStep /\ FailStep /\ (raised[n] # {} => n \in cancel_called')
        BY <1>1, <2>1, <2>2, <2>4
    <2>6. \A u \in Task : pc'[u] \notin Outside \/ pc'[u] = pc[u]
        BY <2>2 DEF Outside
    <2>7. RaiseStep /\ PendStep
        BY <1>2, <2>1, <2>3, <2>5, <2>6
    <2> QED
        BY <2>5, <2>7 DEF KeptSteps
<1>4. CASE TaskExited(t)
    <2> DEFINE n   == parent_nursery[t]
               exc == IF t = Main THEN {}
                      ELSE IF status[t] \in abandoned /\ parent[status[t]] = None
                           THEN {"Error"} ELSE raised[t]
    <2>1. /\ CancelFor(n, exc) /\ current = t /\ pc[t] = "code"
          /\ PendingExcs([pending_excs EXCEPT ![n] = @ \cup exc])
          /\ UNCHANGED <<active, owner, parent_nursery, current>>
          /\ raised' = [raised EXCEPT ![t] = {}]
        BY <1>4 DEF TaskExited, Code
    <2>2. /\ \A u \in Task \ {t} : status'[u] = status[u]
          /\ \A u \in Task : pc'[u] = IF u = t THEN "exiting" ELSE pc[u]
        BY <1>0, <1>4 DEF TaskExited, Goto
    <2>3. n \in active /\ n \in Scope
        BY <1>0, <2>1 DEF NInv, Lives, Membership, Alive, TypeOK
    <2>4. NoWindow'
        BY <2>1, <2>2, WindowShut
    <2> HIDE DEF n, exc
    <2>5. SendStep /\ FailStep /\ (exc # {} => n \in cancel_called')
        BY <1>1, <2>1, <2>2, <2>3, <2>4
    <2>6. \A u \in Task : t = u \/ pc'[u] \notin Outside \/ pc'[u] = pc[u]
        BY <2>2
    <2>7. RaiseStep /\ PendStep
        BY <1>2, <2>1, <2>3, <2>5, <2>6
    <2> QED
        BY <2>5, <2>7 DEF KeptSteps
<1> QED
    BY <1>3, <1>4

(***************************************************************************)
(* started() moves tasks out of a nursery that is not cancelled, so no     *)
(* Cancelled is on its way to them.                                        *)
(***************************************************************************)
LEMMA StartedKept ==
    ASSUME NInv, NInv', Kept, NEW t \in Task, NEW o \in StartScope, Started(t, o)
    PROVE  KeptSteps
<1>1. /\ UNCHANGED <<active, owner, raised, current, parent_waiting_in_aexit>>
      /\ PendingExcs(pending_excs)
    BY DEF Started
<1>2. PendStep
    BY <1>1, PendFrame
<1>3. CASE ~MayMove(o)
    <2>1. UNCHANGED <<parent_nursery, status, wait, next_send, pc>>
        BY <1>3 DEF Started
    <2>2. SendStep /\ FailStep
        BY <1>1, <2>1, SendFrame, FailFrame
    <2>3. RaiseStep
        BY <1>1, <2>1, RaiseFrame
    <2> QED
        BY <1>2, <2>2, <2>3 DEF KeptSteps
<1>4. CASE MayMove(o)
    <2> DEFINE n     == new_nursery[o]
               moved == {u \in Task : status[u] = o} \ {owner[o]}
               st    == [u \in Task |-> IF u \in moved THEN n ELSE status[u]]
               below == Children(parent, o)
               p     == [s \in Scope |-> IF s \in below THEN n ELSE parent[s]]
               e     == effectively_cancelled
               ch    == Changed(cancel_called \cup LateScopes, shield, p, e, below)
               T     == {u \in Task : st[u] \in ch \ e}
                           \cup IF n \in e THEN moved ELSE {}
               c2    == cancel_called \cup (Visited(p, below, ch) \cap LateScopes)
    <2>1. Moves(t, o, n) /\ o \notin e
        BY <1>4, StartedFacts DEF MayMove
    <2>2. status' = st /\ e' = (e \ ch) \cup (ch \ e) /\ Deliver(c2, st, T)
        BY <1>4 DEF Started, Move
    <2>3. T \in SUBSET Task
        OBVIOUS
    <2>4. /\ \A u \in Task : st[u] = IF u \in moved THEN n ELSE status[u]
          /\ \A u \in Task : u \in moved <=> status[u] = o /\ u # owner[o]
          /\ \A u \in T : st[u] \in ch \ e \/ (u \in moved /\ n \in e)
        OBVIOUS
    <2>5. n \notin ch
        <3>1. parent \in [Scope -> Scope \cup {None}] /\ n \in Scope /\ o \in Scope
            BY <2>1 DEF NInv, IInv, TypeOK, Moves
        <3>2. /\ p \in [Scope -> Scope \cup {None}] /\ below \in SUBSET Scope
              /\ \A r \in below : p[r] = n
            BY <3>1 DEF Children
        <3>3. parent' = p
            BY <1>4 DEF Started, Move
        <3>4. Grounded(p)
            BY <3>3 DEF NInv, GroundedTogether, Grounded
        <3> HIDE DEF p, below, n
        <3> QED
            BY <3>1, <3>2, <3>4, TargetUntouched
    <2> HIDE DEF c2, st, moved, T, ch
    <2>6. \A u \in T : u # current => status'[u] \in effectively_cancelled'
        BY <2>2, <2>3, <2>4, <2>5
    <2>7. ASSUME NEW u \in Task, parent_nursery[u] = o
          PROVE  ~Held(o)
        <3>1. o \in active \ closed
            BY <2>1, <2>7, CancelScopeAssumption DEF Moves, NInv, Membership, Alive
        <3>2. o \notin cancel_called
            BY <2>1, <3>1 DEF NInv, IInv, Consistent, NewState
        <3>3. o \in Movable
            BY <3>1, <3>2 DEF Movable
        <3> QED
            BY <3>3, MovableNotHeld
    <2>8. ASSUME NEW u \in Task, status'[u] # status[u]
          PROVE  ~OnItsWay(u)
        <3>1. status[u] = o /\ owner[o] # u /\ o # Root
            BY <2>1, <2>2, <2>4, <2>8, NurseryAssumption
        <3>2. parent_nursery[u] = o
            BY <3>1 DEF NInv, Stacks
        <3> QED
            BY <2>7, <3>1, <3>2 DEF Kept, SendKept
    <2>9. \A u \in Task : u # current => pc'[u] = pc[u]
        BY <2>1 DEF Moves
    <2>10. NoWindow'
        <3>1. current = t /\ pc'[t] \in {"code", "poke"}
            BY <2>1 DEF Moves
        <3> QED
            BY <1>1, <3>1, WindowShut
    <2>11. SendStep
        BY <2>2, <2>3, <2>6, <2>8, <2>9, <2>10, DeliverSend
    <2>12. FailStep
        BY <1>1, <2>2, <2>3, DeliverFail
    <2>13. ASSUME NEW u \in Task, "Cancelled" \in raised[u]
           PROVE  /\ pc'[u] \notin Outside \/ pc'[u] = pc[u]
                  /\ parent_nursery'[u] = parent_nursery[u]
        <3>1. Held(parent_nursery[u])
            BY <2>13 DEF Kept, RaisedKept
        <3>2. parent_nursery[u] # o
            BY <2>7, <3>1
        <3> QED
            BY <2>1, <3>2 DEF Moves, Outside
    <2>14. RaiseStep
        BY <1>1, <2>13, RaiseFrame
    <2> QED
        BY <1>2, <2>11, <2>12, <2>14 DEF KeptSteps
<1> QED
    BY <1>3, <1>4

(***************************************************************************)
(* Every Cancelled on its way, to be sent, in flight or kept by a nursery, *)
(* has an open cancelled scope around it that will catch it, whatever      *)
(* shields the program sets meanwhile: it is not lost by started(), which  *)
(* moves tasks between nurseries, by __aexit__, which goes on waiting, or  *)
(* by task_exited.                                                         *)
(***************************************************************************)
THEOREM CancelledIsKept == NurserySpec => []EveryCancelledHasACatcher
<1>1. NurseryInit => Kept
    BY DEF NurseryInit, Init, Kept, SendKept, OnItsWay, RaisedKept, PendingKept,
        FailedKept, NurseriesKeep
<1>2. ASSUME NInv, NInv', Kept, [NurseryNext]_allVars
      PROVE  Kept'
    <2>0. NurseriesKeep'
        BY <1>2, NurseriesKeepNext DEF Kept
    <2>1. CASE UNCHANGED allVars
        BY <1>2, <2>1 DEF allVars, vars, scopeVars, taskVars, nurseryVars, Kept, SendKept,
            OnItsWay, RaisedKept, PendingKept, FailedKept, NurseriesKeep, Held, Movable
    <2>2. ASSUME NEW t \in Task, TaskNext(t)
          PROVE  KeptSteps
        <3>1. CASE CodeStep(t) \/ Wake(t) \/ ResumeCode(t)
            BY <1>2, <3>1, CodeKept, LoopKept
        <3>2. CASE \/ AexitWait(t) \/ AexitCheckpoint(t) \/ ResumeInAexit(t)
                   \/ ResumeCancelled(t) \/ AexitClose(t)
            BY <1>2, <3>2, AexitKept
        <3>3. CASE TaskExited(t) \/ \E n \in NurseryScope : NestedChildFinished(t, n)
            BY <1>2, <3>3, ExceptionKept
        <3>4. CASE \/ ChildFinished(t)
                   \/ \E o \in StartScope : StartReturns(t, o) \/ StartedPoke(t, o)
            BY <1>2, <3>4, PokeKept
        <3>5. CASE \/ \E u \in Task : StartSpawn(t, u)
                   \/ \E n \in NurseryScope : OpenNursery(t, n) \/ StartRefused(t, n)
                   \/ \E n \in NurseryScope, u \in Task : StartSoon(t, u, n)
                   \/ \E n \in NurseryScope, o \in StartScope : Start(t, n, o)
                   \/ \E o \in StartScope : StartedAgain(t, o)
            BY <1>2, <3>5, OpenKept
        <3>6. CASE \E o \in StartScope : Started(t, o)
            BY <1>2, <3>6, StartedKept
        <3> QED
            BY <2>2, <3>1, <3>2, <3>3, <3>4, <3>5, <3>6 DEF TaskNext
    <2>3. ASSUME Time
          PROVE  KeptSteps
        BY <1>2, <2>3, LoopKept, NurseryAssumption
    <2>4. CASE KeptSteps
        BY <1>2, <2>0, <2>4, KeptStep DEF Kept
    <2> QED
        BY <1>2, <2>1, <2>2, <2>3, <2>4 DEF NurseryNext, Finished
<1>3. NInv /\ Kept => EveryCancelledHasACatcher
    <2> SUFFICES ASSUME NInv, Kept
                 PROVE  EveryCancelledHasACatcher
        OBVIOUS
    <2>1. ASSUME NEW t \in Task, next_send[t] = "Cancelled", pc[t] # "cancelled"
          PROVE  \E a \in active \cap cancel_called : Encloses(parent, a, status[t])
        BY <2>1, HeldIsCaught DEF Kept, SendKept, OnItsWay
    <2>2. ASSUME NEW t \in Task, "Cancelled" \in raised[t]
          PROVE  \E a \in active \cap cancel_called : Encloses(parent, a, parent_nursery[t])
        BY <2>2, HeldIsCaught DEF Kept, RaisedKept
    <2>3. ASSUME NEW s \in active, "Cancelled" \in raised[s] \cup pending_excs[s]
          PROVE  \E a \in active \cap cancel_called : Encloses(parent, a, s)
        <3>1. s \in Scope
            BY DEF NInv, IInv, TypeOK
        <3> QED
            BY <2>3, <3>1, HeldIsCaught, EnclosesSelf DEF Kept, RaisedKept, PendingKept
    <2> QED
        BY <2>1, <2>2, <2>3 DEF EveryCancelledHasACatcher
<1>4. NInv /\ NInv' /\ Kept /\ [NurseryNext]_allVars => Kept'
    BY <1>2
<1> QED
    BY <1>1, <1>3, <1>4, NurseryInvariance, PTL DEF NurserySpec
================================================================================
