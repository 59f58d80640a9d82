-------------------------- MODULE ResourcesProofs ---------------------------
(***************************************************************************)
(* Proofs for Resources, for any number of workers, connections and KDF    *)
(* slots.                                                                  *)
(*                                                                         *)
(* What a worker holds, and where it is in its transaction, follows from   *)
(* the set of steps its request still has before it; Rule says what may    *)
(* still follow each step, and Good what such a set looks like.            *)
(***************************************************************************)
EXTENDS Resources, FiniteSetTheorems, SequenceTheorems, TLAPS

StepNames == {"kdf", "conn", "hash", "begin", "write", "undo", "commit", "note",
              "token", "reply", "end"}

\* The steps from position i on.
From(p, i) == {p[k] : k \in i..Len(p)}

Steps(p) == From(p, 1)

\* The steps after s, in any order, when s comes next.
Rule(s, L) ==
    /\ s \notin L
    /\ s \in {"reply", "end"} <=> L = {}
    /\ s \in {"kdf", "hash", "conn", "begin"} => ("reply" \in L <=> "commit" \in L)
    /\ s = "kdf" => "hash" \in L
    /\ s = "hash" => "kdf" \notin L
    /\ s \notin {"kdf", "hash", "conn"} => {"kdf", "hash", "conn"} \cap L = {}
    /\ s = "begin" => "undo" \in L \/ {"write", "commit"} \subseteq L
    /\ s \notin {"kdf", "hash", "conn"} => "begin" \notin L
    /\ s = "write" => "commit" \in L
    /\ s \notin {"kdf", "hash", "conn", "begin"} => "undo" \notin L /\ "write" \notin L
    /\ s \in {"undo", "commit", "note", "token"} => "commit" \notin L
    /\ s = "undo" => "reply" \notin L
    /\ s \in {"commit", "token"} => "reply" \in L

Good(S) ==
    /\ "kdf" \in S => "hash" \in S
    /\ "commit" \in S => "reply" \in S /\ "undo" \notin S
    /\ {"kdf", "hash", "conn"} \cap S # {} /\ {"commit", "undo"} \cap S # {} =>
          "begin" \in S

WellFormed(p) ==
    /\ p \in Seq(StepNames)
    /\ \A i \in 1..Len(p) : Good(From(p, i)) /\ Rule(p[i], From(p, i + 1))

\* A request that has arrived.
Fresh(p) ==
    /\ WellFormed(p)
    /\ "conn" \in Steps(p)
    /\ "hash" \in Steps(p) <=> "kdf" \in Steps(p)
    /\ "reply" \in Steps(p) <=> "commit" \in Steps(p)
-----------------------------------------------------------------------------
LEMMA PlansFresh ==
    ASSUME NEW p \in Plans
    PROVE  Fresh(p)
<1>1. Fresh(<<"kdf", "hash", "conn", "begin", "write", "commit", "note", "reply">>)
    BY SMTT(60) DEF Fresh, WellFormed, Rule, Good, From, Steps, StepNames
<1>2. Fresh(<<"kdf", "hash", "conn", "begin", "undo", "note", "end">>)
    BY SMTT(60) DEF Fresh, WellFormed, Rule, Good, From, Steps, StepNames
<1>3. Fresh(<<"kdf", "hash", "conn", "begin", "undo", "end">>)
    BY SMTT(60) DEF Fresh, WellFormed, Rule, Good, From, Steps, StepNames
<1>4. Fresh(<<"kdf", "conn", "hash", "begin", "write", "commit", "token", "reply">>)
    BY SMTT(60) DEF Fresh, WellFormed, Rule, Good, From, Steps, StepNames
<1>5. Fresh(<<"kdf", "conn", "hash", "begin", "write", "commit", "reply">>)
    BY SMTT(60) DEF Fresh, WellFormed, Rule, Good, From, Steps, StepNames
<1>6. Fresh(<<"conn", "kdf", "hash", "begin", "write", "commit", "reply">>)
    BY SMTT(60) DEF Fresh, WellFormed, Rule, Good, From, Steps, StepNames
<1>7. Fresh(<<"conn", "kdf", "hash", "note", "end">>)
    BY SMTT(60) DEF Fresh, WellFormed, Rule, Good, From, Steps, StepNames
<1>8. Fresh(<<"conn", "begin", "write", "commit", "note", "reply">>)
    BY SMTT(60) DEF Fresh, WellFormed, Rule, Good, From, Steps, StepNames
<1>9. Fresh(<<"conn", "begin", "write", "commit", "token", "reply">>)
    BY SMTT(60) DEF Fresh, WellFormed, Rule, Good, From, Steps, StepNames
<1>10. Fresh(<<"conn", "begin", "write", "commit", "reply">>)
    BY SMTT(60) DEF Fresh, WellFormed, Rule, Good, From, Steps, StepNames
<1>11. Fresh(<<"conn", "note", "end">>)
    <2> DEFINE q == <<"conn", "note", "end">>
    <2>1. q \in Seq(StepNames) /\ Len(q) = 3
          /\ q[1] = "conn" /\ q[2] = "note" /\ q[3] = "end"
        BY DEF StepNames
    <2> HIDE DEF q
    <2>2. Good(From(q, 1)) /\ Rule(q[1], From(q, 1 + 1))
        BY <2>1 DEF Good, Rule, From
    <2>3. Good(From(q, 2)) /\ Rule(q[2], From(q, 2 + 1))
        BY <2>1 DEF Good, Rule, From
    <2>4. Good(From(q, 3)) /\ Rule(q[3], From(q, 3 + 1))
        BY <2>1 DEF Good, Rule, From
    <2>5. \A i \in 1..3 : Good(From(q, i)) /\ Rule(q[i], From(q, i + 1))
        BY <2>2, <2>3, <2>4
    <2>6. Fresh(q)
        BY <2>1, <2>5 DEF Fresh, WellFormed, Steps, From
    <2>7. QED
        BY <2>6 DEF q
<1>12. Fresh(<<"conn", "end">>)
    BY SMTT(60) DEF Fresh, WellFormed, Rule, Good, From, Steps, StepNames
<1>13. QED
    BY <1>1, <1>2, <1>3, <1>4, <1>5, <1>6, <1>7, <1>8, <1>9, <1>10, <1>11, <1>12, Zenon DEF Plans
-----------------------------------------------------------------------------
(***************************************************************************)
(* Steps of a plan.                                                        *)
(***************************************************************************)
LEMMA TailFacts ==
    ASSUME NEW p, WellFormed(p), p # <<>>
    PROVE  /\ WellFormed(Tail(p))
           /\ Rule(Head(p), Steps(Tail(p)))
           /\ Good(Steps(p))
           /\ Steps(p) = Steps(Tail(p)) \cup {Head(p)}
           /\ Tail(p) = <<>> <=> Steps(Tail(p)) = {}
<1>1. /\ p \in Seq(StepNames) /\ Len(p) \in Nat \ {0}
      /\ Tail(p) \in Seq(StepNames) /\ Len(Tail(p)) = Len(p) - 1
      /\ Head(p) = p[1]
      /\ \A i \in 1..Len(p) - 1 : Tail(p)[i] = p[i + 1]
    BY DEF WellFormed
<1> DEFINE q == Tail(p)
<1> HIDE DEF q
<1>2. /\ q \in Seq(StepNames) /\ Len(q) = Len(p) - 1
      /\ \A i \in 1..Len(q) : q[i] = p[i + 1]
    BY <1>1 DEF q
<1>3. ASSUME NEW i \in Nat \ {0}
      PROVE  From(q, i) = From(p, i + 1)
    <2>1. ASSUME NEW x \in From(q, i)
          PROVE  x \in From(p, i + 1)
        <3>1. PICK k \in i..Len(q) : x = q[k]
            BY <2>1 DEF From
        <3>2. k + 1 \in i + 1..Len(p) /\ x = p[k + 1]
            BY <1>1, <1>2, <3>1
        <3>3. QED
            BY <3>2 DEF From
    <2>2. ASSUME NEW x \in From(p, i + 1)
          PROVE  x \in From(q, i)
        <3>1. PICK k \in i + 1..Len(p) : x = p[k]
            BY <2>2 DEF From
        <3> DEFINE j == k - 1
        <3>2. j \in i..Len(q) /\ j + 1 = k
            BY <1>1, <1>2, <3>1
        <3> HIDE DEF j
        <3>3. x = q[j]
            BY <1>1, <1>2, <3>1, <3>2
        <3>4. QED
            BY <3>2, <3>3 DEF From
    <2>3. QED
        BY <2>1, <2>2, ZenonT(30)
<1>4. Steps(q) = From(p, 2)
    BY <1>3 DEF Steps
<1>5. WellFormed(q)
    <2>1. ASSUME NEW i \in 1..Len(q)
          PROVE  Good(From(q, i)) /\ Rule(q[i], From(q, i + 1))
        <3> DEFINE k == i + 1
        <3>1. k \in 1..Len(p) /\ i \in Nat \ {0} /\ k \in Nat \ {0}
            BY <1>1, <1>2
        <3>2. From(q, i) = From(p, k) /\ From(q, i + 1) = From(p, k + 1) /\ q[i] = p[k]
            BY <1>2, <1>3, <3>1, ZenonT(30)
        <3> HIDE DEF k
        <3>3. Good(From(p, k)) /\ Rule(p[k], From(p, k + 1))
            BY <3>1 DEF WellFormed
        <3>4. QED
            BY <3>2, <3>3
    <2>2. QED
        BY <1>2, <2>1 DEF WellFormed
<1>6. Good(From(p, 1)) /\ Rule(p[1], From(p, 1 + 1))
    BY <1>1 DEF WellFormed
<1>7. From(p, 1) = From(p, 2) \cup {p[1]}
    BY <1>1 DEF From
<1>8. q = <<>> <=> Steps(q) = {}
    BY <1>2 DEF Steps, From
<1>9. QED
    BY <1>1, <1>4, <1>5, <1>6, <1>7, <1>8 DEF q, Steps

LEMMA EmptyPlan == WellFormed(<<>>) /\ Steps(<<>>) = {}
BY DEF WellFormed, Steps, From, StepNames

LEMMA NoSteps ==
    ASSUME NEW p, WellFormed(p)
    PROVE  p = <<>> <=> Steps(p) = {}
<1>1. p # <<>> => Head(p) \in Steps(p)
    BY TailFacts
<1>2. QED
    BY <1>1, EmptyPlan
-----------------------------------------------------------------------------
(***************************************************************************)
(* The inductive invariant.                                                *)
(***************************************************************************)
St(w) == Steps(plan[w])

InTxn(w) == "begin" \notin St(w) /\ ("commit" \in St(w) \/ "undo" \in St(w))

\* A connection is in the stack once, or in the hands of one worker.
Exclusive ==
    /\ \A i, k \in 1..Len(free_stack) : free_stack[i] = free_stack[k] => i = k
    /\ \A i \in 1..Len(free_stack), w \in Workers : conn[w] # free_stack[i]
    /\ \A v, w \in Workers : conn[v] = conn[w] /\ conn[v] # None => v = w
    /\ \A c \in conns :
          \/ \E i \in 1..Len(free_stack) : free_stack[i] = c
          \/ \E w \in Workers : conn[w] = c

\* What a worker holds.
Holdings ==
    \A w \in Workers :
        /\ WellFormed(plan[w])
        /\ conn[w] = None <=> plan[w] = <<>> \/ "conn" \in St(w)
        /\ w \in kdf <=> "hash" \in St(w) /\ "kdf" \notin St(w)

\* The write lock is with the worker inside a transaction, if there is one,
\* and what was left pending by an answered request is never committed.
Transactions ==
    /\ \A w \in Workers : InTxn(w) => writer = conn[w]
    /\ \A w \in Workers :
          w \in wrote <=> InTxn(w) /\ "commit" \in St(w) /\ "write" \notin St(w)
    /\ Gone \in wrote => writer # None /\ \A w \in Workers : ~InTxn(w)
    /\ \A w \in Workers :
          plan[w] # <<>> => (w \in saved <=> "reply" \in St(w) /\ "commit" \notin St(w))
    /\ AnswersTruthful

IInv ==
    /\ TypeOK /\ IsFiniteSet(conns)
    /\ Exclusive /\ Holdings /\ Transactions
    /\ sem + Cardinality(kdf) = KdfSlots

LEMMA InitIInv == Init => IInv /\ sleeping = {}
<1> SUFFICES ASSUME Init
             PROVE  IInv
    BY DEF Init
<1> DEFINE n == Cardinality(conns)
<1>1. conns \subseteq Conns /\ IsFiniteSet(conns) /\ n \in Nat
    BY ResourcesAssumption, FS_Subset, FS_CardinalityType DEF Init
<1>2. free_stack \in [1..n -> conns] /\ \A c \in conns : \E i \in 1..n : free_stack[i] = c
    BY <1>1 DEF Init
<1>3. free_stack \in Seq(conns) /\ Len(free_stack) = n
    BY <1>1, <1>2
<1>4. \A w \in Workers : conn[w] = None /\ plan[w] = <<>> /\ St(w) = {}
    BY EmptyPlan DEF Init, St
<1>5. TypeOK
    <2>1. /\ conn \in [Workers -> conns \cup {None}]
          /\ plan \in [Workers -> Seq(StepNames)]
        BY DEF Init
    <2>2. answer \in [Workers -> {"none", "done", "failed", "late"}]
        BY DEF Init
    <2>3. QED
        BY <1>1, <1>3, <2>1, <2>2, ResourcesAssumption DEF Init, TypeOK, StepNames
<1>6. Exclusive
    <2>1. free_stack \in Injection(1..n, conns)
        <3>1. free_stack \in Surjection(1..n, conns)
            BY <1>2 DEF Surjection
        <3>2. IsFiniteSet(1..n) /\ Cardinality(1..n) = n
            BY <1>1, FS_Interval
        <3> HIDE DEF n
        <3>3. QED
            BY <3>1, <3>2, FS_SurjSameCardinalityImpliesInj DEF n
    <2>2. \A i, k \in 1..n : free_stack[i] = free_stack[k] => i = k
        BY <2>1, <1>2 DEF Injection, IsInjective
    <2>3. None \notin conns
        BY <1>1, ResourcesAssumption
    <2>4. QED
        BY <1>2, <1>3, <1>4, <2>2, <2>3 DEF Exclusive
<1>7. Holdings
    BY <1>4, EmptyPlan DEF Holdings, Init
<1>8. Transactions
    BY <1>4, ResourcesAssumption DEF Transactions, AnswersTruthful, InTxn, Init
<1>9. sem + Cardinality(kdf) = KdfSlots
    BY ResourcesAssumption, FS_EmptySet DEF Init
<1>10. QED
    BY <1>1, <1>5, <1>6, <1>7, <1>8, <1>9 DEF IInv
-----------------------------------------------------------------------------
(***************************************************************************)
(* What one worker's step does to its plan and to its connection.          *)
(***************************************************************************)
LEMMA MoveFacts ==
    ASSUME IInv, NEW w \in Workers, plan[w] # <<>>, Proceed(w)
    PROVE  /\ WellFormed(plan'[w]) /\ Rule(Head(plan[w]), St(w)') /\ Good(St(w))
           /\ St(w) = St(w)' \cup {Head(plan[w])}
           /\ plan'[w] = <<>> <=> St(w)' = {}
           /\ \A v \in Workers \ {w} : plan'[v] = plan[v] /\ St(v)' = St(v)
           /\ plan' \in [Workers -> Seq(StepNames)] /\ UNCHANGED conns
<1>1. plan \in [Workers -> Seq(StepNames)] /\ WellFormed(plan[w])
    BY DEF IInv, TypeOK, StepNames, Holdings
<1>2. /\ plan'[w] = Tail(plan[w]) /\ \A v \in Workers \ {w} : plan'[v] = plan[v]
      /\ UNCHANGED conns
    BY <1>1 DEF Proceed
<1>3. /\ WellFormed(plan'[w]) /\ Rule(Head(plan[w]), Steps(plan'[w])) /\ Good(Steps(plan[w]))
      /\ Steps(plan[w]) = Steps(plan'[w]) \cup {Head(plan[w])}
      /\ plan'[w] = <<>> <=> Steps(plan'[w]) = {}
    BY <1>1, <1>2, TailFacts
<1>4. plan' \in [Workers -> Seq(StepNames)]
    BY <1>1, <1>2, <1>3 DEF Proceed, WellFormed
<1>5. QED
    BY <1>2, <1>3, <1>4 DEF St

LEMMA StopFacts ==
    ASSUME IInv, NEW w \in Workers, plan[w] # <<>>, NEW told, Stop(w, told)
    PROVE  /\ Good(St(w)) /\ \E L : Rule(Head(plan[w]), L) /\ St(w) = L \cup {Head(plan[w])}
           /\ plan'[w] = <<>> /\ St(w)' = {} /\ WellFormed(plan'[w])
           /\ \A v \in Workers \ {w} : plan'[v] = plan[v] /\ St(v)' = St(v)
           /\ plan' \in [Workers -> Seq(StepNames)] /\ UNCHANGED conns
           /\ answer'[w] = told /\ \A v \in Workers \ {w} : answer'[v] = answer[v]
<1>1. plan \in [Workers -> Seq(StepNames)] /\ WellFormed(plan[w])
    BY DEF IInv, TypeOK, StepNames, Holdings
<1>2. /\ plan'[w] = <<>> /\ \A v \in Workers \ {w} : plan'[v] = plan[v]
      /\ plan' \in [Workers -> Seq(StepNames)] /\ UNCHANGED conns
    BY <1>1 DEF Stop
<1>3. Good(Steps(plan[w])) /\ Rule(Head(plan[w]), Steps(Tail(plan[w])))
      /\ Steps(plan[w]) = Steps(Tail(plan[w])) \cup {Head(plan[w])}
    BY <1>1, TailFacts
<1>4. answer'[w] = told /\ \A v \in Workers \ {w} : answer'[v] = answer[v]
    BY DEF Stop, IInv, TypeOK
<1>5. St(w)' = {} /\ WellFormed(plan'[w])
    BY <1>2, EmptyPlan DEF St
<1>6. QED
    BY <1>2, <1>3, <1>4, <1>5 DEF St

LEMMA ExclusiveFacts ==
    ASSUME IInv
    PROVE  /\ free_stack \in Seq(conns) /\ conn \in [Workers -> conns \cup {None}]
           /\ Len(free_stack) \in Nat /\ None \notin conns
BY ResourcesAssumption DEF IInv, TypeOK

\* ps_db_pool_acquire takes the top of the stack.
LEMMA AcquireExclusive ==
    ASSUME IInv, NEW w \in Workers, Acquire(w)
    PROVE  /\ Exclusive'
           /\ free_stack' \in Seq(conns) /\ Len(free_stack') = Len(free_stack) - 1
           /\ conn' \in [Workers -> conns \cup {None}] /\ conn'[w] # None
           /\ \A v \in Workers \ {w} : conn'[v] = conn[v]
<1> DEFINE n == Len(free_stack)
<1>1. /\ free_stack \in Seq(conns) /\ conn \in [Workers -> conns \cup {None}]
      /\ n \in Nat \ {0} /\ None \notin conns
      /\ conn' = [conn EXCEPT ![w] = free_stack[n]] /\ UNCHANGED conns
      /\ free_stack' = SubSeq(free_stack, 1, n - 1)
    BY ExclusiveFacts DEF Acquire, Pop, Proceed
<1>2. /\ free_stack' \in Seq(conns) /\ Len(free_stack') = n - 1
      /\ \A i \in 1..n - 1 : free_stack'[i] = free_stack[i]
    <2> DEFINE m == n - 1
    <2>1. m \in Nat /\ \A i \in 1..m : free_stack[i] \in conns
        BY <1>1
    <2>2. free_stack' = SubSeq(free_stack, 1, m)
        BY <1>1
    <2> HIDE DEF m
    <2>3. /\ free_stack' \in Seq(conns) /\ Len(free_stack') = m
          /\ \A i \in 1..m : free_stack'[i] = free_stack[i]
        BY <2>1, <2>2
    <2>4. QED
        BY <2>3 DEF m
<1>3. free_stack[n] \in conns
    BY <1>1
<1>4. conn[w] = None
    <2>1. plan[w] # <<>> /\ Head(plan[w]) = "conn" /\ Proceed(w)
        BY DEF Acquire, Busy
    <2>2. "conn" \in St(w)
        BY <2>1, MoveFacts
    <2>3. QED
        BY <2>2 DEF IInv, Holdings
<1>5. /\ conn' \in [Workers -> conns \cup {None}] /\ conn'[w] = free_stack[n]
      /\ \A v \in Workers \ {w} : conn'[v] = conn[v]
    BY <1>1, <1>3
<1>6. Exclusive'
    <2> HIDE DEF n
    <2>1. \A i, k \in 1..Len(free_stack') : free_stack'[i] = free_stack'[k] => i = k
        BY <1>1, <1>2 DEF IInv, Exclusive, n
    <2>2. \A i \in 1..Len(free_stack'), v \in Workers : conn'[v] # free_stack'[i]
        BY <1>1, <1>2, <1>5 DEF IInv, Exclusive, n
    <2>3. \A v, u \in Workers : conn'[v] = conn'[u] /\ conn'[v] # None => v = u
        BY <1>1, <1>5 DEF IInv, Exclusive, n
    <2>4. ASSUME NEW c \in conns
          PROVE  \/ \E i \in 1..Len(free_stack') : free_stack'[i] = c
                 \/ \E v \in Workers : conn'[v] = c
        BY <1>1, <1>2, <1>4, <1>5 DEF IInv, Exclusive, n
    <2>5. QED
        BY <1>1, <2>1, <2>2, <2>3, <2>4 DEF Exclusive
<1>7. QED
    BY <1>2, <1>3, <1>5, <1>6, <1>1

\* ps_db_pool_release, on every way out of a handler.
LEMMA GiveBackExclusive ==
    ASSUME IInv, NEW w \in Workers, GiveBack(w), UNCHANGED conns
    PROVE  /\ Exclusive'
           /\ free_stack' \in Seq(conns)
           /\ conn' \in [Workers -> conns \cup {None}] /\ conn'[w] = None
           /\ \A v \in Workers \ {w} : conn'[v] = conn[v]
           /\ sleeping' \subseteq sleeping
<1>1. /\ free_stack \in Seq(conns) /\ conn \in [Workers -> conns \cup {None}]
      /\ Len(free_stack) \in Nat /\ None \notin conns
    BY ExclusiveFacts
<1>2. CASE conn[w] = None
    BY <1>1, <1>2 DEF GiveBack, Release, IInv, Exclusive
<1>3. CASE conn[w] # None
    <2> DEFINE n == Len(free_stack) + 1
    <2>1. /\ free_stack' = Append(free_stack, conn[w]) /\ conn[w] \in conns
          /\ conn' = [conn EXCEPT ![w] = None]
          /\ sleeping' \subseteq sleeping
        BY <1>1, <1>3 DEF GiveBack, Release, Signal
    <2>2. /\ free_stack' \in Seq(conns) /\ Len(free_stack') = n
          /\ free_stack'[n] = conn[w]
          /\ \A i \in 1..n - 1 : free_stack'[i] = free_stack[i]
        BY <1>1, <2>1
    <2>3. /\ conn' \in [Workers -> conns \cup {None}] /\ conn'[w] = None
          /\ \A v \in Workers \ {w} : conn'[v] = conn[v]
        BY <1>1, <2>1
    <2>4. n \in Nat \ {0} /\ Len(free_stack) = n - 1
        BY <1>1
    <2> HIDE DEF n
    <2>5. \A i, k \in 1..Len(free_stack') : free_stack'[i] = free_stack'[k] => i = k
        BY <2>2, <2>4 DEF IInv, Exclusive
    <2>6. \A i \in 1..Len(free_stack'), v \in Workers : conn'[v] # free_stack'[i]
        BY <1>1, <1>3, <2>1, <2>2, <2>3, <2>4 DEF IInv, Exclusive
    <2>7. \A v, u \in Workers : conn'[v] = conn'[u] /\ conn'[v] # None => v = u
        BY <2>3 DEF IInv, Exclusive
    <2>8. ASSUME NEW c \in conns
          PROVE  \/ \E i \in 1..Len(free_stack') : free_stack'[i] = c
                 \/ \E v \in Workers : conn'[v] = c
        BY <2>2, <2>3, <2>4 DEF IInv, Exclusive
    <2>9. QED
        BY <2>1, <2>2, <2>3, <2>5, <2>6, <2>7, <2>8 DEF Exclusive
<1>4. QED
    BY <1>2, <1>3
-----------------------------------------------------------------------------
(***************************************************************************)
(* What a worker holds, after a step and after it has returned.            *)
(***************************************************************************)
LEMMA MoveHoldings ==
    ASSUME IInv, NEW w \in Workers, NEW s, Busy(w, s), Proceed(w), s \notin {"reply", "end"},
           \A v \in Workers \ {w} : conn'[v] = conn[v],
           IF s = "conn" THEN conn'[w] # None ELSE conn'[w] = conn[w],
           kdf' = IF s = "kdf" THEN kdf \cup {w} ELSE IF s = "hash" THEN kdf \ {w} ELSE kdf
    PROVE  Holdings'
<1>1. plan[w] # <<>> /\ Head(plan[w]) = s
    BY DEF Busy
<1>2. /\ WellFormed(plan'[w]) /\ Rule(s, St(w)') /\ Good(St(w))
      /\ St(w) = St(w)' \cup {s}
      /\ plan'[w] = <<>> <=> St(w)' = {}
      /\ \A v \in Workers \ {w} : plan'[v] = plan[v] /\ St(v)' = St(v)
    BY <1>1, MoveFacts
<1>3. /\ conn[w] = None <=> "conn" \in St(w)
      /\ w \in kdf <=> "hash" \in St(w) /\ "kdf" \notin St(w)
    BY <1>1 DEF IInv, Holdings
<1>4. conn'[w] = None <=> plan'[w] = <<>> \/ "conn" \in St(w)'
    BY <1>2, <1>3 DEF Rule
<1>5. w \in kdf' <=> "hash" \in St(w)' /\ "kdf" \notin St(w)'
    BY <1>2, <1>3 DEF Rule, Good
<1>6. \A v \in Workers \ {w} : /\ WellFormed(plan'[v])
                               /\ conn'[v] = None <=> plan'[v] = <<>> \/ "conn" \in St(v)'
                               /\ v \in kdf' <=> "hash" \in St(v)' /\ "kdf" \notin St(v)'
    BY <1>2 DEF IInv, Holdings
<1>7. QED
    BY <1>2, <1>4, <1>5, <1>6 DEF Holdings

LEMMA StopHoldings ==
    ASSUME IInv, NEW w \in Workers, NEW s, Busy(w, s), s # "conn", NEW told, Stop(w, told),
           conn'[w] = None, \A v \in Workers \ {w} : conn'[v] = conn[v],
           kdf' = IF s = "hash" THEN kdf \ {w} ELSE kdf
    PROVE  Holdings'
<1>1. plan[w] # <<>> /\ Head(plan[w]) = s
    BY DEF Busy
<1>2. /\ plan'[w] = <<>> /\ St(w)' = {} /\ WellFormed(plan'[w])
      /\ \A v \in Workers \ {w} : plan'[v] = plan[v] /\ St(v)' = St(v)
    BY <1>1, StopFacts
<1>3. PICK L : Rule(s, L) /\ St(w) = L \cup {s}
    BY <1>1, StopFacts
<1>4. w \notin kdf'
    BY <1>3 DEF IInv, Holdings, Rule
<1>5. \A v \in Workers \ {w} : /\ WellFormed(plan'[v])
                               /\ conn'[v] = None <=> plan'[v] = <<>> \/ "conn" \in St(v)'
                               /\ v \in kdf' <=> "hash" \in St(v)' /\ "kdf" \notin St(v)'
    BY <1>2 DEF IInv, Holdings
<1>6. QED
    BY <1>2, <1>4, <1>5 DEF Holdings
-----------------------------------------------------------------------------
(***************************************************************************)
(* The transaction.                                                        *)
(***************************************************************************)
\* Whoever is inside a transaction is there alone.
LEMMA TxnAlone ==
    ASSUME IInv, NEW w \in Workers, InTxn(w)
    PROVE  /\ plan[w] # <<>> /\ conn[w] # None /\ writer = conn[w]
           /\ Gone \notin wrote
           /\ \A v \in Workers \ {w} : ~InTxn(v) /\ v \notin wrote
<1>1. ASSUME NEW v \in Workers, InTxn(v)
      PROVE  plan[v] # <<>> /\ conn[v] # None /\ writer = conn[v]
    <2>1. WellFormed(plan[v]) /\ St(v) # {}
        BY <1>1 DEF IInv, Holdings, InTxn
    <2>2. plan[v] # <<>> /\ Good(St(v))
        BY <2>1, NoSteps, TailFacts DEF St
    <2>3. "conn" \notin St(v)
        BY <1>1, <2>2 DEF InTxn, Good
    <2>4. QED
        BY <1>1, <2>2, <2>3 DEF IInv, Holdings, Transactions
<1>2. \A v \in Workers \ {w} : ~InTxn(v)
    BY <1>1 DEF IInv, Exclusive
<1>3. QED
    BY <1>1, <1>2 DEF IInv, Transactions

\* Steps that leave the database alone.
LEMMA QuietMove ==
    ASSUME IInv, NEW w \in Workers, NEW s \in {"conn", "kdf", "hash", "token"}, Busy(w, s),
           Proceed(w), UNCHANGED <<writer, wrote, saved, answer>>,
           \A v \in Workers \ {w} : conn'[v] = conn[v],
           s # "conn" => conn'[w] = conn[w]
    PROVE  Transactions'
<1>1. plan[w] # <<>> /\ Head(plan[w]) = s
    BY DEF Busy
<1>2. /\ Rule(s, St(w)') /\ Good(St(w)) /\ St(w) = St(w)' \cup {s}
      /\ plan'[w] = <<>> <=> St(w)' = {}
      /\ \A v \in Workers \ {w} : plan'[v] = plan[v] /\ St(v)' = St(v)
    BY <1>1, MoveFacts
<1>3. /\ InTxn(w)' <=> InTxn(w)
      /\ \A x \in {"reply", "commit", "write"} : x \in St(w)' <=> x \in St(w)
      /\ s = "conn" => ~InTxn(w)
      /\ plan'[w] # <<>>
    BY <1>2 DEF InTxn, Good, Rule
<1>4. \A v \in Workers \ {w} : InTxn(v)' <=> InTxn(v)
    BY <1>2 DEF InTxn
<1>5. \A v \in Workers : InTxn(v)' => writer' = conn'[v]
    BY <1>3, <1>4 DEF IInv, Transactions
<1>6. \A v \in Workers :
          v \in wrote' <=> InTxn(v)' /\ "commit" \in St(v)' /\ "write" \notin St(v)'
    BY <1>2, <1>3, <1>4 DEF IInv, Transactions
<1>7. Gone \in wrote' => writer' # None /\ \A v \in Workers : ~InTxn(v)'
    BY <1>3, <1>4 DEF IInv, Transactions
<1>8. \A v \in Workers :
          plan'[v] # <<>> => (v \in saved' <=> "reply" \in St(v)' /\ "commit" \notin St(v)')
    BY <1>1, <1>2, <1>3 DEF IInv, Transactions
<1>9. AnswersTruthful'
    BY <1>2, <1>3 DEF IInv, Transactions, AnswersTruthful
<1>10. QED
    BY <1>5, <1>6, <1>7, <1>8, <1>9 DEF Transactions

LEMMA QuietStop ==
    ASSUME IInv, NEW w \in Workers,
           NEW s \in {"kdf", "hash", "begin", "token", "reply", "end"}, Busy(w, s),
           Stop(w, IF s = "reply" THEN "done" ELSE IF s = "end" THEN "none"
                   ELSE IF s = "token" THEN "late" ELSE "failed"),
           UNCHANGED <<writer, wrote, saved>>, \A v \in Workers \ {w} : conn'[v] = conn[v]
    PROVE  Transactions'
<1> DEFINE told == IF s = "reply" THEN "done" ELSE IF s = "end" THEN "none"
                   ELSE IF s = "token" THEN "late" ELSE "failed"
<1>1. plan[w] # <<>> /\ Head(plan[w]) = s
    BY DEF Busy
<1>2. /\ Good(St(w))
      /\ plan'[w] = <<>> /\ St(w)' = {}
      /\ \A v \in Workers \ {w} : plan'[v] = plan[v] /\ St(v)' = St(v)
      /\ answer'[w] = told /\ \A v \in Workers \ {w} : answer'[v] = answer[v]
    BY <1>1, StopFacts
<1>3. PICK L : Rule(s, L) /\ St(w) = L \cup {s}
    BY <1>1, StopFacts
<1>4. /\ ~InTxn(w) /\ ~InTxn(w)' /\ w \notin wrote
      /\ told \in {"done", "late"} => "reply" \in St(w) /\ "commit" \notin St(w)
      /\ told \in {"none", "failed"} => ~("reply" \in St(w) /\ "commit" \notin St(w))
    <2>1. ~InTxn(w)
        BY <1>2, <1>3 DEF InTxn, Good, Rule
    <2>2. ~InTxn(w)'
        BY <1>2 DEF InTxn
    <2>3. w \notin wrote
        BY <2>1 DEF IInv, Transactions
    <2>4. /\ told \in {"done", "late"} => "reply" \in St(w) /\ "commit" \notin St(w)
          /\ told \in {"none", "failed"} => ~("reply" \in St(w) /\ "commit" \notin St(w))
        BY <1>3 DEF Rule
    <2>5. QED
        BY <2>1, <2>2, <2>3, <2>4
<1> HIDE DEF told
<1>5. \A v \in Workers \ {w} : InTxn(v)' <=> InTxn(v)
    BY <1>2 DEF InTxn
<1>6. \A v \in Workers : InTxn(v)' => writer' = conn'[v]
    BY <1>4, <1>5 DEF IInv, Transactions
<1>7. \A v \in Workers :
          v \in wrote' <=> InTxn(v)' /\ "commit" \in St(v)' /\ "write" \notin St(v)'
    BY <1>2, <1>4, <1>5 DEF IInv, Transactions
<1>8. Gone \in wrote' => writer' # None /\ \A v \in Workers : ~InTxn(v)'
    BY <1>4, <1>5 DEF IInv, Transactions
<1>9. \A v \in Workers :
          plan'[v] # <<>> => (v \in saved' <=> "reply" \in St(v)' /\ "commit" \notin St(v)')
    BY <1>2 DEF IInv, Transactions
<1>10. AnswersTruthful'
    BY <1>1, <1>2, <1>4 DEF IInv, Transactions, AnswersTruthful
<1>11. QED
    BY <1>6, <1>7, <1>8, <1>9, <1>10 DEF Transactions

LEMMA BeginTxn ==
    ASSUME IInv, NEW w \in Workers, Begin(w)
    PROVE  Transactions'
<1>1. /\ plan[w] # <<>> /\ Head(plan[w]) = "begin" /\ Proceed(w)
      /\ writer = None /\ writer' = conn[w] /\ UNCHANGED <<conn, wrote, saved, answer>>
    BY DEF Begin, Busy, inTransaction
<1>2. /\ Rule("begin", St(w)') /\ Good(St(w)) /\ St(w) = St(w)' \cup {"begin"}
      /\ plan'[w] = <<>> <=> St(w)' = {}
      /\ \A v \in Workers \ {w} : plan'[v] = plan[v] /\ St(v)' = St(v)
    BY <1>1, MoveFacts
<1>3. \A v \in Workers : ~InTxn(v) /\ v \notin wrote
    BY <1>1, TxnAlone DEF IInv, Transactions
<1>4. Gone \notin wrote
    BY <1>1 DEF IInv, Transactions
<1>5. /\ plan'[w] # <<>>
      /\ ~("commit" \in St(w)' /\ "write" \notin St(w)')
      /\ "reply" \in St(w)' <=> "reply" \in St(w)
      /\ "commit" \in St(w)' <=> "commit" \in St(w)
    BY <1>2 DEF Rule, Good
<1>6. \A v \in Workers \ {w} : ~InTxn(v)'
    BY <1>2, <1>3 DEF InTxn
<1>7. \A v \in Workers : InTxn(v)' => writer' = conn'[v]
    BY <1>1, <1>6
<1>8. \A v \in Workers :
          v \in wrote' <=> InTxn(v)' /\ "commit" \in St(v)' /\ "write" \notin St(v)'
    BY <1>1, <1>3, <1>5, <1>6
<1>9. \A v \in Workers :
          plan'[v] # <<>> => (v \in saved' <=> "reply" \in St(v)' /\ "commit" \notin St(v)')
    BY <1>1, <1>2, <1>5 DEF IInv, Transactions
<1>10. AnswersTruthful'
    BY <1>1, <1>2, <1>5 DEF IInv, Transactions, AnswersTruthful
<1>11. QED
    BY <1>1, <1>4, <1>7, <1>8, <1>9, <1>10 DEF Transactions

LEMMA WriteTxn ==
    ASSUME IInv, NEW w \in Workers, Write(w)
    PROVE  Transactions'
<1>1. /\ plan[w] # <<>> /\ Head(plan[w]) = "write" /\ Proceed(w)
      /\ wrote' = wrote \cup {w} /\ UNCHANGED <<conn, writer, saved, answer>>
    BY DEF Write, Busy, inTransaction
<1>2. /\ Rule("write", St(w)') /\ Good(St(w)) /\ St(w) = St(w)' \cup {"write"}
      /\ plan'[w] = <<>> <=> St(w)' = {}
      /\ \A v \in Workers \ {w} : plan'[v] = plan[v] /\ St(v)' = St(v)
    BY <1>1, MoveFacts
<1>3. /\ plan'[w] # <<>> /\ InTxn(w) /\ InTxn(w)'
      /\ "commit" \in St(w)' /\ "write" \notin St(w)' /\ "commit" \in St(w)
    BY <1>2 DEF Rule, InTxn
<1>4. \A v \in Workers \ {w} : ~InTxn(v)' /\ v \notin wrote
    BY <1>2, <1>3, TxnAlone DEF InTxn
<1>5. Gone \notin wrote' /\ writer = conn[w]
    BY <1>1, <1>3, TxnAlone, ResourcesAssumption
<1>6. \A v \in Workers : InTxn(v)' => writer' = conn'[v]
    BY <1>1, <1>4, <1>5
<1>7. \A v \in Workers :
          v \in wrote' <=> InTxn(v)' /\ "commit" \in St(v)' /\ "write" \notin St(v)'
    BY <1>1, <1>3, <1>4
<1>8. \A v \in Workers :
          plan'[v] # <<>> => (v \in saved' <=> "reply" \in St(v)' /\ "commit" \notin St(v)')
    BY <1>1, <1>2, <1>3 DEF IInv, Transactions
<1>9. AnswersTruthful'
    BY <1>1, <1>2, <1>3 DEF IInv, Transactions, AnswersTruthful
<1>10. QED
    BY <1>5, <1>6, <1>7, <1>8, <1>9 DEF Transactions

\* ROLLBACK and COMMIT leave nobody inside a transaction.
LEMMA UndoTxn ==
    ASSUME IInv, NEW w \in Workers, Undo(w)
    PROVE  Transactions'
<1>1. /\ plan[w] # <<>> /\ Head(plan[w]) = "undo" /\ Proceed(w)
      /\ writer' = None /\ wrote' = {} /\ UNCHANGED <<conn, saved, answer>>
    BY DEF Undo, Rollback, Busy, inTransaction
<1>2. /\ Rule("undo", St(w)') /\ Good(St(w)) /\ St(w) = St(w)' \cup {"undo"}
      /\ plan'[w] = <<>> <=> St(w)' = {}
      /\ \A v \in Workers \ {w} : plan'[v] = plan[v] /\ St(v)' = St(v)
    BY <1>1, MoveFacts
<1>3. /\ plan'[w] # <<>> /\ InTxn(w) /\ ~InTxn(w)'
      /\ "reply" \notin St(w)' /\ "reply" \notin St(w)
    BY <1>2 DEF Rule, InTxn
<1>4. \A v \in Workers : ~InTxn(v)'
    BY <1>2, <1>3, TxnAlone DEF InTxn
<1>5. \A v \in Workers :
          plan'[v] # <<>> => (v \in saved' <=> "reply" \in St(v)' /\ "commit" \notin St(v)')
    BY <1>1, <1>2, <1>3 DEF IInv, Transactions
<1>6. AnswersTruthful'
    BY <1>1, <1>2, <1>3 DEF IInv, Transactions, AnswersTruthful
<1>7. QED
    BY <1>1, <1>4, <1>5, <1>6 DEF Transactions

LEMMA CommitTxn ==
    ASSUME IInv, NEW w \in Workers, Commit(w)
    PROVE  Transactions'
<1>1. /\ plan[w] # <<>> /\ Head(plan[w]) = "commit" /\ Proceed(w)
      /\ saved' = saved \cup wrote
      /\ writer' = None /\ wrote' = {} /\ UNCHANGED <<conn, answer>>
    BY DEF Commit, Busy, inTransaction
<1>2. /\ Rule("commit", St(w)') /\ Good(St(w)) /\ St(w) = St(w)' \cup {"commit"}
      /\ plan'[w] = <<>> <=> St(w)' = {}
      /\ \A v \in Workers \ {w} : plan'[v] = plan[v] /\ St(v)' = St(v)
    BY <1>1, MoveFacts
<1>3. /\ plan'[w] # <<>> /\ InTxn(w) /\ ~InTxn(w)'
      /\ "reply" \in St(w)' /\ "commit" \notin St(w)' /\ w \in wrote
    BY <1>2 DEF Rule, InTxn, IInv, Transactions
<1>4. /\ \A v \in Workers \ {w} : ~InTxn(v)' /\ v \notin wrote
      /\ Gone \notin wrote
    BY <1>2, <1>3, TxnAlone DEF InTxn
<1>5. \A v \in Workers :
          plan'[v] # <<>> => (v \in saved' <=> "reply" \in St(v)' /\ "commit" \notin St(v)')
    BY <1>1, <1>2, <1>3, <1>4 DEF IInv, Transactions
<1>6. AnswersTruthful'
    BY <1>1, <1>2, <1>3, <1>4 DEF IInv, Transactions, AnswersTruthful
<1>7. QED
    BY <1>1, <1>3, <1>4, <1>5, <1>6 DEF Transactions

\* A statement that joins an abandoned transaction is not committed either.
LEMMA NoteTxn ==
    ASSUME IInv, NEW w \in Workers, Note(w)
    PROVE  Transactions'
<1>1. /\ plan[w] # <<>> /\ Head(plan[w]) = "note" /\ Proceed(w)
      /\ wrote' = IF writer = conn[w] THEN wrote \cup {Gone} ELSE wrote
      /\ UNCHANGED <<conn, writer, saved, answer>>
    BY DEF Note, Busy, inTransaction
<1>2. /\ Rule("note", St(w)') /\ Good(St(w)) /\ St(w) = St(w)' \cup {"note"}
      /\ plan'[w] = <<>> <=> St(w)' = {}
      /\ \A v \in Workers \ {w} : plan'[v] = plan[v] /\ St(v)' = St(v)
    BY <1>1, MoveFacts
<1>3. /\ plan'[w] # <<>> /\ ~InTxn(w) /\ ~InTxn(w)' /\ "conn" \notin St(w)
      /\ "reply" \in St(w)' <=> "reply" \in St(w)
      /\ "commit" \notin St(w)' /\ "commit" \notin St(w)
    BY <1>2 DEF Rule, InTxn
<1>4. \A v \in Workers : InTxn(v)' <=> InTxn(v)
    BY <1>2, <1>3 DEF InTxn
<1>5. conn[w] # None
    BY <1>1, <1>3 DEF IInv, Holdings
<1>6. writer = conn[w] => \A v \in Workers : ~InTxn(v)
    BY <1>3, <1>5, TxnAlone DEF IInv, Exclusive
<1>7. \A v \in Workers : InTxn(v)' => writer' = conn'[v]
    BY <1>1, <1>4 DEF IInv, Transactions
<1>8. ASSUME NEW v \in Workers
      PROVE  v \in wrote' <=> InTxn(v)' /\ "commit" \in St(v)' /\ "write" \notin St(v)'
    <2>1. v # Gone
        BY ResourcesAssumption
    <2>2. v \in wrote' <=> v \in wrote
        BY <1>1, <2>1
    <2>3. v \in wrote <=> InTxn(v) /\ "commit" \in St(v) /\ "write" \notin St(v)
        BY DEF IInv, Transactions
    <2>4. v = w \/ St(v)' = St(v)
        BY <1>2
    <2>5. QED
        BY <1>3, <1>4, <2>2, <2>3, <2>4
<1>9. Gone \in wrote' => writer' # None /\ \A v \in Workers : ~InTxn(v)'
    BY <1>1, <1>4, <1>5, <1>6 DEF IInv, Transactions
<1>10. \A v \in Workers :
          plan'[v] # <<>> => (v \in saved' <=> "reply" \in St(v)' /\ "commit" \notin St(v)')
    BY <1>1, <1>2, <1>3 DEF IInv, Transactions
<1>11. AnswersTruthful'
    BY <1>1, <1>2, <1>3 DEF IInv, Transactions, AnswersTruthful
<1>12. QED
    BY <1>7, <1>8, <1>9, <1>10, <1>11 DEF Transactions

\* A statement or the COMMIT fails: the lock is free, or it stays with a
\* connection that no request inside a transaction holds.
LEMMA FailTxn ==
    ASSUME IInv, NEW w \in Workers, NEW s \in {"write", "commit"}, Busy(w, s),
           Stop(w, "failed"), UNCHANGED saved,
           \/ writer' = None /\ wrote' = {}
           \/ s = "commit" /\ UNCHANGED writer /\ wrote' = (wrote \ {w}) \cup {Gone}
    PROVE  Transactions'
<1>1. plan[w] # <<>> /\ Head(plan[w]) = s
    BY DEF Busy
<1>2. /\ plan'[w] = <<>> /\ St(w)' = {}
      /\ \A v \in Workers \ {w} : plan'[v] = plan[v] /\ St(v)' = St(v)
      /\ answer'[w] = "failed" /\ \A v \in Workers \ {w} : answer'[v] = answer[v]
    BY <1>1, StopFacts
<1>3. PICK L : Rule(s, L) /\ St(w) = L \cup {s}
    BY <1>1, StopFacts
<1>4. InTxn(w) /\ "commit" \in St(w) /\ ~InTxn(w)'
    BY <1>2, <1>3 DEF Rule, InTxn
<1>5. /\ writer = conn[w] /\ conn[w] # None
      /\ \A v \in Workers \ {w} : ~InTxn(v) /\ v \notin wrote
    BY <1>4, TxnAlone
<1>6. \A v \in Workers : ~InTxn(v)'
    BY <1>2, <1>4, <1>5 DEF InTxn
<1>7. \A v \in Workers : v \notin wrote'
    BY <1>5, ResourcesAssumption
<1>8. Gone \in wrote' => writer' # None
    BY <1>5
<1>9. \A v \in Workers :
          plan'[v] # <<>> => (v \in saved' <=> "reply" \in St(v)' /\ "commit" \notin St(v)')
    BY <1>2 DEF IInv, Transactions
<1>10. AnswersTruthful'
    BY <1>1, <1>2, <1>4 DEF IInv, Transactions, AnswersTruthful
<1>11. QED
    BY <1>6, <1>7, <1>8, <1>9, <1>10 DEF Transactions

LEMMA ArriveTxn ==
    ASSUME IInv, NEW w \in Workers, Arrive(w)
    PROVE  Transactions' /\ Holdings'
<1>1. PICK p \in Plans : plan' = [plan EXCEPT ![w] = p]
    BY ZenonT(30) DEF Arrive
<1>2. /\ plan[w] = <<>> /\ saved' = saved \ {w} /\ answer' = [answer EXCEPT ![w] = "none"]
      /\ UNCHANGED <<conn, kdf, writer, wrote>>
    BY DEF Arrive
<1>3. /\ plan'[w] = p /\ Fresh(p) /\ St(w) = {} /\ St(w)' = Steps(p)
      /\ \A v \in Workers \ {w} : plan'[v] = plan[v] /\ St(v)' = St(v)
      /\ \A v \in Workers \ {w} : answer'[v] = answer[v]
    BY <1>1, <1>2, PlansFresh, EmptyPlan DEF St, IInv, TypeOK
<1>4. /\ WellFormed(p) /\ plan'[w] # <<>> /\ "conn" \in St(w)' /\ Good(St(w)')
      /\ "hash" \in St(w)' <=> "kdf" \in St(w)'
      /\ "reply" \in St(w)' <=> "commit" \in St(w)'
    BY <1>3, EmptyPlan, TailFacts DEF Fresh
<1>5. ~InTxn(w) /\ ~InTxn(w)'
    BY <1>3, <1>4 DEF InTxn, Good
<1>6. \A v \in Workers \ {w} : InTxn(v)' <=> InTxn(v)
    BY <1>3 DEF InTxn
<1>7. Holdings'
    BY <1>2, <1>3, <1>4 DEF IInv, Holdings
<1>8. \A v \in Workers : InTxn(v)' => writer' = conn'[v]
    BY <1>2, <1>5, <1>6 DEF IInv, Transactions
<1>9. \A v \in Workers :
          v \in wrote' <=> InTxn(v)' /\ "commit" \in St(v)' /\ "write" \notin St(v)'
    BY <1>2, <1>3, <1>5, <1>6, SMTT(30) DEF IInv, Transactions
<1>10. Gone \in wrote' => writer' # None /\ \A v \in Workers : ~InTxn(v)'
    BY <1>2, <1>5, <1>6, SMTT(30) DEF IInv, Transactions
<1>11. \A v \in Workers :
          plan'[v] # <<>> => (v \in saved' <=> "reply" \in St(v)' /\ "commit" \notin St(v)')
    BY <1>2, <1>3, <1>4, ZenonT(30) DEF IInv, Transactions
<1>12. AnswersTruthful'
    BY <1>2, <1>3, <1>4 DEF IInv, Transactions, AnswersTruthful
<1>13. QED
    BY <1>7, <1>8, <1>9, <1>10, <1>11, <1>12 DEF Transactions
-----------------------------------------------------------------------------
(***************************************************************************)
(* The rest of the state: the sleepers, the slots and the types.           *)
(***************************************************************************)
Answers == {"none", "done", "failed", "late"}

DatabaseOK ==
    /\ writer \in conns \cup {None}
    /\ wrote \subseteq Workers \cup {Gone}
    /\ saved \subseteq Workers \cup {Gone}

Slots == sem \in Nat /\ kdf \subseteq Workers /\ sem + Cardinality(kdf) = KdfSlots

LEMMA Parts == IInv => DatabaseOK /\ Slots
BY DEF IInv, TypeOK, DatabaseOK, Slots

\* A worker with another step before it is not in ps_db_pool_acquire.
LEMMA Awake ==
    ASSUME IInv, NEW w \in Workers, NEW s, Busy(w, s), s # "conn"
    PROVE  w \notin sleeping /\ w \notin Acquiring
BY DEF IInv, TypeOK, Busy, Acquiring

LEMMA StepTypeOK ==
    ASSUME IInv, NEW w \in Workers, w \notin sleeping', UNCHANGED conns,
           plan' \in [Workers -> Seq(StepNames)],
           \A v \in Workers \ {w} : plan'[v] = plan[v],
           free_stack' \in Seq(conns), conn' \in [Workers -> conns \cup {None}],
           sleeping' \subseteq sleeping, Slots', DatabaseOK', answer' \in [Workers -> Answers]
    PROVE  TypeOK'
<1>1. \A v \in sleeping' : v \in Workers /\ Busy(v, "conn")'
    BY DEF IInv, TypeOK, Busy
<1>2. QED
    BY <1>1 DEF IInv, TypeOK, Slots, DatabaseOK, Answers, StepNames

\* ps_kdf_semaphore_try_acquire
LEMMA TakeSlot ==
    ASSUME IInv, NEW w \in Workers, TryAcquireKdf(w)
    PROVE  Slots'
<1>1. w \notin kdf
    <2>1. plan[w] # <<>> /\ Head(plan[w]) = "kdf" /\ Proceed(w)
        BY DEF TryAcquireKdf, Busy
    <2>2. "kdf" \in St(w)
        BY <2>1, MoveFacts
    <2>3. QED
        BY <2>2 DEF IInv, Holdings
<1>2. IsFiniteSet(kdf) /\ kdf \subseteq Workers
    BY ResourcesAssumption, FS_Subset DEF IInv, TypeOK
<1>3. Cardinality(kdf \cup {w}) = Cardinality(kdf) + 1 /\ Cardinality(kdf) \in Nat
    BY <1>1, <1>2, FS_AddElement, FS_CardinalityType
<1>4. sem' = sem - 1 /\ sem \in Nat /\ sem > 0 /\ kdf' = kdf \cup {w}
    BY DEF IInv, TypeOK, TryAcquireKdf
<1>5. sem + Cardinality(kdf) = KdfSlots
    BY DEF IInv
<1>6. Cardinality(kdf') = Cardinality(kdf) + 1
    BY <1>3, <1>4
<1>7. QED
    BY <1>2, <1>3, <1>4, <1>5, <1>6 DEF Slots

\* ps_kdf_semaphore_release
LEMMA GiveSlot ==
    ASSUME IInv, NEW w \in Workers, Busy(w, "hash"), PostKdf(w)
    PROVE  Slots'
<1>1. w \in kdf
    <2>1. WellFormed(plan[w]) /\ plan[w] # <<>> /\ Head(plan[w]) = "hash"
        BY DEF IInv, Holdings, Busy
    <2>2. Rule("hash", Steps(Tail(plan[w]))) /\ St(w) = Steps(Tail(plan[w])) \cup {"hash"}
        BY <2>1, TailFacts DEF St
    <2>3. QED
        BY <2>2 DEF IInv, Holdings, Rule
<1>2. IsFiniteSet(kdf) /\ kdf \subseteq Workers
    BY ResourcesAssumption, FS_Subset DEF IInv, TypeOK
<1>3. Cardinality(kdf \ {w}) = Cardinality(kdf) - 1 /\ Cardinality(kdf) \in Nat
    BY <1>1, <1>2, FS_RemoveElement, FS_CardinalityType
<1>4. sem' = sem + 1 /\ sem \in Nat /\ kdf' = kdf \ {w}
    BY DEF IInv, TypeOK, PostKdf
<1>5. sem + Cardinality(kdf) = KdfSlots
    BY DEF IInv
<1>6. Cardinality(kdf') = Cardinality(kdf) - 1
    BY <1>3, <1>4
<1>7. QED
    BY <1>2, <1>3, <1>4, <1>5, <1>6 DEF Slots

\* A worker takes a step that is not about connections.
LEMMA StayIInv ==
    ASSUME IInv, NEW w \in Workers, NEW s, Busy(w, s), s \notin {"conn", "reply", "end"},
           Proceed(w), UNCHANGED <<free_stack, conn, sleeping, answer>>,
           kdf' = IF s = "kdf" THEN kdf \cup {w} ELSE IF s = "hash" THEN kdf \ {w} ELSE kdf,
           Slots', DatabaseOK', Transactions'
    PROVE  IInv'
<1>1. /\ plan' \in [Workers -> Seq(StepNames)] /\ UNCHANGED conns
      /\ \A v \in Workers \ {w} : plan'[v] = plan[v]
    BY MoveFacts, SMTT(30) DEF Busy
<1>2. TypeOK'
    BY <1>1, Awake, StepTypeOK, ExclusiveFacts, ZenonT(30) DEF IInv, TypeOK, Answers
<1>3. Exclusive'
    BY <1>1, ZenonT(30) DEF IInv, Exclusive
<1>4. Holdings'
    BY MoveHoldings
<1>5. QED
    BY <1>1, <1>2, <1>3, <1>4, SMTT(30) DEF IInv, Slots

\* A handler returns.
LEMMA LeaveIInv ==
    ASSUME IInv, NEW w \in Workers, NEW s, Busy(w, s), s # "conn",
           NEW told \in Answers, Return(w, told),
           kdf' = IF s = "hash" THEN kdf \ {w} ELSE kdf,
           Slots', DatabaseOK', Transactions'
    PROVE  IInv'
<1>1. /\ plan' \in [Workers -> Seq(StepNames)] /\ UNCHANGED conns
      /\ \A v \in Workers \ {w} : plan'[v] = plan[v]
    BY StopFacts, SMTT(30) DEF Busy, Return
<1>2. /\ Exclusive' /\ free_stack' \in Seq(conns)
      /\ conn' \in [Workers -> conns \cup {None}] /\ conn'[w] = None
      /\ \A v \in Workers \ {w} : conn'[v] = conn[v]
      /\ sleeping' \subseteq sleeping
    BY <1>1, GiveBackExclusive DEF Return
<1>3. answer' \in [Workers -> Answers]
    BY DEF Return, Stop, IInv, TypeOK, Answers
<1>4. TypeOK'
    BY <1>1, <1>2, <1>3, Awake, StepTypeOK, ZenonT(30)
<1>5. Holdings'
    BY <1>2, StopHoldings, ZenonT(30) DEF Return
<1>6. QED
    BY <1>1, <1>2, <1>4, <1>5, SMTT(30) DEF IInv, Slots
-----------------------------------------------------------------------------
(***************************************************************************)
(* Falling asleep or waking on cond changes nothing but sleeping, which    *)
(* only the type part of the invariant mentions.                           *)
(***************************************************************************)
LEMMA SleepersAside ==
    ASSUME IInv,
           UNCHANGED <<conns, free_stack, conn, sem, kdf, plan, writer, wrote, saved, answer>>
    PROVE  Exclusive' /\ Holdings' /\ Transactions' /\ (sem + Cardinality(kdf) = KdfSlots)'
<1>1. Exclusive'
    BY ZenonT(30) DEF IInv, Exclusive
<1>2. Holdings'
    BY SMTT(30) DEF IInv, Holdings, St
<1>3. Transactions'
    <2>1. AnswersTruthful'
        BY DEF IInv, Transactions, AnswersTruthful
    <2>2. \A v \in Workers : St(v)' = St(v) /\ (InTxn(v)' <=> InTxn(v))
        BY DEF St, InTxn
    <2>3. QED
        BY <2>1, <2>2, SMTT(30) DEF IInv, Transactions
<1>4. (sem + Cardinality(kdf) = KdfSlots)'
    BY DEF IInv
<1>5. QED
    BY <1>1, <1>2, <1>3, <1>4

(***************************************************************************)
(* Every step keeps the invariant.                                         *)
(***************************************************************************)
LEMMA NextIInv == IInv /\ [Next]_vars => IInv'
<1> SUFFICES ASSUME IInv, [Next]_vars
             PROVE  IInv'
    OBVIOUS
<1>p. DatabaseOK /\ Slots
    BY Parts
<1>1. CASE UNCHANGED vars
    <2>1. TypeOK'
        BY <1>1 DEF IInv, TypeOK, vars, database, Busy
    <2>2. Exclusive' /\ Holdings' /\ Transactions' /\ (sem + Cardinality(kdf) = KdfSlots)'
        BY <1>1, SleepersAside DEF vars, database
    <2>3. QED
        BY <1>1, <2>1, <2>2 DEF IInv, vars
<1>2. ASSUME NEW w \in Workers, Arrive(w)
      PROVE  IInv'
    <2>1. PICK p \in Plans : plan' = [plan EXCEPT ![w] = p]
        BY <1>2, ZenonT(30) DEF Arrive
    <2>2. p \in Seq(StepNames)
        BY PlansFresh DEF Fresh, WellFormed
    <2>3. /\ plan[w] = <<>> /\ saved' = saved \ {w} /\ answer' = [answer EXCEPT ![w] = "none"]
          /\ UNCHANGED <<conns, free_stack, conn, sleeping, sem, kdf, writer, wrote>>
        BY <1>2 DEF Arrive
    <2>4. /\ plan' \in [Workers -> Seq(StepNames)]
          /\ \A v \in Workers \ {w} : plan'[v] = plan[v]
        BY <2>1, <2>2 DEF IInv, TypeOK, StepNames
    <2>5. w \notin sleeping'
        BY <2>3 DEF IInv, TypeOK, Busy
    <2>6. DatabaseOK' /\ Slots' /\ answer' \in [Workers -> Answers]
        BY <1>p, <2>3 DEF DatabaseOK, Slots, IInv, TypeOK, Answers
    <2>7. TypeOK'
        BY <2>3, <2>4, <2>5, <2>6, ExclusiveFacts, StepTypeOK, SMTT(30)
    <2>8. Exclusive'
        BY <2>3 DEF IInv, Exclusive
    <2>9. QED
        BY <1>2, <2>3, <2>6, <2>7, <2>8, ArriveTxn DEF IInv, Slots
<1>3. ASSUME NEW w \in Workers, Acquire(w)
      PROVE  IInv'
    <2>1. /\ Busy(w, "conn") /\ w \notin sleeping' /\ Proceed(w) /\ sleeping' = sleeping
          /\ UNCHANGED <<conns, sem, kdf, writer, wrote, saved, answer>>
        BY <1>3 DEF Acquire, Proceed, database
    <2>2. /\ Exclusive' /\ free_stack' \in Seq(conns)
          /\ conn' \in [Workers -> conns \cup {None}] /\ conn'[w] # None
          /\ \A v \in Workers \ {w} : conn'[v] = conn[v]
        BY <1>3, AcquireExclusive, SMTT(30)
    <2>3. /\ plan' \in [Workers -> Seq(StepNames)]
          /\ \A v \in Workers \ {w} : plan'[v] = plan[v]
        BY <2>1, MoveFacts DEF Busy
    <2>4. DatabaseOK' /\ Slots' /\ answer' \in [Workers -> Answers]
        BY <1>p, <2>1 DEF DatabaseOK, Slots, IInv, TypeOK, Answers
    <2>5. TypeOK'
        BY <2>1, <2>2, <2>3, <2>4, StepTypeOK
    <2>6. Holdings'
        BY <2>1, <2>2, MoveHoldings
    <2>7. Transactions'
        BY <2>1, <2>2, QuietMove
    <2>8. QED
        BY <2>1, <2>2, <2>4, <2>5, <2>6, <2>7 DEF IInv, Slots
<1>4. ASSUME NEW w \in Workers, Sleep(w) \/ SpuriousWakeup(w)
      PROVE  IInv'
    <2>1. UNCHANGED <<conns, free_stack, conn, sem, kdf, plan, writer, wrote, saved, answer>>
        BY <1>4 DEF Sleep, SpuriousWakeup, database
    <2>2. sleeping' \subseteq {v \in Workers : Busy(v, "conn")}
        BY <1>4 DEF Sleep, SpuriousWakeup, IInv, TypeOK
    <2>3. TypeOK'
        BY <2>1, <2>2 DEF IInv, TypeOK, Busy
    <2>4. Exclusive' /\ Holdings' /\ Transactions' /\ (sem + Cardinality(kdf) = KdfSlots)'
        BY <2>1, SleepersAside
    <2>5. QED
        BY <2>1, <2>3, <2>4 DEF IInv
<1>5. ASSUME NEW w \in Workers, TryAcquireKdf(w)
      PROVE  IInv'
    <2>1. Transactions'
        BY <1>5, QuietMove DEF TryAcquireKdf, database
    <2>2. DatabaseOK'
        BY <1>5, <1>p DEF DatabaseOK, TryAcquireKdf, Proceed, database
    <2>3. QED
        BY <1>5, <2>1, <2>2, TakeSlot, StayIInv DEF TryAcquireKdf
<1>6. ASSUME NEW w \in Workers, Hash(w)
      PROVE  IInv'
    <2>1. Transactions'
        BY <1>6, QuietMove DEF Hash, database
    <2>2. DatabaseOK'
        BY <1>6, <1>p DEF DatabaseOK, Hash, Proceed, database
    <2>3. QED
        BY <1>6, <2>1, <2>2, GiveSlot, StayIInv DEF Hash, PostKdf
<1>7. ASSUME NEW w \in Workers, Token(w)
      PROVE  IInv'
    <2>1. Transactions'
        BY <1>7, QuietMove DEF Token, database, inTransaction
    <2>2. DatabaseOK' /\ Slots'
        BY <1>7, <1>p DEF DatabaseOK, Slots, Token, Proceed, database, inTransaction
    <2>3. QED
        BY <1>7, <2>1, <2>2, StayIInv DEF Token, inTransaction
<1>8. ASSUME NEW w \in Workers, Begin(w) \/ Write(w) \/ Undo(w) \/ Commit(w) \/ Note(w)
      PROVE  IInv'
    <2>1. PICK s \in {"begin", "write", "undo", "commit", "note"} :
              Busy(w, s) /\ Proceed(w)
        BY <1>8 DEF Begin, Write, Undo, Commit, Note
    <2>2. UNCHANGED <<conns, free_stack, conn, sleeping, sem, kdf, answer>>
        BY <1>8 DEF Begin, Write, Undo, Commit, Note, inTransaction, Proceed
    <2>3. Transactions'
        BY <1>8, BeginTxn, WriteTxn, UndoTxn, CommitTxn, NoteTxn
    <2>4. Slots'
        BY <1>p, <2>2 DEF Slots
    <2>5. DatabaseOK'
        <3>1. conn[w] \in conns \cup {None}
            BY DEF IInv, TypeOK
        <3>2. QED
            BY <1>8, <1>p, <2>2, <3>1 DEF DatabaseOK, Begin, Write, Undo, Commit, Note, Rollback
    <2>6. QED
        BY <2>1, <2>2, <2>3, <2>4, <2>5, StayIInv
<1>9. ASSUME NEW w \in Workers, Finish(w) \/ Shed(w) \/ Refuse(w) \/ BeginFails(w) \/ TokenFails(w)
      PROVE  IInv'
    <2>1. /\ UNCHANGED <<sem, kdf, writer, wrote, saved>>
          /\ \E s \in {"reply", "end", "kdf", "begin", "token"} :
                /\ Busy(w, s)
                /\ Return(w, IF s = "reply" THEN "done" ELSE IF s = "end" THEN "none"
                             ELSE IF s = "token" THEN "late" ELSE "failed")
        BY <1>9 DEF Finish, Shed, Refuse, BeginFails, TokenFails, Busy, database
    <2>2. PICK s \in {"reply", "end", "kdf", "begin", "token"} :
              /\ Busy(w, s)
              /\ Return(w, IF s = "reply" THEN "done" ELSE IF s = "end" THEN "none"
                           ELSE IF s = "token" THEN "late" ELSE "failed")
        BY <2>1
    <2> DEFINE told == IF s = "reply" THEN "done" ELSE IF s = "end" THEN "none"
                       ELSE IF s = "token" THEN "late" ELSE "failed"
    <2>3. told \in Answers /\ UNCHANGED conns
        BY <2>2, SMTT(30) DEF Answers, Return, Stop
    <2>4. \A v \in Workers \ {w} : conn'[v] = conn[v]
        BY <2>2, <2>3, GiveBackExclusive, SMTT(30) DEF Return
    <2>5. Transactions'
        BY <2>1, <2>2, <2>4, QuietStop, ZenonT(30) DEF Return
    <2>6. Slots' /\ DatabaseOK'
        BY <1>p, <2>1, <2>3 DEF Slots, DatabaseOK
    <2>7. Return(w, told)
        BY <2>2
    <2> HIDE DEF told
    <2>8. QED
        BY <2>1, <2>2, <2>3, <2>5, <2>6, <2>7, LeaveIInv, SMTT(30)
<1>10. ASSUME NEW w \in Workers, HashFails(w)
       PROVE  IInv'
    <2>1. /\ Busy(w, "hash") /\ PostKdf(w) /\ Return(w, "failed")
          /\ UNCHANGED <<writer, wrote, saved, conns>>
        BY <1>10, SMTT(30) DEF HashFails, database, Return, Stop
    <2>2. Transactions'
        BY <2>1, GiveBackExclusive, QuietStop, ZenonT(30) DEF Return
    <2>3. DatabaseOK' /\ Slots'
        BY <1>p, <2>1, GiveSlot DEF DatabaseOK
    <2>4. kdf' = kdf \ {w} /\ "failed" \in Answers
        BY <2>1 DEF PostKdf, Answers
    <2>5. QED
        BY <2>1, <2>2, <2>3, <2>4, LeaveIInv
<1>11. ASSUME NEW w \in Workers, WriteFails(w) \/ CommitFails(w)
       PROVE  IInv'
    <2>1. PICK s \in {"write", "commit"} :
              /\ Busy(w, s)
              /\ \/ writer' = None /\ wrote' = {}
                 \/ s = "commit" /\ UNCHANGED writer /\ wrote' = (wrote \ {w}) \cup {Gone}
        BY <1>11 DEF WriteFails, CommitFails, Rollback
    <2>2. /\ Return(w, "failed") /\ UNCHANGED <<saved, sem, kdf, conns>>
        BY <1>11 DEF WriteFails, CommitFails, Rollback, Return, Stop
    <2>3. Transactions'
        BY <2>1, <2>2, FailTxn DEF Return
    <2>4. DatabaseOK' /\ Slots' /\ "failed" \in Answers
        BY <1>p, <2>1, <2>2 DEF DatabaseOK, Slots, Answers
    <2>5. QED
        BY <2>1, <2>2, <2>3, <2>4, LeaveIInv
<1>12. QED
    BY <1>1, <1>2, <1>3, <1>4, <1>5, <1>6, <1>7, <1>8, <1>9, <1>10, <1>11 DEF Next, Handle, Fault
-----------------------------------------------------------------------------
\* Every step, fault or return keeps each connection in the stack once or with
\* one worker and each KDF slot free or held, and whoever is idle holds nothing.
THEOREM ResourcesNothingLeaks == Spec => []NothingLeaks
<1>1. ASSUME IInv
      PROVE  NothingLeaks
    <2>1. /\ free_stack \in Seq(conns) /\ conn \in [Workers -> conns \cup {None}]
          /\ Len(free_stack) \in Nat /\ None \notin conns
        BY <1>1, ExclusiveFacts
    <2>2. DOMAIN free_stack = 1..Len(free_stack)
        BY <2>1
    <2>3. ASSUME NEW c \in conns
          PROVE  Cardinality({i \in DOMAIN free_stack : free_stack[i] = c}) +
                 Cardinality({w \in Workers : conn[w] = c}) = 1
        <3> DEFINE I == {i \in DOMAIN free_stack : free_stack[i] = c}
                   W == {w \in Workers : conn[w] = c}
        <3>1. ASSUME \E i \in 1..Len(free_stack) : free_stack[i] = c
              PROVE  Cardinality(I) + Cardinality(W) = 1
            <4>1. PICK i \in 1..Len(free_stack) : free_stack[i] = c
                BY <3>1
            <4>2. I = {i} /\ W = {}
                BY <1>1, <2>2, <4>1, SMTT(30) DEF IInv, Exclusive
            <4>3. Cardinality({i}) = 1 /\ Cardinality({}) = 0
                BY FS_Singleton, FS_EmptySet, ZenonT(30)
            <4> HIDE DEF I, W
            <4>4. QED
                BY <4>2, <4>3
        <3>2. ASSUME ~\E i \in 1..Len(free_stack) : free_stack[i] = c
              PROVE  Cardinality(I) + Cardinality(W) = 1
            <4>1. PICK w \in Workers : conn[w] = c
                BY <1>1, <3>2 DEF IInv, Exclusive
            <4>2. I = {} /\ W = {w}
                BY <1>1, <2>1, <2>2, <3>2, <4>1 DEF IInv, Exclusive
            <4>3. Cardinality({w}) = 1 /\ Cardinality({}) = 0
                BY FS_Singleton, FS_EmptySet, ZenonT(30)
            <4> HIDE DEF I, W
            <4>4. QED
                BY <4>2, <4>3
        <3>3. QED
            BY <3>1, <3>2
    <2>4. ASSUME NEW w \in Workers, plan[w] = <<>>
          PROVE  conn[w] = None /\ w \notin kdf
        <3>1. St(w) = {}
            BY <2>4, EmptyPlan DEF St
        <3>2. QED
            BY <1>1, <2>4, <3>1 DEF IInv, Holdings
    <2>5. QED
        BY <1>1, <2>3, <2>4 DEF IInv, NothingLeaks
<1>2. QED
    BY <1>1, InitIInv, NextIInv, PTL DEF Spec

\* Whatever fails, and whatever later requests do on the same connection: a
\* change is durable when its request was told so, and gone when it was told 500
\* at or before its COMMIT.
THEOREM ResourcesAnswersTruthful == Spec => []AnswersTruthful
<1>1. IInv => AnswersTruthful
    BY DEF IInv, Transactions
<1>2. QED
    BY <1>1, InitIInv, NextIInv, PTL DEF Spec
-----------------------------------------------------------------------------
(***************************************************************************)
(* Sleepers.                                                               *)
(***************************************************************************)
LEMMA AcquiringFinite ==
    /\ IsFiniteSet(Acquiring) /\ Cardinality(Acquiring) \in Nat
    /\ IsFiniteSet(Acquiring') /\ Cardinality(Acquiring') \in Nat
BY ResourcesAssumption, FS_Subset, FS_CardinalityType DEF Acquiring

\* An empty stack in a pool with a connection for every worker: the worker
\* that looks holds none, so the others hold more than they are.
LEMMA SizedNeverEmpty ==
    ASSUME IInv, Sized, NEW w \in Workers, conn[w] = None, free_stack = <<>>
    PROVE  FALSE
<1> DEFINE h == [c \in conns |-> CHOOSE v \in Workers : conn[v] = c]
           W == Workers \ {w}
<1>1. \A c \in conns : \E v \in Workers : conn[v] = c
    BY DEF IInv, Exclusive
<1>2. \A c \in conns : h[c] \in Workers /\ conn[h[c]] = c
    BY <1>1
<1> HIDE DEF h
<1>3. None \notin conns
    BY ExclusiveFacts
<1>4. h \in [conns -> W]
    <2>1. \A c \in conns : h[c] \in W
        BY <1>2, <1>3
    <2>2. QED
        BY <2>1 DEF h
<1>5. h \in Injection(conns, W)
    BY <1>2, <1>4 DEF Injection, IsInjective
<1>6. /\ IsFiniteSet(W) /\ Cardinality(W) = Cardinality(Workers) - 1
      /\ Cardinality(Workers) \in Nat /\ Cardinality(conns) \in Nat
    BY ResourcesAssumption, FS_RemoveElement, FS_CardinalityType DEF IInv
<1>7. Cardinality(conns) <= Cardinality(W)
    <2> HIDE DEF W
    <2>1. QED
        BY <1>5, <1>6, FS_Injection, SMTT(30)
<1>8. QED
    BY <1>6, <1>7 DEF Sized

\* A step of a worker that is not in ps_db_pool_acquire.
LEMMA OthersAcquiring ==
    ASSUME IInv, NEW w \in Workers, w \notin Acquiring,
           \A v \in Workers \ {w} : plan'[v] = plan[v],
           sleeping' \subseteq sleeping
    PROVE  Acquiring \subseteq Acquiring'
BY DEF Acquiring, Busy

LEMMA NextStranded == IInv /\ NoStrandedSleeper /\ [Next]_vars => NoStrandedSleeper'
<1> SUFFICES ASSUME IInv, NoStrandedSleeper, [Next]_vars
             PROVE  NoStrandedSleeper'
    OBVIOUS
<1>t. Len(free_stack) \in Nat /\ free_stack \in Seq(conns)
    BY ExclusiveFacts
<1>k. ASSUME sleeping' \subseteq sleeping, UNCHANGED <<conns, free_stack>>, Acquiring \subseteq Acquiring'
      PROVE  NoStrandedSleeper'
    <2>1. Cardinality(Acquiring) <= Cardinality(Acquiring')
        BY <1>k, AcquiringFinite, FS_Subset, SMTT(30)
    <2>2. QED
        BY <1>k, <1>t, <2>1, AcquiringFinite DEF NoStrandedSleeper, Sized
<1>m. ASSUME NEW w \in Workers, NEW s, Busy(w, s), s # "conn", Proceed(w),
             UNCHANGED <<free_stack, sleeping>>
      PROVE  NoStrandedSleeper'
    BY <1>m, <1>k, Awake, OthersAcquiring, MoveFacts, SMTT(30) DEF Busy
<1>r. ASSUME NEW w \in Workers, NEW s, Busy(w, s), s # "conn", NEW told, Return(w, told)
      PROVE  NoStrandedSleeper'
    <2>1. /\ UNCHANGED conns /\ \A v \in Workers \ {w} : plan'[v] = plan[v]
        BY <1>r, StopFacts DEF Busy, Return
    <2>2. sleeping' \subseteq sleeping
        BY <1>r, <2>1, GiveBackExclusive, SMTT(30) DEF Return
    <2>3. Acquiring \subseteq Acquiring' /\ w \notin sleeping
        BY <1>r, <2>1, <2>2, Awake, OthersAcquiring, SMTT(30)
    <2>4. CASE UNCHANGED free_stack
        BY <1>k, <2>1, <2>2, <2>3, <2>4
    <2>5. CASE sleeping' = {}
        BY <2>5 DEF NoStrandedSleeper
    <2>6. CASE /\ free_stack' = Append(free_stack, conn[w]) /\ sleeping' # {}
               /\ \E v \in sleeping : sleeping' = sleeping \ {v}
        <3>1. PICK v \in sleeping : sleeping' = sleeping \ {v}
            BY <2>6
        <3>2. v \in Workers /\ Busy(v, "conn") /\ v # w
            BY <2>3, SMTT(30) DEF IInv, TypeOK
        <3>3. v \in Acquiring' /\ v \notin Acquiring
            BY <2>1, <3>1, <3>2 DEF Acquiring, Busy
        <3>4. Cardinality(Acquiring \cup {v}) = Cardinality(Acquiring) + 1
            BY <3>3, AcquiringFinite, FS_AddElement, ZenonT(30)
        <3>5. Cardinality(Acquiring \cup {v}) <= Cardinality(Acquiring')
            BY <2>3, <3>3, AcquiringFinite, FS_Subset
        <3>6. Len(free_stack') = Len(free_stack) + 1
            BY <1>t, <2>6
        <3>7. Len(free_stack) <= Cardinality(Acquiring)
            BY <3>1 DEF NoStrandedSleeper
        <3>8. Len(free_stack') <= Cardinality(Acquiring')
            BY <1>t, <3>4, <3>5, <3>6, <3>7, AcquiringFinite, SMTT(30)
        <3>9. (Sized => sleeping = {})'
            BY <2>1, <3>1 DEF NoStrandedSleeper, Sized
        <3>10. QED
            BY <3>8, <3>9 DEF NoStrandedSleeper
    <2>7. QED
        BY <1>r, <2>4, <2>5, <2>6, SMTT(30) DEF Return, GiveBack, Release, Signal
<1>1. CASE UNCHANGED vars
    BY <1>1, <1>k DEF vars, Acquiring, Busy
<1>2. ASSUME NEW w \in Workers, Arrive(w)
      PROVE  NoStrandedSleeper'
    <2>1. /\ w \notin Acquiring /\ UNCHANGED <<conns, free_stack, sleeping>>
          /\ \A v \in Workers \ {w} : plan'[v] = plan[v]
        BY <1>2 DEF Arrive, Acquiring, Busy, IInv, TypeOK
    <2>2. QED
        BY <1>k, <2>1, OthersAcquiring
<1>3. ASSUME NEW w \in Workers, Acquire(w)
      PROVE  NoStrandedSleeper'
    <2>1. Busy(w, "conn") /\ Proceed(w) /\ w \in Acquiring /\ UNCHANGED <<conns, sleeping>>
        BY <1>3, SMTT(30) DEF Acquire, Acquiring, Proceed
    <2>2. \A v \in Workers \ {w} : plan'[v] = plan[v]
        BY <2>1, MoveFacts, ZenonT(30) DEF Busy
    <2>3. Acquiring \ {w} \subseteq Acquiring'
        BY <2>1, <2>2 DEF Acquiring, Busy
    <2>4. Cardinality(Acquiring \ {w}) = Cardinality(Acquiring) - 1
        BY <2>1, AcquiringFinite, FS_RemoveElement, ZenonT(30)
    <2>5. Cardinality(Acquiring \ {w}) <= Cardinality(Acquiring')
        BY <2>3, AcquiringFinite, FS_Subset
    <2>6. Len(free_stack') = Len(free_stack) - 1
        BY <1>3, AcquireExclusive
    <2>7. sleeping # {} => Len(free_stack') <= Cardinality(Acquiring')
        BY <1>t, <2>4, <2>5, <2>6, AcquiringFinite DEF NoStrandedSleeper
    <2>8. QED
        BY <2>1, <2>7 DEF NoStrandedSleeper, Sized
<1>4. ASSUME NEW w \in Workers, Sleep(w)
      PROVE  NoStrandedSleeper'
    <2>1. /\ Busy(w, "conn") /\ free_stack = <<>> /\ UNCHANGED <<conns, free_stack>>
        BY <1>4 DEF Sleep
    <2>2. Len(free_stack') <= Cardinality(Acquiring')
        BY <2>1, AcquiringFinite
    <2>3. conn[w] = None
        <3>1. WellFormed(plan[w]) /\ plan[w] # <<>> /\ Head(plan[w]) = "conn"
            BY <2>1 DEF IInv, Holdings, Busy
        <3>2. "conn" \in St(w)
            BY <3>1, TailFacts DEF St
        <3>3. QED
            BY <3>2 DEF IInv, Holdings
    <2>4. ~Sized'
        BY <2>1, <2>3, SizedNeverEmpty DEF Sized
    <2>5. QED
        BY <2>2, <2>4 DEF NoStrandedSleeper
<1>5. ASSUME NEW w \in Workers, SpuriousWakeup(w)
      PROVE  NoStrandedSleeper'
    BY <1>5, <1>k DEF SpuriousWakeup, Acquiring, Busy
<1>6. ASSUME NEW w \in Workers, TryAcquireKdf(w) \/ Hash(w) \/ Token(w)
      PROVE  NoStrandedSleeper'
    BY <1>6, <1>m DEF TryAcquireKdf, Hash, Token, inTransaction
<1>7. ASSUME NEW w \in Workers, Begin(w) \/ Write(w) \/ Undo(w) \/ Commit(w) \/ Note(w)
      PROVE  NoStrandedSleeper'
    BY <1>7, <1>m DEF Begin, Write, Undo, Commit, Note, inTransaction
<1>8. ASSUME NEW w \in Workers, Finish(w) \/ Shed(w) \/ Refuse(w) \/ HashFails(w)
      PROVE  NoStrandedSleeper'
    BY <1>8, <1>r DEF Finish, Shed, Refuse, HashFails
<1>9. ASSUME NEW w \in Workers, BeginFails(w) \/ WriteFails(w) \/ CommitFails(w) \/ TokenFails(w)
      PROVE  NoStrandedSleeper'
    BY <1>9, <1>r DEF BeginFails, WriteFails, CommitFails, TokenFails
<1>10. QED
    BY <1>1, <1>2, <1>3, <1>4, <1>5, <1>6, <1>7, <1>8, <1>9 DEF Next, Handle, Fault

\* No wakeup of the pool is lost, and in a pool with a connection for every
\* worker nobody sleeps at all.
THEOREM ResourcesNoStrandedSleeper == Spec => []NoStrandedSleeper
<1>1. IInv /\ sleeping = {} => NoStrandedSleeper
    BY DEF NoStrandedSleeper
<1>2. QED
    BY <1>1, InitIInv, NextIInv, NextStranded, PTL DEF Spec
=============================================================================
