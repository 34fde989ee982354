------------------------------ MODULE ApplyProof ------------------------------
(***************************************************************************)
(* Theorems about Apply, for any files, any outcomes, any number of        *)
(* threads and any number of runs: quitting is final, the counters and the *)
(* messages on their way make up what was sent, and the total is reported  *)
(* when all is handled.                                                    *)
(*                                                                         *)
(* should_continue is cleared in one place, where the consumer breaks out  *)
(* of its loop; a consumer that has stopped is not started again in the    *)
(* same run, and only a consumer that handles a message touches the disk.  *)
(*                                                                         *)
(* CountsAddUp is kept by each step that sends, receives or handles, if    *)
(* what is sent arrives and nothing is sent twice: Ordered says how far    *)
(* the workers, the consumer and main are from each other.  DoneLast says  *)
(* that every vector ends with a DoneFile, so that none is on its way when *)
(* no DoneFile is.  Messages are counted by where they are in a vector,    *)
(* those of a multifile problem by where they were before the sort.        *)
(***************************************************************************)
EXTENDS Apply, FiniteSetTheorems, FunctionTheorems, TLAPS

\* What the consumer knows after a quit: it has stopped, nothing is left to
\* handle and, its end of the channel being gone, nothing more arrives.
QuitStops == ~should_continue => consumer = "stopped" /\ inbox = <<>> /\ chan = <<>>

\* Nothing has quit when an apply starts.
LEMMA InitStops == Init => QuitStops
  BY DEF Init, QuitStops

\* A vector sent after the quit is dropped.
LEMMA SendAfterQuit ==
    ASSUME QuitStops, ~should_continue, NEW v, Send(v)
    PROVE  chan' = <<>>
  BY DEF QuitStops, Send, RxOpen

\* The workers' steps keep QuitStops.
LEMMA WorkerStops ==
    ASSUME QuitStops, NEW t \in Tasks, Worker(t) \/ ExecuteMultifile
    PROVE  QuitStops'
  <1>1. CASE Claim(t)
    BY <1>1 DEF Claim, QuitStops, consumerVars
  <1>2. CASE ExecuteFile(t)
    <2>1. \E v : Send(v)
      BY <1>2 DEF ExecuteFile
    <2> QED
      BY <1>2, <2>1, SendAfterQuit DEF ExecuteFile, QuitStops, consumerVars
  <1>3. CASE ExecuteMultifile
    <2>1. \E v : Send(v)
      BY <1>3 DEF ExecuteMultifile
    <2> QED
      BY <1>3, <2>1, SendAfterQuit DEF ExecuteMultifile, QuitStops, consumerVars
  <1> QED
    BY <1>1, <1>2, <1>3 DEF Worker

\* Each step of the consumer needs one that has not stopped.
LEMMA ConsumerStops ==
    ASSUME QuitStops, Consume
    PROVE  QuitStops'
  <1>1. CASE StartConsumer
    BY <1>1 DEF StartConsumer, QuitStops, consumerVars
  <1>2. CASE Receive
    BY <1>2 DEF Receive, QuitStops
  <1>3. CASE ChannelClosed
    BY <1>3 DEF ChannelClosed, QuitStops, consumerVars
  <1>4. CASE HandleReport
    BY <1>4 DEF HandleReport, Handling, QuitStops
  <1>5. CASE HandleAccepted
    BY <1>5 DEF HandleAccepted, Handling, QuitStops
  <1>6. CASE HandleRejected
    BY <1>6 DEF HandleRejected, Handling, QuitStops
  <1>7. CASE HandleSuppressed
    BY <1>7 DEF HandleSuppressed, Handling, QuitStops
  <1>8. CASE HandleQuit
    BY <1>8 DEF HandleQuit, QuitStops
  <1>9. CASE HandleErr
    BY <1>9 DEF HandleErr, Handling, QuitStops
  <1>10. CASE HandlePanics
    BY <1>10 DEF HandlePanics, Handling, QuitStops
  <1>11. CASE VectorHandled
    BY <1>11 DEF VectorHandled, QuitStops, consumerVars
  <1> QED
    BY <1>1, <1>2, <1>3, <1>4, <1>5, <1>6, <1>7, <1>8, <1>9, <1>10, <1>11
    DEF Consume, Handle

\* The main thread leaves the consumer alone, until the next run starts anew.
LEMMA MainStops ==
    ASSUME QuitStops, Executed \/ LeaveLoop \/ Report \/ NextRun \/ Spin \/ Stay
                      \/ UNCHANGED vars
    PROVE  QuitStops'
  <1>1. CASE NextRun
    BY <1>1 DEF NextRun, QuitStops
  <1>2. CASE Executed \/ LeaveLoop \/ Report
    BY <1>2 DEF Executed, LeaveLoop, Report, consumerVars, QuitStops
  <1>3. CASE Spin \/ Stay \/ UNCHANGED vars
    BY <1>3 DEF Spin, Stay, vars, QuitStops
  <1> QED
    BY <1>1, <1>2, <1>3

\* Every step keeps QuitStops.
LEMMA StepStops == QuitStops /\ [Next]_vars => QuitStops'
  <1> SUFFICES ASSUME QuitStops, [Next]_vars PROVE QuitStops'
    OBVIOUS
  <1>1. CASE \E t \in Tasks : Worker(t)
    BY <1>1, WorkerStops
  <1>2. CASE Consume
    BY <1>2, ConsumerStops
  <1>3. CASE ExecuteMultifile
    <2>1. PICK t \in Tasks : task[t] = "todo"
      BY <1>3 DEF ExecuteMultifile
    <2> QED
      BY <1>3, WorkerStops
  <1>4. CASE Executed \/ LeaveLoop \/ Report \/ NextRun \/ Spin \/ Stay \/ UNCHANGED vars
    BY <1>4, MainStops
  <1> QED
    BY <1>1, <1>2, <1>3, <1>4 DEF Next, Main

\* A step that touches the disk is one of a consumer that handles a message.
LEMMA OnlyHandlersWrite ==
    ASSUME [Next]_vars, ~UNCHANGED <<disk, created>>
    PROVE  consumer = "handling"
  <1>1. CASE \E t \in Tasks : Worker(t)
    BY <1>1 DEF Worker, Claim, ExecuteFile, consumerVars
  <1>2. CASE Handle
    BY <1>2 DEF Handle, HandleReport, HandleAccepted, HandleRejected,
                HandleSuppressed, HandleQuit, HandleErr, HandlePanics, Handling
  <1>3. CASE StartConsumer \/ Receive \/ ChannelClosed \/ VectorHandled
    BY <1>3 DEF StartConsumer, Receive, ChannelClosed, VectorHandled, consumerVars
  <1>4. CASE ExecuteMultifile
    BY <1>4 DEF ExecuteMultifile, consumerVars
  <1>5. CASE Executed \/ LeaveLoop \/ Report \/ NextRun
    BY <1>5 DEF Executed, LeaveLoop, Report, NextRun, consumerVars
  <1>6. CASE Spin \/ Stay \/ UNCHANGED vars
    BY <1>6 DEF Spin, Stay, vars
  <1> QED
    BY <1>1, <1>2, <1>3, <1>4, <1>5, <1>6 DEF Next, Consume, Main

\* The inductive invariant holds in every state of every run.
THEOREM QuitStopsAlways == Spec => []QuitStops
  BY InitStops, StepStops, PTL DEF Spec

\* After "q" nothing more of that run is written, whatever the workers go on to
\* execute and send.
THEOREM QuitIsFinalAlways == Spec => QuitIsFinal
  <1>1. QuitStops /\ [Next]_vars => [~should_continue => UNCHANGED <<disk, created>>]_vars
    BY OnlyHandlersWrite DEF QuitStops
  <1> QED
    BY <1>1, QuitStopsAlways, PTL DEF Spec, QuitIsFinal

-----------------------------------------------------------------------------
(* Counting.                                                               *)

\* A one-to-one map onto a set shows how many elements it has.
LEMMA SameCount ==
    ASSUME NEW S, NEW T, IsFiniteSet(S), NEW f \in [S -> T],
           \A x, y \in S : f[x] = f[y] => x = y,
           \A y \in T : \E x \in S : f[x] = y
    PROVE  IsFiniteSet(T) /\ Cardinality(T) = Cardinality(S)
  <1>1. f \in Bijection(S, T)
    BY Fun_IsBij
  <1>2. ExistsBijection(S, T)
    BY <1>1 DEF ExistsBijection
  <1> QED
    BY <1>2, FS_Bijection

\* Two sets that do not meet are counted one after the other.
LEMMA CountBoth ==
    ASSUME NEW S, NEW T, IsFiniteSet(S), IsFiniteSet(T), S \cap T = {}
    PROVE  /\ IsFiniteSet(S \cup T)
           /\ Cardinality(S \cup T) = Cardinality(S) + Cardinality(T)
  <1>1. Cardinality(S \cap T) = 0
    BY FS_EmptySet
  <1>2. Cardinality(S) \in Nat /\ Cardinality(T) \in Nat
    BY FS_CardinalityType
  <1>3. /\ IsFiniteSet(S \cup T)
        /\ Cardinality(S \cup T) = Cardinality(S) + Cardinality(T) - Cardinality(S \cap T)
    BY FS_Union
  <1> QED
    BY <1>1, <1>2, <1>3

\* Where messages of some kinds are, in a vector and in the channel.
In(msgs, kinds) == {i \in DOMAIN msgs : msgs[i].kind \in kinds}
InAll(vectors, kinds) ==
    {x \in Places(vectors) : vectors[x[1]][x[2]].kind \in kinds}

\* A vector has finitely many messages of a kind.
LEMMA CountInNat ==
    ASSUME NEW s \in Seq(Message), NEW kinds
    PROVE  /\ IsFiniteSet(In(s, kinds))
           /\ CountIn(s, kinds) = Cardinality(In(s, kinds))
           /\ CountIn(s, kinds) \in Nat
           /\ CountIn(s, kinds) = 0 => In(s, kinds) = {}
  <1>1. IsFiniteSet(1 .. Len(s))
    BY FS_Interval
  <1>2. In(s, kinds) \in SUBSET (1 .. Len(s))
    BY DEF In
  <1>3. IsFiniteSet(In(s, kinds))
    BY <1>1, <1>2, FS_Subset
  <1>4. CountIn(s, kinds) = Cardinality(In(s, kinds))
    BY DEF CountIn, In
  <1> QED
    BY <1>3, <1>4, FS_CardinalityType, FS_EmptySet

\* What a vector holds less when its first message is taken.
LEMMA CountTail ==
    ASSUME NEW s \in Seq(Message), s # <<>>, NEW kinds
    PROVE  CountIn(s, kinds) =
               CountIn(Tail(s), kinds) + (IF Head(s).kind \in kinds THEN 1 ELSE 0)
  <1> DEFINE I == In(s, kinds)
             J == In(Tail(s), kinds)
             f == [i \in J |-> i + 1]
  <1>1. /\ Tail(s) \in Seq(Message) /\ Len(Tail(s)) = Len(s) - 1 /\ Len(s) \in Nat \ {0}
        /\ \A i \in 1 .. Len(s) - 1 : Tail(s)[i] = s[i + 1]
        /\ DOMAIN s = 1 .. Len(s) /\ DOMAIN Tail(s) = 1 .. Len(s) - 1
        /\ Head(s) = s[1]
    OBVIOUS
  <1>2. IsFiniteSet(I) /\ IsFiniteSet(J)
        /\ CountIn(s, kinds) = Cardinality(I) /\ CountIn(Tail(s), kinds) = Cardinality(J)
    BY <1>1, CountInNat
  <1>3. \A i \in J : i + 1 \in I \ {1}
    BY <1>1 DEF In
  <1>4. f \in [J -> I \ {1}]
    BY <1>3
  <1>5. \A i, j \in J : f[i] = f[j] => i = j
    BY <1>1 DEF In
  <1>6. \A k \in I \ {1} : \E i \in J : f[i] = k
    <2> SUFFICES ASSUME NEW k \in I \ {1} PROVE \E i \in J : f[i] = k
      OBVIOUS
    <2>1. k \in 2 .. Len(s) /\ s[k].kind \in kinds
      BY <1>1 DEF In
    <2>2. k - 1 \in J
      BY <1>1, <2>1 DEF In
    <2>3. f[k - 1] = k
      BY <2>1, <2>2
    <2> QED
      BY <2>2, <2>3
  <1> HIDE DEF f, I, J
  <1>7. Cardinality(I \ {1}) = Cardinality(J)
    BY <1>2, <1>4, <1>5, <1>6, SameCount
  <1>8. 1 \in I <=> Head(s).kind \in kinds
    BY <1>1 DEF In, I
  <1>9. /\ Cardinality(I \ {1}) = IF 1 \in I THEN Cardinality(I) - 1 ELSE Cardinality(I)
        /\ Cardinality(I) \in Nat
    BY <1>2, FS_RemoveElement, FS_CardinalityType
  <1> QED
    BY <1>2, <1>7, <1>8, <1>9

\* The messages in the channel are finitely many.
LEMMA CountAllInNat ==
    ASSUME NEW c \in Seq(Seq(Message)), NEW kinds
    PROVE  /\ IsFiniteSet(InAll(c, kinds))
           /\ CountAll(c, kinds) = Cardinality(InAll(c, kinds))
           /\ CountAll(c, kinds) \in Nat
           /\ CountAll(c, kinds) = 0 => InAll(c, kinds) = {}
  <1> DEFINE D == DOMAIN c
             Row(i) == {i} \X DOMAIN c[i]
             Rows == {Row(i) : i \in D}
             f == [i \in D |-> Row(i)]
  <1>1. D = 1 .. Len(c) /\ IsFiniteSet(D)
    BY FS_Interval
  <1>2. \A i \in D : c[i] \in Seq(Message)
    OBVIOUS
  <1>3. ASSUME NEW R \in Rows PROVE IsFiniteSet(R)
    <2>1. PICK i \in D : R = Row(i)
      OBVIOUS
    <2>2. IsFiniteSet(DOMAIN c[i])
      <3>1. c[i] \in Seq(Message)
        BY <1>2
      <3>2. DOMAIN c[i] = 1 .. Len(c[i]) /\ Len(c[i]) \in Nat
        BY <3>1
      <3> QED
        BY <3>2, FS_Interval
    <2> QED
      BY <2>1, <2>2, FS_Singleton, FS_Product
  <1>4. f \in Surjection(D, Rows)
    <2>1. f \in [D -> Rows] /\ \A R \in Rows : \E i \in D : f[i] = R
      OBVIOUS
    <2> HIDE DEF f, D, Rows
    <2> QED
      BY <2>1, Fun_IsSurj
  <1>5. IsFiniteSet(Rows)
    <2> HIDE DEF f, D, Rows
    <2> QED
      BY <1>1, <1>4, FS_Surjection
  <1>6. IsFiniteSet(UNION Rows)
    <2> HIDE DEF Rows
    <2> QED
      BY <1>3, <1>5, FS_UNION
  <1>7. Places(c) = UNION Rows
    BY DEF Places
  <1>8. InAll(c, kinds) \in SUBSET UNION Rows
    BY <1>7 DEF InAll
  <1>9. IsFiniteSet(InAll(c, kinds))
    <2> HIDE DEF Rows
    <2> QED
      BY <1>6, <1>8, FS_Subset
  <1>10. CountAll(c, kinds) = Cardinality(InAll(c, kinds))
    BY DEF CountAll, InAll
  <1> QED
    BY <1>9, <1>10, FS_CardinalityType, FS_EmptySet

\* An empty channel holds nothing.
LEMMA CountAllNone == \A kinds : CountAll(<<>>, kinds) = 0 /\ CountIn(<<>>, kinds) = 0
  <1> TAKE kinds
  <1>1. InAll(<<>>, kinds) = {} /\ In(<<>>, kinds) = {}
    BY DEF InAll, In, Places
  <1> QED
    BY <1>1, FS_EmptySet DEF CountAll, CountIn, InAll, In

\* A vector that is sent adds its own messages.
LEMMA CountSent ==
    ASSUME NEW c \in Seq(Seq(Message)), NEW v \in Seq(Message), NEW kinds
    PROVE  CountAll(Append(c, v), kinds) = CountAll(c, kinds) + CountIn(v, kinds)
  <1> DEFINE n == Len(c) + 1
             I == In(v, kinds)
             J == {n} \X I
             A == InAll(c, kinds)
             f == [i \in I |-> <<n, i>>]
  <1>1. /\ n \in Nat /\ Len(Append(c, v)) = n /\ Append(c, v) \in Seq(Seq(Message))
        /\ \A i \in 1 .. Len(c) : Append(c, v)[i] = c[i]
        /\ Append(c, v)[n] = v
        /\ DOMAIN Append(c, v) = 1 .. n /\ DOMAIN c = 1 .. Len(c) /\ Len(c) \in Nat
    OBVIOUS
  <1>2. \A x : x \in Places(Append(c, v)) <=> x \in Places(c) \/ x \in {n} \X DOMAIN v
    BY <1>1 DEF Places
  <1>3. \A x \in Places(c) : Append(c, v)[x[1]] = c[x[1]] /\ x[1] # n
    BY <1>1 DEF Places
  <1>4. InAll(Append(c, v), kinds) = A \cup J
    <2>1. \A x \in {n} \X DOMAIN v : Append(c, v)[x[1]] = v
      BY <1>1
    <2>2. \A x : x \in J <=> x \in {n} \X DOMAIN v /\ v[x[2]].kind \in kinds
      BY DEF In
    <2>3. \A x : x \in A <=> x \in Places(c) /\ c[x[1]][x[2]].kind \in kinds
      BY DEF InAll
    <2>4. \A x : x \in InAll(Append(c, v), kinds) <=>
                   /\ x \in Places(Append(c, v))
                   /\ Append(c, v)[x[1]][x[2]].kind \in kinds
      BY DEF InAll
    <2> HIDE DEF n, J, A
    <2> QED
      BY <1>2, <1>3, <2>1, <2>2, <2>3, <2>4
  <1>5. A \cap J = {}
    BY <1>3 DEF InAll
  <1>6. IsFiniteSet(I) /\ CountIn(v, kinds) = Cardinality(I)
        /\ IsFiniteSet(A) /\ CountAll(c, kinds) = Cardinality(A)
    BY CountInNat, CountAllInNat
  <1>7. f \in [I -> J] /\ (\A i, j \in I : f[i] = f[j] => i = j)
        /\ \A y \in J : \E i \in I : f[i] = y
    OBVIOUS
  <1>8. CountAll(Append(c, v), kinds) = Cardinality(A \cup J)
    BY <1>1, <1>4, CountAllInNat
  <1> HIDE DEF n, I, J, A, f
  <1>9. IsFiniteSet(J) /\ Cardinality(J) = Cardinality(I)
    BY <1>6, <1>7, SameCount
  <1>10. Cardinality(A \cup J) = Cardinality(A) + Cardinality(J)
    BY <1>5, <1>6, <1>9, CountBoth
  <1> QED
    BY <1>6, <1>8, <1>9, <1>10

\* Where the messages in the channel are.
LEMMA InAllAre ==
    ASSUME NEW c \in Seq(Seq(Message)), NEW kinds, NEW x
    PROVE  x \in InAll(c, kinds) <=>
               \E i \in 1 .. Len(c) : \E j \in DOMAIN c[i] :
                   x = <<i, j>> /\ c[i][j].kind \in kinds
  <1>1. DOMAIN c = 1 .. Len(c)
    OBVIOUS
  <1>2. x \in Places(c) <=> \E i \in 1 .. Len(c) : \E j \in DOMAIN c[i] : x = <<i, j>>
    BY <1>1 DEF Places
  <1>3. \A i, j : x = <<i, j>> => x[1] = i /\ x[2] = j
    OBVIOUS
  <1> QED
    BY <1>2, <1>3 DEF InAll

\* A vector that is received takes its own messages away.
LEMMA CountReceived ==
    ASSUME NEW c \in Seq(Seq(Message)), c # <<>>, NEW kinds
    PROVE  CountAll(c, kinds) = CountAll(Tail(c), kinds) + CountIn(Head(c), kinds)
  <1> DEFINE I == In(Head(c), kinds)
             J == {1} \X I
             A == InAll(Tail(c), kinds)
             B == {x \in InAll(c, kinds) : x[1] # 1}
             f == [i \in I |-> <<1, i>>]
             g == [x \in A |-> <<x[1] + 1, x[2]>>]
  <1>1. /\ Tail(c) \in Seq(Seq(Message)) /\ Len(Tail(c)) = Len(c) - 1
        /\ Len(c) \in Nat \ {0} /\ Head(c) = c[1] /\ Head(c) \in Seq(Message)
        /\ \A i \in 1 .. Len(c) - 1 : Tail(c)[i] = c[i + 1]
        /\ DOMAIN c = 1 .. Len(c) /\ DOMAIN Tail(c) = 1 .. Len(c) - 1
    OBVIOUS
  <1>2. InAll(c, kinds) = B \cup J
    BY <1>1 DEF InAll, In, Places
  <1>3. B \cap J = {}
    OBVIOUS
  <1>4. IsFiniteSet(I) /\ CountIn(Head(c), kinds) = Cardinality(I)
        /\ IsFiniteSet(A) /\ CountAll(Tail(c), kinds) = Cardinality(A)
    BY <1>1, CountInNat, CountAllInNat
  <1>5. f \in [I -> J] /\ (\A i, j \in I : f[i] = f[j] => i = j)
        /\ \A y \in J : \E i \in I : f[i] = y
    OBVIOUS
  <1>6. \A x : x \in A <=> \E i \in 1 .. Len(c) - 1 : \E j \in DOMAIN c[i + 1] :
                                x = <<i, j>> /\ c[i + 1][j].kind \in kinds
    <2>1. \A x : x \in A <=> \E i \in 1 .. Len(Tail(c)) : \E j \in DOMAIN Tail(c)[i] :
                                x = <<i, j>> /\ Tail(c)[i][j].kind \in kinds
      BY <1>1, InAllAre
    <2> HIDE DEF A
    <2> QED
      BY <1>1, <2>1
  <1>7. \A y : y \in B <=> \E i \in 1 .. Len(c) : \E j \in DOMAIN c[i] :
                                y = <<i, j>> /\ i # 1 /\ c[i][j].kind \in kinds
    <2>1. \A y : y \in InAll(c, kinds) <=>
                     \E i \in 1 .. Len(c) : \E j \in DOMAIN c[i] :
                         y = <<i, j>> /\ c[i][j].kind \in kinds
      BY InAllAre
    <2>2. \A y : y \in B <=> y \in InAll(c, kinds) /\ y[1] # 1
      OBVIOUS
    <2>3. \A i, j : <<i, j>>[1] = i
      OBVIOUS
    <2> HIDE DEF B
    <2> QED
      BY <2>1, <2>2, <2>3
  <1>8. g \in [A -> B]
    <2> SUFFICES ASSUME NEW x \in A PROVE <<x[1] + 1, x[2]>> \in B
      OBVIOUS
    <2>0. PICK i \in 1 .. Len(c) - 1 : \E j \in DOMAIN c[i + 1] :
                                x = <<i, j>> /\ c[i + 1][j].kind \in kinds
      BY <1>6
    <2>1. PICK j \in DOMAIN c[i + 1] :
                                x = <<i, j>> /\ c[i + 1][j].kind \in kinds
      BY <2>0
    <2>2. i + 1 \in 1 .. Len(c) /\ i + 1 # 1 /\ x[1] + 1 = i + 1 /\ x[2] = j
      BY <2>1, <1>1
    <2> QED
      BY <2>1, <2>2, <1>7
  <1>9. \A x, y \in A : g[x] = g[y] => x = y
    <2> SUFFICES ASSUME NEW x \in A, NEW y \in A,
                        <<x[1] + 1, x[2]>> = <<y[1] + 1, y[2]>>
                 PROVE  x = y
      OBVIOUS
    <2>1. PICK i \in Nat : \E j : x = <<i, j>>
      BY <1>1, <1>6
    <2>2. PICK k \in Nat : \E l : y = <<k, l>>
      BY <1>1, <1>6
    <2>3. x[1] = i /\ y[1] = k /\ x = <<i, x[2]>> /\ y = <<k, y[2]>>
      BY <2>1, <2>2
    <2>4. i + 1 = k + 1 /\ x[2] = y[2]
      BY <2>3
    <2> QED
      BY <2>3, <2>4
  <1>10. \A y \in B : \E x \in A : g[x] = y
    <2> SUFFICES ASSUME NEW y \in B PROVE \E x \in A : g[x] = y
      OBVIOUS
    <2>0. PICK i \in 1 .. Len(c) : \E j \in DOMAIN c[i] :
                                y = <<i, j>> /\ i # 1 /\ c[i][j].kind \in kinds
      BY <1>7
    <2>1. PICK j \in DOMAIN c[i] :
                                y = <<i, j>> /\ i # 1 /\ c[i][j].kind \in kinds
      BY <2>0
    <2>2. i - 1 \in 1 .. Len(c) - 1 /\ (i - 1) + 1 = i
      BY <2>1, <1>1
    <2>3. <<i - 1, j>> \in A
      BY <2>1, <2>2, <1>6
    <2>4. g[<<i - 1, j>>] = y
      BY <2>1, <2>2, <2>3
    <2> QED
      BY <2>3, <2>4
  <1>11. CountAll(c, kinds) = Cardinality(B \cup J)
    BY <1>2, CountAllInNat
  <1> HIDE DEF I, J, A, B, f, g
  <1>12. IsFiniteSet(J) /\ Cardinality(J) = Cardinality(I)
    BY <1>4, <1>5, SameCount
  <1>13. IsFiniteSet(B) /\ Cardinality(B) = Cardinality(A)
    BY <1>4, <1>8, <1>9, <1>10, SameCount
  <1>14. Cardinality(B \cup J) = Cardinality(B) + Cardinality(J)
    BY <1>3, <1>4, <1>12, <1>13, CountBoth
  <1> QED
    BY <1>4, <1>11, <1>12, <1>13, <1>14

-----------------------------------------------------------------------------
(* What an execution sends.                                                *)

\* The results of a file are messages, none a DoneFile; they are matches for the
\* outcomes that are matches and only for those.
LEMMA ResultsShape ==
    ASSUME NEW t \in Tasks, NEW o \in Outcomes
    PROVE  /\ Results(t, o) \in Seq(Message)
           /\ Len(Results(t, o)) \in 0 .. 2
           /\ o \in {"match", "rewrite"} => Len(Results(t, o)) = 1
           /\ o = "create" => Len(Results(t, o)) = 2
           /\ \A i \in 1 .. Len(Results(t, o)) :
                 /\ Results(t, o)[i].kind # "done"
                 /\ Results(t, o)[i].kind \in MatchKinds
                    <=> o \in {"match", "rewrite", "create"}
  <1>1. \A k \in {"match", "rewrite", "create", "log", "error"} :
            Msg(k, t) \in Message /\ Msg(k, t).kind = k
    BY DEF Msg, Message
  <1>2. CASE o = "create"
    <2>1. Results(t, o) = <<Msg("rewrite", t), Msg("create", t)>>
      BY <1>2 DEF Results
    <2>2. Results(t, o) \in Seq(Message) /\ Len(Results(t, o)) = 2
      BY <1>1, <2>1
    <2>3. \A i \in 1 .. 2 : Results(t, o)[i].kind \in {"rewrite", "create"}
      BY <1>1, <2>1
    <2> QED
      BY <1>2, <2>2, <2>3 DEF MatchKinds
  <1>3. CASE o = "parse_errors"
    <2>1. Results(t, o) = <<Msg("error", t), Msg("error", t)>>
      BY <1>3 DEF Results
    <2>2. Results(t, o) \in Seq(Message) /\ Len(Results(t, o)) = 2
      BY <1>1, <2>1
    <2>3. \A i \in 1 .. 2 : Results(t, o)[i].kind = "error"
      BY <1>1, <2>1
    <2> QED
      BY <1>3, <2>2, <2>3 DEF MatchKinds
  <1>4. CASE o = "clean"
    <2>1. Results(t, o) = <<>>
      BY <1>4 DEF Results
    <2>2. Results(t, o) \in Seq(Message) /\ Len(Results(t, o)) = 0
      BY <2>1
    <2> QED
      BY <1>4, <2>2
  <1>5. CASE o \in {"error", "logs", "match", "rewrite"}
    <2>1. \E k \in {"match", "rewrite", "log", "error"} :
              /\ Results(t, o) = <<Msg(k, t)>>
              /\ k \in MatchKinds <=> o \in {"match", "rewrite", "create"}
      BY <1>5 DEF Results, MatchKinds
    <2> QED
      BY <1>1, <1>5, <2>1
  <1> QED
    BY <1>2, <1>3, <1>4, <1>5, OutcomesAssumption

\* A DoneFile is a message.
LEMMA DoneShape ==
    ASSUME NEW t \in Tasks, NEW o
    PROVE  Done(t, o) \in Message /\ Done(t, o).kind = "done"
  BY DEF Done, Msg, Message

\* The matches that an outcome sends.
MatchesOf(o) == IF o \in {"match", "rewrite"} THEN 1 ELSE IF o = "create" THEN 2 ELSE 0

\* A file's vector ends with its DoneFile, the only one, and has its matches.
LEMMA OutputsCount ==
    ASSUME NEW t \in Tasks, NEW o \in Outcomes
    PROVE  /\ Outputs(t, o) \in Seq(Message) /\ Outputs(t, o) # <<>>
           /\ Outputs(t, o)[Len(Outputs(t, o))].kind = "done"
           /\ CountIn(Outputs(t, o), {"done"}) = 1
           /\ CountIn(Outputs(t, o), MatchKinds) = MatchesOf(o)
  <1> DEFINE r == Results(t, o)
             v == Outputs(t, o)
             n == Len(r)
  <1>1. /\ r \in Seq(Message) /\ n \in 0 .. 2
        /\ o \in {"match", "rewrite"} => n = 1
        /\ o = "create" => n = 2
        /\ \A i \in 1 .. n :
              /\ r[i].kind # "done"
              /\ r[i].kind \in MatchKinds <=> o \in {"match", "rewrite", "create"}
    BY ResultsShape
  <1>2. Done(t, o) \in Message /\ Done(t, o).kind = "done"
    BY DoneShape
  <1>3. v = r \o <<Done(t, o)>>
    BY DEF Outputs
  <1> HIDE DEF r, v, n
  <1>4. /\ v \in Seq(Message) /\ Len(v) = n + 1 /\ DOMAIN v = 1 .. n + 1
        /\ v[n + 1] = Done(t, o) /\ \A i \in 1 .. n : v[i] = r[i]
    BY <1>1, <1>2, <1>3 DEF n
  <1>5. In(v, {"done"}) = {n + 1}
    BY <1>1, <1>2, <1>4 DEF In
  <1>6. In(v, MatchKinds) = IF o \in {"match", "rewrite", "create"} THEN 1 .. n ELSE {}
    BY <1>1, <1>2, <1>4 DEF In, MatchKinds
  <1>7. CountIn(v, {"done"}) = 1
    BY <1>4, <1>5, CountInNat, FS_Singleton
  <1>8. CountIn(v, MatchKinds) = MatchesOf(o)
    <2>1. Cardinality(1 .. n) = n
      <3>1. Cardinality(1 .. n) = IF 1 > n THEN 0 ELSE n - 1 + 1
        BY <1>1, FS_Interval
      <3> QED
        BY <1>1, <3>1
    <2>2. CountIn(v, MatchKinds) = Cardinality(In(v, MatchKinds))
      BY <1>4, CountInNat
    <2> QED
      BY <1>1, <1>6, <2>1, <2>2, FS_EmptySet DEF MatchesOf
  <1>9. v # <<>> /\ v[Len(v)].kind = "done"
    BY <1>1, <1>2, <1>4
  <1> QED
    BY <1>4, <1>7, <1>8, <1>9 DEF v

\* The outputs of one file of a multifile problem: its results, and a DoneFile if
\* it is the one that has it for its path.
LEMMA FileOutputsShape ==
    ASSUME NEW o \in [Tasks -> Outcomes], NEW t \in Tasks
    PROVE  /\ FileOutputs(o, t) \in Seq(Message)
           /\ Len(FileOutputs(o, t)) =
                  Len(Results(t, o[t])) + (IF t \in Distinct THEN 1 ELSE 0)
           /\ Len(FileOutputs(o, t)) \in 0 .. 3
           /\ \A i \in 1 .. Len(Results(t, o[t])) :
                  FileOutputs(o, t)[i] = Results(t, o[t])[i]
           /\ t \in Distinct => FileOutputs(o, t)[Len(Results(t, o[t])) + 1].kind = "done"
  <1> DEFINE r == Results(t, o[t])
             n == Len(r)
             v == FileOutputs(o, t)
  <1>1. o[t] \in Outcomes
    OBVIOUS
  <1>2. r \in Seq(Message) /\ n \in 0 .. 2
    BY <1>1, ResultsShape
  <1>3. Done(t, o[t]) \in Message /\ Done(t, o[t]).kind = "done"
    BY DoneShape
  <1>4. v = r \o (IF t \in Distinct THEN <<Done(t, o[t])>> ELSE <<>>)
    BY DEF FileOutputs
  <1> HIDE DEF r, v
  <1>5. CASE t \in Distinct
    <2>1. v = r \o <<Done(t, o[t])>>
      BY <1>4, <1>5
    <2>2. /\ v \in Seq(Message) /\ Len(v) = n + 1
          /\ v[n + 1] = Done(t, o[t]) /\ \A i \in 1 .. n : v[i] = r[i]
      BY <1>2, <1>3, <2>1
    <2> QED
      BY <1>2, <1>3, <1>5, <2>2 DEF r, v
  <1>6. CASE t \notin Distinct
    <2>1. v = r
      BY <1>2, <1>4, <1>6
    <2> QED
      BY <1>2, <1>6, <2>1 DEF r, v
  <1> QED
    BY <1>5, <1>6

\* The parts of a multifile problem's vector are finitely many messages.
LEMMA PartsShape ==
    ASSUME NEW o \in [Tasks -> Outcomes]
    PROVE  /\ IsFiniteSet(Parts(o)) /\ Cardinality(Parts(o)) \in Nat
           /\ \A x \in Parts(o) : /\ Output(o, x) \in Message
                                  /\ x[1] \in Tasks /\ x[2] \in 1 .. 3
                                  /\ x = <<x[1], x[2]>>
           /\ \A t \in Tasks : \A k \in 1 .. 3 :
                  <<t, k>> \in Parts(o) <=> k \in 1 .. Len(FileOutputs(o, t))
  <1>1. \A t \in Tasks : /\ FileOutputs(o, t) \in Seq(Message)
                         /\ DOMAIN FileOutputs(o, t) = 1 .. Len(FileOutputs(o, t))
    BY FileOutputsShape
  <1>2. IsFiniteSet(Tasks \X (1 .. 3))
    <2>1. IsFiniteSet(1 .. 3)
      <3>1. \A b \in Int : IsFiniteSet(1 .. b)
        BY FS_Interval
      <3>2. 3 \in Int
        OBVIOUS
      <3> QED
        BY <3>1, <3>2, Zenon
    <2> QED
      BY <2>1, FS_Product, TasksAssumption
  <1>3. Parts(o) \in SUBSET (Tasks \X (1 .. 3))
    BY DEF Parts
  <1>4. IsFiniteSet(Parts(o)) /\ Cardinality(Parts(o)) \in Nat
    BY <1>2, <1>3, FS_Subset, FS_CardinalityType
  <1>5. ASSUME NEW x \in Parts(o) PROVE Output(o, x) \in Message
    <2>1. x[1] \in Tasks /\ x[2] \in 1 .. Len(FileOutputs(o, x[1]))
      BY <1>1 DEF Parts
    <2>2. FileOutputs(o, x[1]) \in Seq(Message)
      BY <1>1, <2>1
    <2> QED
      BY <2>1, <2>2 DEF Output
  <1>6. \A x \in Parts(o) : x[1] \in Tasks /\ x[2] \in 1 .. 3 /\ x = <<x[1], x[2]>>
    BY <1>3
  <1>7. ASSUME NEW t \in Tasks, NEW k \in 1 .. 3
        PROVE  <<t, k>> \in Parts(o) <=> k \in 1 .. Len(FileOutputs(o, t))
    <2>1. <<t, k>> \in Parts(o) <=> k \in DOMAIN FileOutputs(o, t)
      BY DEF Parts
    <2> QED
      BY <1>1, <2>1
  <1> QED
    BY <1>4, <1>5, <1>6, <1>7

\* The sort puts the parts in a line: each has a place of its own.
LEMMA PlacesDiffer ==
    ASSUME NEW o \in [Tasks -> Outcomes], NEW x \in Parts(o), NEW y \in Parts(o)
    PROVE  /\ Place(o, x) \in 1 .. Cardinality(Parts(o))
           /\ Place(o, x) = Place(o, y) => x = y
  <1> DEFINE Upto(z) == {w \in Parts(o) : w = z \/ Before(o, w, z)}
  <1>1. ASSUME NEW m \in Message PROVE Rank(m) \in 1 .. 5
    BY DEF Rank, Message
  <1>2. \A z \in Parts(o) : /\ Rank(Output(o, z)) \in 1 .. 5
                            /\ z[1] \in Nat /\ z[2] \in Nat
                            /\ z = <<z[1], z[2]>>
    BY <1>1, PartsShape, TasksAssumption
  <1>3. \A z, w \in Parts(o) : z # w => Before(o, z, w) \/ Before(o, w, z)
    BY <1>2 DEF Before
  <1>4. \A z, w \in Parts(o) : Before(o, z, w) => ~Before(o, w, z) /\ z # w
    BY <1>2 DEF Before
  <1>5. \A z, w, u \in Parts(o) : Before(o, z, w) /\ Before(o, w, u) => Before(o, z, u)
    BY <1>2 DEF Before
  <1>6. \A z \in Parts(o) : /\ IsFiniteSet(Upto(z)) /\ z \in Upto(z)
                            /\ Place(o, z) = Cardinality(Upto(z))
                            /\ Place(o, z) \in 1 .. Cardinality(Parts(o))
    <2> SUFFICES ASSUME NEW z \in Parts(o)
                 PROVE  /\ IsFiniteSet(Upto(z)) /\ z \in Upto(z)
                        /\ Place(o, z) = Cardinality(Upto(z))
                        /\ Place(o, z) \in 1 .. Cardinality(Parts(o))
      OBVIOUS
    <2>1. z \in Upto(z) /\ Upto(z) \in SUBSET Parts(o)
      OBVIOUS
    <2>2. Place(o, z) = Cardinality(Upto(z))
      BY DEF Place
    <2> HIDE DEF Upto
    <2>3. IsFiniteSet(Upto(z)) /\ Cardinality(Upto(z)) <= Cardinality(Parts(o))
      BY <2>1, PartsShape, FS_Subset
    <2>4. Cardinality(Upto(z)) \in Nat /\ Cardinality(Upto(z)) # 0
      BY <2>1, <2>3, FS_CardinalityType, FS_EmptySet
    <2> QED
      BY <2>1, <2>2, <2>3, <2>4, PartsShape
  <1>7. ASSUME NEW z \in Parts(o), NEW w \in Parts(o), Before(o, z, w)
        PROVE  Place(o, z) # Place(o, w)
    <2>1. Upto(z) \in SUBSET (Upto(w) \ {w})
      BY <1>4, <1>5, <1>7
    <2>2. w \in Upto(w) /\ IsFiniteSet(Upto(w)) /\ IsFiniteSet(Upto(z))
      BY <1>6
    <2> HIDE DEF Upto
    <2>3. /\ IsFiniteSet(Upto(w) \ {w})
          /\ Cardinality(Upto(w) \ {w}) = Cardinality(Upto(w)) - 1
      BY <2>2, FS_RemoveElement
    <2>4. Cardinality(Upto(z)) <= Cardinality(Upto(w) \ {w})
      BY <2>1, <2>3, FS_Subset
    <2>5. Cardinality(Upto(z)) \in Nat /\ Cardinality(Upto(w)) \in Nat
      BY <2>2, FS_CardinalityType
    <2>6. Place(o, z) = Cardinality(Upto(z)) /\ Place(o, w) = Cardinality(Upto(w))
      BY <1>6
    <2> QED
      BY <2>3, <2>4, <2>5, <2>6
  <1> HIDE DEF Upto
  <1> QED
    BY <1>3, <1>6, <1>7

\* The vector of a multifile problem has each of its parts once.
LEMMA MultifileHolds ==
    ASSUME NEW o \in [Tasks -> Outcomes], NEW kinds
    PROVE  /\ MultifileOutputs(o) \in Seq(Message)
           /\ CountIn(MultifileOutputs(o), kinds) =
                  Cardinality({x \in Parts(o) : Output(o, x).kind \in kinds})
  <1> DEFINE P == Parts(o)
             n == Cardinality(P)
             g == [x \in P |-> Place(o, x)]
             h == [i \in 1 .. n |-> CHOOSE x \in P : Place(o, x) = i]
             v == MultifileOutputs(o)
  <1>1. IsFiniteSet(P) /\ n \in Nat
    BY PartsShape
  <1>2. g \in Injection(P, 1 .. n)
    <2>1. g \in [P -> 1 .. n]
      BY PlacesDiffer
    <2>2. \A x, y \in P : g[x] = g[y] => x = y
      BY PlacesDiffer
    <2> HIDE DEF g, P, n
    <2> QED
      BY <2>1, <2>2, Fun_IsInj
  <1>3. g \in Surjection(P, 1 .. n)
    <2>1. IsFiniteSet(1 .. n)
      BY <1>1, FS_Interval
    <2>2. Cardinality(1 .. n) = IF 1 > n THEN 0 ELSE n - 1 + 1
      BY <1>1, FS_Interval
    <2>3. Cardinality(P) = n
      OBVIOUS
    <2> HIDE DEF g, P, n
    <2>4. Cardinality(1 .. n) = Cardinality(P)
      BY <1>1, <2>2, <2>3
    <2> QED
      BY <1>2, <2>1, <2>4, FS_Injection
  <1>4. \A i \in 1 .. n : \E x \in P : Place(o, x) = i
    <2>1. \A i \in 1 .. n : \E x \in P : g[x] = i
      <3> HIDE DEF g, P, n
      <3> QED
        BY <1>3, Fun_SurjectionProperties
    <2> QED
      BY <2>1
  <1>5. \A i \in 1 .. n : h[i] \in P /\ Place(o, h[i]) = i
    BY <1>4
  <1>6. v = [i \in 1 .. n |-> Output(o, h[i])]
    BY DEF MultifileOutputs
  <1> HIDE DEF P, n, g, h, v
  <1>7. \A x \in P : Output(o, x) \in Message
    BY PartsShape DEF P
  <1>8. /\ v \in Seq(Message) /\ DOMAIN v = 1 .. n
        /\ \A i \in 1 .. n : v[i] = Output(o, h[i])
    BY <1>1, <1>5, <1>6, <1>7
  <1> DEFINE I == In(v, kinds)
             T == {x \in P : Output(o, x).kind \in kinds}
             f == [i \in I |-> h[i]]
  <1>9. \A i \in I : i \in 1 .. n /\ Output(o, h[i]).kind \in kinds
    BY <1>8 DEF In
  <1>10. f \in [I -> T]
    BY <1>5, <1>9
  <1>11. \A i, j \in I : f[i] = f[j] => i = j
    BY <1>5, <1>9
  <1>12. ASSUME NEW x \in T PROVE \E i \in I : f[i] = x
    <2>1. x \in P /\ Place(o, x) \in 1 .. n
      BY PlacesDiffer DEF P, n
    <2>2. h[Place(o, x)] = x
      <3>1. h[Place(o, x)] \in P /\ Place(o, h[Place(o, x)]) = Place(o, x)
        BY <1>5, <2>1
      <3> QED
        BY <2>1, <3>1, PlacesDiffer DEF P
    <2>3. Place(o, x) \in I
      BY <1>8, <2>1, <2>2 DEF In
    <2> QED
      BY <2>2, <2>3
  <1>13. IsFiniteSet(I) /\ CountIn(v, kinds) = Cardinality(I)
    BY <1>8, CountInNat
  <1> HIDE DEF I, T, f
  <1>14. Cardinality(T) = Cardinality(I)
    BY <1>10, <1>11, <1>12, <1>13, SameCount
  <1> QED
    BY <1>8, <1>13, <1>14 DEF T, P, v

\* It has one DoneFile for each path and the matches of all files.
LEMMA MultifileCount ==
    ASSUME NEW o \in [Tasks -> Outcomes]
    PROVE  /\ MultifileOutputs(o) \in Seq(Message)
           /\ CountIn(MultifileOutputs(o), {"done"}) = Cardinality(Distinct)
           /\ CountIn(MultifileOutputs(o), MatchKinds) =
                  Cardinality({t \in Tasks : o[t] \in {"match", "rewrite"}})
                  + 2 * Cardinality({t \in Tasks : o[t] = "create"})
  <1> DEFINE P == Parts(o)
             r(t) == Len(Results(t, o[t]))
             D == {x \in P : Output(o, x).kind \in {"done"}}
             M == {x \in P : Output(o, x).kind \in MatchKinds}
             A == {t \in Tasks : o[t] \in {"match", "rewrite"}}
             C == {t \in Tasks : o[t] = "create"}
             AC == A \cup C
             M1 == {x \in M : x[2] = 1}
             M2 == {x \in M : x[2] # 1}
             d == [t \in Distinct |-> <<t, r(t) + 1>>]
             f == [t \in AC |-> <<t, 1>>]
             g == [t \in C |-> <<t, 2>>]
  <1>1. \A t \in Tasks :
            /\ r(t) \in 0 .. 2
            /\ t \in A => r(t) = 1
            /\ t \in C => r(t) = 2
            /\ \A i \in 1 .. r(t) :
                  /\ FileOutputs(o, t)[i].kind # "done"
                  /\ FileOutputs(o, t)[i].kind \in MatchKinds <=> t \in AC
            /\ Len(FileOutputs(o, t)) = r(t) + (IF t \in Distinct THEN 1 ELSE 0)
            /\ t \in Distinct => FileOutputs(o, t)[r(t) + 1].kind = "done"
    <2> SUFFICES ASSUME NEW t \in Tasks
                 PROVE
            /\ r(t) \in 0 .. 2
            /\ t \in A => r(t) = 1
            /\ t \in C => r(t) = 2
            /\ \A i \in 1 .. r(t) :
                  /\ FileOutputs(o, t)[i].kind # "done"
                  /\ FileOutputs(o, t)[i].kind \in MatchKinds <=> t \in AC
            /\ Len(FileOutputs(o, t)) = r(t) + (IF t \in Distinct THEN 1 ELSE 0)
            /\ t \in Distinct => FileOutputs(o, t)[r(t) + 1].kind = "done"
      OBVIOUS
    <2>1. o[t] \in Outcomes
      OBVIOUS
    <2>2. /\ Len(Results(t, o[t])) \in 0 .. 2
          /\ o[t] \in {"match", "rewrite"} => Len(Results(t, o[t])) = 1
          /\ o[t] = "create" => Len(Results(t, o[t])) = 2
          /\ \A i \in 1 .. Len(Results(t, o[t])) :
                 /\ Results(t, o[t])[i].kind # "done"
                 /\ Results(t, o[t])[i].kind \in MatchKinds
                    <=> o[t] \in {"match", "rewrite", "create"}
      BY <2>1, ResultsShape
    <2>3. /\ Len(FileOutputs(o, t)) =
                  Len(Results(t, o[t])) + (IF t \in Distinct THEN 1 ELSE 0)
          /\ \A i \in 1 .. Len(Results(t, o[t])) :
                  FileOutputs(o, t)[i] = Results(t, o[t])[i]
          /\ t \in Distinct => FileOutputs(o, t)[Len(Results(t, o[t])) + 1].kind = "done"
      BY FileOutputsShape
    <2>4. t \in AC <=> o[t] \in {"match", "rewrite", "create"}
      OBVIOUS
    <2> QED
      BY <2>2, <2>3, <2>4
  <1>2. ASSUME NEW t \in Tasks, NEW k \in 1 .. 3
        PROVE  /\ <<t, k>> \in P <=> k \in 1 .. r(t) + (IF t \in Distinct THEN 1 ELSE 0)
               /\ <<t, k>> \in D <=> t \in Distinct /\ k = r(t) + 1
               /\ <<t, k>> \in M <=> t \in AC /\ k \in 1 .. r(t)
    <2>1. <<t, k>> \in P <=> k \in 1 .. r(t) + (IF t \in Distinct THEN 1 ELSE 0)
      <3>1. <<t, k>> \in P <=> k \in 1 .. Len(FileOutputs(o, t))
        BY PartsShape
      <3>2. Len(FileOutputs(o, t)) = r(t) + (IF t \in Distinct THEN 1 ELSE 0)
        BY <1>1
      <3> QED
        BY <3>1, <3>2
    <2>2. Output(o, <<t, k>>) = FileOutputs(o, t)[k]
      BY DEF Output
    <2>3. /\ r(t) \in 0 .. 2
          /\ \A i \in 1 .. r(t) :
                /\ FileOutputs(o, t)[i].kind # "done"
                /\ FileOutputs(o, t)[i].kind \in MatchKinds <=> t \in AC
          /\ t \in Distinct => FileOutputs(o, t)[r(t) + 1].kind = "done"
      BY <1>1
    <2>4. <<t, k>> \in P => k \in 1 .. r(t) \/ (t \in Distinct /\ k = r(t) + 1)
      BY <2>1, <2>3
    <2>5. k \in 1 .. r(t) \/ (t \in Distinct /\ k = r(t) + 1) => <<t, k>> \in P
      BY <2>1, <2>3
    <2> HIDE DEF P, AC, r
    <2>6. /\ <<t, k>> \in D <=> t \in Distinct /\ k = r(t) + 1
          /\ <<t, k>> \in M <=> t \in AC /\ k \in 1 .. r(t)
      BY <2>2, <2>3, <2>4, <2>5 DEF MatchKinds
    <2> QED
      BY <2>1, <2>6 
  <1>3. \A x \in P : x[1] \in Tasks /\ x[2] \in 1 .. 3 /\ x = <<x[1], x[2]>>
    BY PartsShape
  <1>4. Distinct \subseteq Tasks /\ A \subseteq Tasks /\ C \subseteq Tasks /\ A \cap C = {}
    BY DEF Distinct
  <1>5. /\ IsFiniteSet(Distinct) /\ IsFiniteSet(A) /\ IsFiniteSet(C) /\ IsFiniteSet(AC)
        /\ Cardinality(AC) = Cardinality(A) + Cardinality(C)
    <2>1. IsFiniteSet(Distinct) /\ IsFiniteSet(A) /\ IsFiniteSet(C)
      BY <1>4, TasksAssumption, FS_Subset
    <2> HIDE DEF A, C
    <2> QED
      BY <1>4, <2>1, CountBoth
  <1>6. Cardinality(D) = Cardinality(Distinct)
    <2>1. d \in [Distinct -> D]
      <3> SUFFICES ASSUME NEW t \in Distinct PROVE <<t, r(t) + 1>> \in D
        OBVIOUS
      <3>1. t \in Tasks /\ r(t) \in 0 .. 2
        BY <1>1, <1>4
      <3> HIDE DEF D, r
      <3>2. r(t) + 1 \in 1 .. 3
        BY <3>1
      <3> QED
        BY <1>2, <3>1, <3>2
    <2>2. \A t, u \in Distinct : d[t] = d[u] => t = u
      OBVIOUS
    <2>3. ASSUME NEW x \in D PROVE \E t \in Distinct : d[t] = x
      <3>1. x[1] \in Tasks /\ x[2] \in 1 .. 3 /\ x = <<x[1], x[2]>> /\ <<x[1], x[2]>> \in D
        BY <1>3
      <3>2. x[1] \in Distinct /\ x[2] = r(x[1]) + 1
        <4> HIDE DEF D, r
        <4> QED
          BY <1>2, <3>1
      <3>3. d[x[1]] = x
        BY <3>1, <3>2
      <3> QED
        BY <3>2, <3>3
    <2> HIDE DEF d, D
    <2> QED
      BY <1>5, <2>1, <2>2, <2>3, SameCount
  <1>7. IsFiniteSet(M1) /\ Cardinality(M1) = Cardinality(AC)
    <2>1. f \in [AC -> M1]
      <3> SUFFICES ASSUME NEW t \in AC PROVE <<t, 1>> \in M
        OBVIOUS
      <3>1. t \in Tasks /\ r(t) \in 1 .. 2
        BY <1>1, <1>4
      <3> HIDE DEF M, r, AC
      <3>2. 1 \in 1 .. r(t) /\ 1 \in 1 .. 3
        BY <3>1
      <3> QED
        BY <1>2, <3>1, <3>2
    <2>2. \A t, u \in AC : f[t] = f[u] => t = u
      OBVIOUS
    <2>3. ASSUME NEW x \in M1 PROVE \E t \in AC : f[t] = x
      <3>1. x[1] \in Tasks /\ x[2] = 1 /\ x = <<x[1], 1>> /\ <<x[1], 1>> \in M
        BY <1>3
      <3>2. x[1] \in AC
        <4>1. 1 \in 1 .. 3
          OBVIOUS
        <4> HIDE DEF M, r, AC
        <4> QED
          BY <1>2, <3>1, <4>1
      <3>3. f[x[1]] = x
        BY <3>1, <3>2
      <3> QED
        BY <3>2, <3>3
    <2> HIDE DEF f, M1, AC
    <2> QED
      BY <1>5, <2>1, <2>2, <2>3, SameCount
  <1>8. IsFiniteSet(M2) /\ Cardinality(M2) = Cardinality(C)
    <2>1. g \in [C -> M2]
      <3> SUFFICES ASSUME NEW t \in C PROVE <<t, 2>> \in M
        OBVIOUS
      <3>1. t \in Tasks /\ t \in AC /\ r(t) = 2
        BY <1>1, <1>4
      <3> HIDE DEF M, r, AC
      <3>2. 2 \in 1 .. r(t) /\ 2 \in 1 .. 3
        BY <3>1
      <3> QED
        BY <1>2, <3>1, <3>2
    <2>2. \A t, u \in C : g[t] = g[u] => t = u
      OBVIOUS
    <2>3. ASSUME NEW x \in M2 PROVE \E t \in C : g[t] = x
      <3>1. x[1] \in Tasks /\ x[2] \in 1 .. 3 /\ x[2] # 1
            /\ x = <<x[1], x[2]>> /\ <<x[1], x[2]>> \in M
        BY <1>3
      <3>2. x[1] \in AC /\ x[2] \in 1 .. r(x[1])
        <4> HIDE DEF M, r, AC
        <4> QED
          BY <1>2, <3>1
      <3>3. x[1] \in C /\ x[2] = 2
        <4>1. r(x[1]) \in 0 .. 2 /\ (x[1] \in A => r(x[1]) = 1)
          BY <1>1, <3>1
        <4> HIDE DEF A, C, r
        <4> QED
          BY <3>1, <3>2, <4>1
      <3>4. g[x[1]] = x
        BY <3>1, <3>3
      <3> QED
        BY <3>3, <3>4
    <2> HIDE DEF g, M2, C
    <2> QED
      BY <1>5, <2>1, <2>2, <2>3, SameCount
  <1>9. Cardinality(M) = Cardinality(M1) + Cardinality(M2)
    <2>1. M = M1 \cup M2 /\ M1 \cap M2 = {}
      OBVIOUS
    <2> HIDE DEF M, M1, M2
    <2> QED
      BY <1>7, <1>8, <2>1, CountBoth
  <1>10. /\ MultifileOutputs(o) \in Seq(Message)
         /\ CountIn(MultifileOutputs(o), {"done"}) = Cardinality(D)
         /\ CountIn(MultifileOutputs(o), MatchKinds) = Cardinality(M)
    BY MultifileHolds
  <1>11. Cardinality(A) \in Nat /\ Cardinality(C) \in Nat
    BY <1>5, FS_CardinalityType
  <1>12. Cardinality(M) = Cardinality(A) + 2 * Cardinality(C)
    <2> HIDE DEF A, AC, C, M, M1, M2
    <2> QED
      BY <1>5, <1>7, <1>8, <1>9, <1>11
  <1> QED
    BY <1>6, <1>10, <1>12

-----------------------------------------------------------------------------
(* Types.                                                                  *)

\* The head of a vector is a message of a known path, the rest is a vector.
LEMMA HeadTyped ==
    ASSUME TypeOK, Handling
    PROVE  /\ Head(inbox) \in Message /\ PathOf[Head(inbox).of] \in Paths
           /\ Tail(inbox) \in Seq(Message)
  <1>1. inbox \in Seq(Message) /\ inbox # <<>>
    BY DEF TypeOK, Handling
  <1>2. Head(inbox) \in Message /\ Tail(inbox) \in Seq(Message)
    BY <1>1
  <1>3. Head(inbox).of \in Tasks
    BY <1>2 DEF Message
  <1> QED
    BY <1>2, <1>3, PathsAssumption

\* Whatever is sent, the channel holds vectors of messages.
LEMMA SendTyped ==
    ASSUME TypeOK, NEW v \in Seq(Message), Send(v)
    PROVE  chan' \in Seq(Seq(Message))
  BY DEF TypeOK, Send

\* What writing, counting and remembering leave behind.
LEMMA HandledTyped ==
    ASSUME TypeOK, NEW m \in Message
    PROVE  /\ Count(m) => processed' \in Nat /\ matched' \in Nat
           /\ Remember(m) => parse_errors' \subseteq Paths
           /\ ApplyRewrite(m) => /\ disk' \in [Paths -> {"original", "rewritten", "suppressed"}]
                                 /\ created' \subseteq Paths
           /\ Accept => interactive' \in BOOLEAN
           /\ WhenFailing(m) => /\ disk' \in [Paths -> {"original", "rewritten", "suppressed"}]
                                /\ created' \subseteq Paths /\ interactive' \in BOOLEAN
  <1>1. PathOf[m.of] \in Paths
    BY PathsAssumption DEF Message
  <1>2. Count(m) => processed' \in Nat /\ matched' \in Nat
    BY DEF Count, TypeOK
  <1>3. Remember(m) => parse_errors' \subseteq Paths
    BY <1>1 DEF Remember, TypeOK
  <1>4. ApplyRewrite(m) => /\ disk' \in [Paths -> {"original", "rewritten", "suppressed"}]
                           /\ created' \subseteq Paths
    BY <1>1 DEF ApplyRewrite, TypeOK
  <1>5. Accept => interactive' \in BOOLEAN
    BY DEF Accept, TypeOK
  <1>6. WhenFailing(m) => /\ disk' \in [Paths -> {"original", "rewritten", "suppressed"}]
                          /\ created' \subseteq Paths /\ interactive' \in BOOLEAN
    BY <1>4, <1>5 DEF WhenFailing, TypeOK
  <1> QED
    BY <1>2, <1>3, <1>4, <1>5, <1>6

\* The first state has its types.
LEMMA InitTyped == Init => TypeOK
  <1> SUFFICES ASSUME Init PROVE TypeOK
    OBVIOUS
  <1>1. <<>> \in Seq(Message) /\ <<>> \in Seq(Seq(Message)) /\ 1 \in 1 .. MaxRuns
    BY BoundsAssumption
  <1> QED
    BY <1>1 DEF Init, TypeOK

\* Executing files keeps the types.
LEMMA WorkersTyped ==
    ASSUME TypeOK, (\E t \in Tasks : Worker(t)) \/ ExecuteMultifile
    PROVE  TypeOK'
  <1>1. ASSUME NEW t \in Tasks, Claim(t) PROVE TypeOK'
    BY <1>1 DEF Claim, TypeOK, consumerVars, settings
  <1>2. ASSUME NEW t \in Tasks, ExecuteFile(t) PROVE TypeOK'
    <2>1. PICK o \in Outcomes : outcome' = [outcome EXCEPT ![t] = o] /\ Send(Outputs(t, o))
      BY <1>2 DEF ExecuteFile
    <2>2. chan' \in Seq(Seq(Message))
      BY <2>1, OutputsCount, SendTyped
    <2>3. outcome' \in [Tasks -> Outcomes \union {"none"}]
      BY <2>1 DEF TypeOK
    <2> QED
      BY <1>2, <2>2, <2>3 DEF ExecuteFile, TypeOK, consumerVars, settings
  <1>3. CASE ExecuteMultifile
    <2>1. PICK o \in [Tasks -> Outcomes] : outcome' = o /\ Send(MultifileOutputs(o))
      BY <1>3 DEF ExecuteMultifile
    <2>2. chan' \in Seq(Seq(Message))
      BY <2>1, MultifileCount, SendTyped
    <2>3. outcome' \in [Tasks -> Outcomes \union {"none"}]
      BY <2>1
    <2> QED
      BY <1>3, <2>2, <2>3 DEF ExecuteMultifile, TypeOK, consumerVars, settings
  <1> QED
    BY <1>1, <1>2, <1>3 DEF Worker

\* Handling a message keeps the types.
LEMMA HandleTyped ==
    ASSUME TypeOK, Handle
    PROVE  TypeOK'
  <1>0. Handling
    BY DEF Handle, HandleReport, HandleAccepted, HandleRejected, HandleSuppressed,
           HandleQuit, HandleErr, HandlePanics
  <1> DEFINE m == Head(inbox)
  <1>1. m \in Message /\ PathOf[m.of] \in Paths /\ Tail(inbox) \in Seq(Message)
    BY <1>0, HeadTyped
  <1>2. <<>> \in Seq(Message) /\ <<>> \in Seq(Seq(Message))
    OBVIOUS
  <1>3. Count(m)
    BY DEF Handle, HandleReport, HandleAccepted, HandleRejected, HandleSuppressed,
           HandleQuit, HandleErr, HandlePanics
  <1>4. processed' \in Nat /\ matched' \in Nat
    BY <1>1, <1>3, HandledTyped
  <1>5. UNCHANGED <<workerVars, settings, puts, main>>
    BY DEF Handle, HandleReport, HandleAccepted, HandleRejected, HandleSuppressed,
           HandleQuit, HandleErr, HandlePanics
  <1> HIDE DEF m
  <1>6. CASE HandleReport
    <2>1. parse_errors' \subseteq Paths
      BY <1>1, <1>6, HandledTyped DEF HandleReport, m
    <2> QED
      BY <1>1, <1>4, <1>5, <1>6, <2>1 DEF HandleReport, TypeOK, workerVars, settings
  <1>7. CASE HandleAccepted
    <2>1. /\ disk' \in [Paths -> {"original", "rewritten", "suppressed"}]
          /\ created' \subseteq Paths /\ interactive' \in BOOLEAN
      BY <1>1, <1>7, HandledTyped DEF HandleAccepted, m
    <2> QED
      BY <1>1, <1>4, <1>5, <1>7, <2>1 DEF HandleAccepted, TypeOK, workerVars, settings
  <1>8. CASE HandleRejected
    BY <1>1, <1>4, <1>5, <1>8 DEF HandleRejected, TypeOK, workerVars, settings
  <1>9. CASE HandleSuppressed
    <2>1. disk' \in [Paths -> {"original", "rewritten", "suppressed"}]
      BY <1>1, <1>9 DEF HandleSuppressed, TypeOK, m
    <2> QED
      BY <1>1, <1>4, <1>5, <1>9, <2>1 DEF HandleSuppressed, TypeOK, workerVars, settings
  <1>10. CASE HandleQuit
    BY <1>2, <1>4, <1>5, <1>10 DEF HandleQuit, TypeOK, workerVars, settings
  <1>11. CASE HandleErr
    <2>1. /\ disk' \in [Paths -> {"original", "rewritten", "suppressed"}]
          /\ created' \subseteq Paths /\ interactive' \in BOOLEAN
          /\ parse_errors' \subseteq Paths
      BY <1>1, <1>11, HandledTyped DEF HandleErr, m
    <2> QED
      BY <1>2, <1>4, <1>5, <1>11, <2>1 DEF HandleErr, TypeOK, workerVars, settings
  <1>12. CASE HandlePanics
    <2>1. /\ disk' \in [Paths -> {"original", "rewritten", "suppressed"}]
          /\ created' \subseteq Paths /\ interactive' \in BOOLEAN
          /\ parse_errors' \subseteq Paths
      BY <1>1, <1>12, HandledTyped DEF HandlePanics, m
    <2> QED
      BY <1>2, <1>4, <1>5, <1>12, <2>1 DEF HandlePanics, TypeOK, workerVars, settings
  <1> QED
    BY <1>6, <1>7, <1>8, <1>9, <1>10, <1>11, <1>12 DEF Handle

\* So do the other steps of the consumer.
LEMMA ConsumerTyped ==
    ASSUME TypeOK, StartConsumer \/ Receive \/ ChannelClosed \/ VectorHandled
    PROVE  TypeOK'
  <1>1. CASE Receive
    <2>1. Head(chan) \in Seq(Message) /\ Tail(chan) \in Seq(Seq(Message))
      BY <1>1 DEF Receive, TypeOK
    <2>2. Learned(Head(chan)) \subseteq Paths
      <3>1. ASSUME NEW x \in ToSet(Head(chan)) PROVE x.of \in Tasks
        <4> DEFINE v == Head(chan)
        <4>1. v \in Seq(Message)
          BY <2>1
        <4> HIDE DEF v
        <4>2. \A i \in DOMAIN v : v[i] \in Message
          BY <4>1
        <4>3. \E i \in DOMAIN v : x = v[i]
          BY <3>1 DEF ToSet, v
        <4> QED
          BY <4>2, <4>3 DEF Message
      <3> QED
        BY <3>1, PathsAssumption DEF Learned
    <2>3. puts' \subseteq Paths
      BY <1>1, <2>2 DEF Receive, TypeOK
    <2> QED
      BY <1>1, <2>1, <2>3 DEF Receive, TypeOK, workerVars, settings
  <1>2. CASE StartConsumer
    BY <1>2 DEF StartConsumer, TypeOK, workerVars, consumerVars, settings
  <1>3. CASE ChannelClosed
    BY <1>3 DEF ChannelClosed, TypeOK, workerVars, consumerVars, settings
  <1>4. CASE VectorHandled
    BY <1>4 DEF VectorHandled, TypeOK, workerVars, consumerVars, settings
  <1> QED
    BY <1>1, <1>2, <1>3, <1>4

\* And those of the main thread.
LEMMA MainTyped ==
    ASSUME TypeOK, Executed \/ LeaveLoop \/ Report \/ NextRun \/ Spin \/ Stay
                   \/ UNCHANGED vars
    PROVE  TypeOK'
  <1>1. CASE NextRun
    <2>1. run' \in 1 .. MaxRuns
      BY <1>1, BoundsAssumption DEF NextRun, TypeOK
    <2>2. <<>> \in Seq(Message) /\ <<>> \in Seq(Seq(Message))
      OBVIOUS
    <2>3. interactive' \in BOOLEAN
      BY <1>1 DEF NextRun
    <2> QED
      BY <1>1, <2>1, <2>2, <2>3 DEF NextRun, TypeOK
  <1>2. CASE Executed \/ LeaveLoop \/ Report
    BY <1>2 DEF Executed, LeaveLoop, Report, TypeOK, workerVars, consumerVars, settings
  <1>3. CASE Spin \/ Stay \/ UNCHANGED vars
    BY <1>3 DEF Spin, Stay, vars, TypeOK
  <1> QED
    BY <1>1, <1>2, <1>3

\* Every step keeps the types.
LEMMA StepTyped == TypeOK /\ [Next]_vars => TypeOK'
  <1> SUFFICES ASSUME TypeOK, [Next]_vars PROVE TypeOK'
    OBVIOUS
  <1>1. CASE (\E t \in Tasks : Worker(t)) \/ ExecuteMultifile
    BY <1>1, WorkersTyped
  <1>2. CASE Handle
    BY <1>2, HandleTyped
  <1>3. CASE StartConsumer \/ Receive \/ ChannelClosed \/ VectorHandled
    BY <1>3, ConsumerTyped
  <1>4. CASE Executed \/ LeaveLoop \/ Report \/ NextRun \/ Spin \/ Stay \/ UNCHANGED vars
    BY <1>4, MainTyped
  <1> QED
    BY <1>1, <1>2, <1>3, <1>4 DEF Next, Consume, Main

\* In every state of every run the variables have their types.
THEOREM ApplyTyped == Spec => []TypeOK
  BY InitTyped, StepTyped, PTL DEF Spec

-----------------------------------------------------------------------------
(* Who is how far: facts about the order of things in one apply, without   *)
(* the counts.                                                             *)

\* Only a consumer that handles a vector holds messages.
EmptyHands == consumer # "handling" => inbox = <<>>

\* A file that was not sent has no outcome; once main waits, all were sent.
NotYet == \A t \in Tasks : task[t] # "sent" => outcome[t] = "none"
AllSent == main # "executing" => \A t \in Tasks : task[t] = "sent"

\* The files of a multifile problem are executed together.
AtOnce ==
    arg.is_multifile => \/ \A t \in Tasks : task[t] = "todo"
                        \/ \A t \in Tasks : task[t] = "sent"

\* How the consumer stops without a quit: by a panic, or at the end of the
\* channel, when nothing more can be sent.
Panics == consumer = "panicked" => failed
Closed == consumer = "stopped" /\ should_continue => main # "executing" /\ chan = <<>>

\* Why main went on.
Left == main \in {"joining", "reported"} /\ should_continue => AllProcessed
Joined == main = "reported" => consumer = "stopped"

Ordered == EmptyHands /\ NotYet /\ AllSent /\ AtOnce /\ Panics /\ Closed /\ Left /\ Joined

\* Sets of tasks are finite.
LEMMA TasksFinite ==
    ASSUME NEW S, S \subseteq Tasks
    PROVE  /\ IsFiniteSet(S) /\ Cardinality(S) \in Nat
           /\ Cardinality(S) <= Cardinality(Tasks) /\ Cardinality(Tasks) \in Nat
  BY TasksAssumption, FS_Subset, FS_CardinalityType

\* The first state is in order.
LEMMA InitOrdered == Init => Ordered
  BY DEF Init, Ordered, EmptyHands, NotYet, AllSent, AtOnce, Panics, Closed, Left, Joined

\* The workers keep the order: they send while main executes, and then no more.
LEMMA WorkersOrdered ==
    ASSUME TypeOK, Ordered, (\E t \in Tasks : Worker(t)) \/ ExecuteMultifile
    PROVE  Ordered'
  <1>1. ASSUME NEW t \in Tasks, Claim(t) PROVE Ordered'
    <2>1. /\ UNCHANGED <<outcome, chan, consumer, inbox, main, processed, failed,
                         should_continue, arg>>
          /\ main = "executing" /\ ~arg.is_multifile /\ task[t] = "todo"
          /\ \A u \in Tasks : u # t => task'[u] = task[u]
      BY <1>1 DEF Claim, consumerVars, settings, TypeOK
    <2>2. NotYet' /\ AllSent' /\ AtOnce'
      BY <2>1 DEF Ordered, NotYet, AllSent, AtOnce
    <2> QED
      BY <2>1, <2>2 DEF Ordered, EmptyHands, Panics, Closed, Left, Joined, AllProcessed
  <1>2. ASSUME NEW t \in Tasks, ExecuteFile(t) PROVE Ordered'
    <2>1. /\ UNCHANGED <<consumer, inbox, main, processed, failed, should_continue, arg>>
          /\ task[t] = "running" /\ task' = [task EXCEPT ![t] = "sent"]
          /\ \E o \in Outcomes : outcome' = [outcome EXCEPT ![t] = o]
      BY <1>2 DEF ExecuteFile, consumerVars, settings
    <2>2. main = "executing" /\ ~arg.is_multifile
      BY <2>1 DEF Ordered, AllSent, AtOnce
    <2>3. task'[t] = "sent" /\ \A u \in Tasks : u # t => task'[u] = task[u]
                                                       /\ outcome'[u] = outcome[u]
      BY <2>1 DEF TypeOK
    <2>4. NotYet' /\ AllSent' /\ AtOnce'
      BY <2>1, <2>2, <2>3 DEF Ordered, NotYet, AllSent, AtOnce
    <2> QED
      BY <2>1, <2>2, <2>4
      DEF Ordered, EmptyHands, Panics, Closed, Left, Joined, AllProcessed
  <1>3. CASE ExecuteMultifile
    <2>1. /\ UNCHANGED <<consumer, inbox, main, processed, failed, should_continue, arg>>
          /\ main = "executing" /\ \A u \in Tasks : task'[u] = "sent"
      BY <1>3 DEF ExecuteMultifile, consumerVars, settings
    <2> QED
      BY <2>1 DEF Ordered, EmptyHands, NotYet, AllSent, AtOnce, Panics, Closed, Left,
                  Joined, AllProcessed
  <1> QED
    BY <1>1, <1>2, <1>3 DEF Worker

\* The consumer keeps it: it counts up, and stops for a reason.
LEMMA ConsumeOrdered ==
    ASSUME TypeOK, Ordered, Consume
    PROVE  Ordered'
  <1>1. UNCHANGED <<task, outcome, main, arg>>
    BY DEF Consume, Handle, StartConsumer, Receive, ChannelClosed, VectorHandled,
           HandleReport, HandleAccepted, HandleRejected, HandleSuppressed, HandleQuit,
           HandleErr, HandlePanics, workerVars, settings
  <1>2. NotYet' /\ AllSent' /\ AtOnce'
    BY <1>1 DEF Ordered, NotYet, AllSent, AtOnce
  <1>3. /\ processed \in Nat /\ processed' \in Nat /\ processed' >= processed
        /\ (should_continue' => should_continue)
    <2>1. CASE Handle
      <3>1. Count(Head(inbox))
        BY <2>1 DEF Handle, HandleReport, HandleAccepted, HandleRejected,
                    HandleSuppressed, HandleQuit, HandleErr, HandlePanics
      <3>2. should_continue' => should_continue
        BY <2>1 DEF Handle, HandleReport, HandleAccepted, HandleRejected,
                    HandleSuppressed, HandleQuit, HandleErr, HandlePanics
      <3> QED
        BY <3>1, <3>2 DEF Count, TypeOK
    <2>2. CASE StartConsumer \/ Receive \/ ChannelClosed \/ VectorHandled
      BY <2>2 DEF StartConsumer, Receive, ChannelClosed, VectorHandled, consumerVars, TypeOK
    <2> QED
      BY <2>1, <2>2 DEF Consume
  <1>4. Left'
    <2>1. Cardinality(Tasks) \in Nat
      BY TasksFinite
    <2>2. AllProcessed => AllProcessed'
      BY <1>3, <2>1 DEF AllProcessed, found_count
    <2> QED
      BY <1>1, <1>3, <2>2 DEF Ordered, Left
  <1>5. EmptyHands' /\ Panics' /\ Closed' /\ Joined'
    <2>1. CASE Handle
      BY <1>1, <2>1 DEF Ordered, EmptyHands, Panics, Closed, Joined, Handle, Handling,
                  HandleReport, HandleAccepted, HandleRejected, HandleSuppressed,
                  HandleQuit, HandleErr, HandlePanics
    <2>2. CASE StartConsumer \/ ChannelClosed \/ VectorHandled
      BY <1>1, <2>2 DEF Ordered, EmptyHands, Panics, Closed, Joined, StartConsumer,
                  ChannelClosed, VectorHandled, consumerVars
    <2>3. CASE Receive
      BY <1>1, <2>3 DEF Ordered, EmptyHands, Panics, Closed, Joined, Receive
    <2> QED
      BY <2>1, <2>2, <2>3 DEF Consume
  <1> QED
    BY <1>2, <1>4, <1>5 DEF Ordered

\* Main keeps it: it leaves the loop when all is processed and reports when the
\* consumer has stopped.
LEMMA MainOrdered ==
    ASSUME TypeOK, Ordered, Executed \/ LeaveLoop \/ Report \/ NextRun \/ Spin \/ Stay
                            \/ UNCHANGED vars
    PROVE  Ordered'
  <1>1. CASE NextRun
    BY <1>1 DEF NextRun, Ordered, EmptyHands, NotYet, AllSent, AtOnce, Panics, Closed,
                Left, Joined
  <1>2. CASE Executed
    BY <1>2 DEF Executed, Ordered, EmptyHands, NotYet, AllSent, AtOnce, Panics, Closed,
                Left, Joined, workerVars, consumerVars, settings
  <1>3. CASE LeaveLoop
    BY <1>3 DEF LeaveLoop, Ordered, EmptyHands, NotYet, AllSent, AtOnce, Panics, Closed,
                Left, Joined, AllProcessed, workerVars, consumerVars, settings
  <1>4. CASE Report
    BY <1>4 DEF Report, Ordered, EmptyHands, NotYet, AllSent, AtOnce, Panics, Closed,
                Left, Joined, AllProcessed, workerVars, consumerVars, settings
  <1>5. CASE Spin \/ Stay \/ UNCHANGED vars
    BY <1>5 DEF Spin, Stay, vars, Ordered, EmptyHands, NotYet, AllSent, AtOnce, Panics,
                Closed, Left, Joined, AllProcessed
  <1> QED
    BY <1>1, <1>2, <1>3, <1>4, <1>5

\* Every step keeps the order.
LEMMA StepOrdered == TypeOK /\ Ordered /\ [Next]_vars => Ordered'
  <1> SUFFICES ASSUME TypeOK, Ordered, [Next]_vars PROVE Ordered'
    OBVIOUS
  <1>1. CASE (\E t \in Tasks : Worker(t)) \/ ExecuteMultifile
    BY <1>1, WorkersOrdered
  <1>2. CASE Consume
    BY <1>2, ConsumeOrdered
  <1>3. CASE Executed \/ LeaveLoop \/ Report \/ NextRun \/ Spin \/ Stay \/ UNCHANGED vars
    BY <1>3, MainOrdered
  <1> QED
    BY <1>1, <1>2, <1>3 DEF Next, Main

-----------------------------------------------------------------------------
(* What was sent, by the outcomes of the executions.                       *)

Ran(out) == {t \in Tasks : out[t] # "none"}
Found(out) == {t \in Tasks : out[t] \in {"match", "rewrite"}}
Creating(out) == {t \in Tasks : out[t] = "create"}
MatchesIn(out) == Cardinality(Found(out)) + 2 * Cardinality(Creating(out))

\* The counts of the model, of one state and the next.
LEMMA SentCounts ==
    /\ MatchesSent = MatchesIn(outcome)
    /\ MatchesSent' = MatchesIn(outcome')
    /\ DonesSent = Cardinality(IF arg.is_multifile THEN Ran(outcome) \cap Distinct
                               ELSE Ran(outcome))
    /\ DonesSent' = Cardinality(IF arg'.is_multifile THEN Ran(outcome') \cap Distinct
                                ELSE Ran(outcome'))
  <1>1. ASSUME NEW out
        PROVE  /\ {t \in Ran(out) : out[t] \in {"match", "rewrite"}} = Found(out)
               /\ {t \in Ran(out) : out[t] = "create"} = Creating(out)
    BY DEF Ran, Found, Creating
  <1>2. Executions = Ran(outcome) /\ Executions' = Ran(outcome')
    BY DEF Executions, Ran
  <1>3. MatchesSent = MatchesIn(outcome)
    BY <1>1, <1>2 DEF MatchesSent, MatchesIn
  <1>4. MatchesSent' = MatchesIn(outcome')
    BY <1>1, <1>2 DEF MatchesSent, MatchesIn
  <1>5. DonesSent = Cardinality(IF arg.is_multifile THEN Ran(outcome) \cap Distinct
                                ELSE Ran(outcome))
    BY <1>2 DEF DonesSent
  <1>6. DonesSent' = Cardinality(IF arg'.is_multifile THEN Ran(outcome') \cap Distinct
                                 ELSE Ran(outcome'))
    BY <1>2 DEF DonesSent
  <1> QED
    BY <1>3, <1>4, <1>5, <1>6

\* Nothing was sent before the first execution.
LEMMA SentNone ==
    ASSUME NEW out, \A t \in Tasks : out[t] = "none"
    PROVE  MatchesIn(out) = 0 /\ Ran(out) = {} /\ Cardinality({}) = 0
  <1>1. Found(out) = {} /\ Creating(out) = {} /\ Ran(out) = {}
    BY DEF Found, Creating, Ran
  <1> QED
    BY <1>1, FS_EmptySet DEF MatchesIn

\* One more execution adds its own matches and its DoneFile.
LEMMA SentOne ==
    ASSUME NEW out \in [Tasks -> Outcomes \union {"none"}], NEW t \in Tasks,
           out[t] = "none", NEW o \in Outcomes
    PROVE  /\ MatchesIn([out EXCEPT ![t] = o]) = MatchesIn(out) + MatchesOf(o)
           /\ Cardinality(Ran([out EXCEPT ![t] = o])) = Cardinality(Ran(out)) + 1
  <1> DEFINE new == [out EXCEPT ![t] = o]
  <1>1. /\ new[t] = o /\ \A u \in Tasks : u # t => new[u] = out[u]
        /\ o # "none"
    BY OutcomesAssumption
  <1> HIDE DEF new
  <1>2. /\ IsFiniteSet(Ran(out)) /\ IsFiniteSet(Found(out)) /\ IsFiniteSet(Creating(out))
        /\ Cardinality(Found(out)) \in Nat /\ Cardinality(Creating(out)) \in Nat
    BY TasksFinite DEF Ran, Found, Creating
  <1>3. t \notin Ran(out) /\ t \notin Found(out) /\ t \notin Creating(out)
    BY DEF Ran, Found, Creating
  <1>4. Ran(new) = Ran(out) \cup {t}
    BY <1>1 DEF Ran
  <1>5. Found(new) = IF o \in {"match", "rewrite"} THEN Found(out) \cup {t} ELSE Found(out)
    BY <1>1, <1>3 DEF Found
  <1>6. Creating(new) = IF o = "create" THEN Creating(out) \cup {t} ELSE Creating(out)
    BY <1>1, <1>3 DEF Creating
  <1>7. /\ Cardinality(Ran(out) \cup {t}) = Cardinality(Ran(out)) + 1
        /\ Cardinality(Found(out) \cup {t}) = Cardinality(Found(out)) + 1
        /\ Cardinality(Creating(out) \cup {t}) = Cardinality(Creating(out)) + 1
    BY <1>2, <1>3, FS_AddElement
  <1>8. Cardinality(Ran(new)) = Cardinality(Ran(out)) + 1
    BY <1>4, <1>7
  <1>9. MatchesIn(new) = MatchesIn(out) + MatchesOf(o)
    <2>1. CASE o \in {"match", "rewrite"}
      BY <1>2, <1>5, <1>6, <1>7, <2>1 DEF MatchesIn, MatchesOf
    <2>2. CASE o = "create"
      BY <1>2, <1>5, <1>6, <1>7, <2>2 DEF MatchesIn, MatchesOf
    <2>3. CASE o \notin {"match", "rewrite", "create"}
      BY <1>2, <1>5, <1>6, <2>3 DEF MatchesIn, MatchesOf
    <2> QED
      BY <2>1, <2>2, <2>3
  <1> QED
    BY <1>8, <1>9 DEF new

-----------------------------------------------------------------------------
(* What is on its way, from one state to the next.                         *)

\* A vector that is sent is on its way.
LEMMA PendingSent ==
    ASSUME TypeOK, NEW v \in Seq(Message), chan' = Append(chan, v), inbox' = inbox, NEW kinds
    PROVE  Pending(kinds)' = Pending(kinds) + CountIn(v, kinds)
  <1>1. /\ CountAll(chan, kinds) \in Nat /\ CountIn(inbox, kinds) \in Nat
        /\ CountIn(v, kinds) \in Nat
    BY CountAllInNat, CountInNat DEF TypeOK
  <1>2. CountAll(Append(chan, v), kinds) = CountAll(chan, kinds) + CountIn(v, kinds)
    BY CountSent DEF TypeOK
  <1>3. Pending(kinds)' = CountIn(inbox, kinds) + CountAll(Append(chan, v), kinds)
    BY DEF Pending
  <1>4. Pending(kinds) = CountIn(inbox, kinds) + CountAll(chan, kinds)
    BY DEF Pending
  <1> QED
    BY <1>1, <1>2, <1>3, <1>4

\* A vector that is received stays on its way.
LEMMA PendingReceived ==
    ASSUME TypeOK, chan # <<>>, inbox = <<>>, inbox' = Head(chan), chan' = Tail(chan),
           NEW kinds
    PROVE  Pending(kinds)' = Pending(kinds)
  <1>1. Head(chan) \in Seq(Message) /\ Tail(chan) \in Seq(Seq(Message))
    BY DEF TypeOK
  <1>2. /\ CountAll(Tail(chan), kinds) \in Nat /\ CountIn(Head(chan), kinds) \in Nat
        /\ CountIn(<<>>, kinds) = 0
    BY <1>1, CountAllInNat, CountInNat, CountAllNone
  <1>3. CountAll(chan, kinds) = CountAll(Tail(chan), kinds) + CountIn(Head(chan), kinds)
    BY CountReceived DEF TypeOK
  <1>4. Pending(kinds)' = CountIn(Head(chan), kinds) + CountAll(Tail(chan), kinds)
    BY DEF Pending
  <1>5. Pending(kinds) = CountIn(<<>>, kinds) + CountAll(chan, kinds)
    BY DEF Pending
  <1> QED
    BY <1>2, <1>3, <1>4, <1>5

\* A message that is handled was on its way.
LEMMA PendingHandled ==
    ASSUME TypeOK, inbox # <<>>, inbox' = Tail(inbox), chan' = chan, NEW kinds
    PROVE  /\ Pending(kinds) \in Nat /\ Pending(kinds)' \in Nat
           /\ Pending(kinds) =
                  Pending(kinds)' + (IF Head(inbox).kind \in kinds THEN 1 ELSE 0)
  <1>1. Tail(inbox) \in Seq(Message)
    BY DEF TypeOK
  <1>2. /\ CountAll(chan, kinds) \in Nat /\ CountIn(Tail(inbox), kinds) \in Nat
        /\ CountIn(inbox, kinds) \in Nat
    BY <1>1, CountAllInNat, CountInNat DEF TypeOK
  <1>3. CountIn(inbox, kinds) =
            CountIn(Tail(inbox), kinds) + (IF Head(inbox).kind \in kinds THEN 1 ELSE 0)
    BY CountTail DEF TypeOK
  <1>4. Pending(kinds)' = CountIn(Tail(inbox), kinds) + CountAll(chan, kinds)
    BY DEF Pending
  <1>5. Pending(kinds) = CountIn(inbox, kinds) + CountAll(chan, kinds)
    BY DEF Pending
  <1> QED
    BY <1>2, <1>3, <1>4, <1>5

-----------------------------------------------------------------------------
(* A file is counted last.                                                 *)

\* Each vector of a file ends with its DoneFile, also what is left of one while
\* it is handled.
DoneEnds(v) == v # <<>> /\ v[Len(v)].kind = "done"
DoneLast ==
    ~arg.is_multifile =>
        /\ inbox # <<>> => DoneEnds(inbox)
        /\ \A i \in DOMAIN chan : DoneEnds(chan[i])

\* The rest of a vector ends as the vector does.
LEMMA TailEnds ==
    ASSUME NEW v \in Seq(Message), DoneEnds(v)
    PROVE  Tail(v) # <<>> => DoneEnds(Tail(v))
  <1> SUFFICES ASSUME Tail(v) # <<>> PROVE DoneEnds(Tail(v))
    OBVIOUS
  <1>1. /\ v # <<>> /\ v[Len(v)].kind = "done"
        /\ Tail(v) \in Seq(Message) /\ Len(Tail(v)) = Len(v) - 1 /\ Len(v) \in Nat
        /\ \A i \in 1 .. Len(v) - 1 : Tail(v)[i] = v[i + 1]
    BY DEF DoneEnds
  <1>2. Len(Tail(v)) \in 1 .. Len(v) - 1 /\ Len(Tail(v)) + 1 = Len(v)
    BY <1>1
  <1>3. Tail(v)[Len(Tail(v))] = v[Len(v)]
    BY <1>1, <1>2
  <1> QED
    BY <1>1, <1>3 DEF DoneEnds

\* One vector more in the channel.
LEMMA SendEnds ==
    ASSUME TypeOK, NEW v \in Seq(Message), DoneEnds(v), Send(v),
           \A i \in DOMAIN chan : DoneEnds(chan[i])
    PROVE  \A i \in DOMAIN chan' : DoneEnds(chan'[i])
  <1>1. CASE chan' = chan
    BY <1>1
  <1>2. CASE chan' = Append(chan, v)
    <2>1. /\ Len(Append(chan, v)) = Len(chan) + 1 /\ Len(chan) \in Nat
          /\ DOMAIN Append(chan, v) = 1 .. Len(chan) + 1 /\ DOMAIN chan = 1 .. Len(chan)
          /\ \A i \in 1 .. Len(chan) : Append(chan, v)[i] = chan[i]
          /\ Append(chan, v)[Len(chan) + 1] = v
      BY DEF TypeOK
    <2>2. \A i \in 1 .. Len(chan) + 1 : i \in 1 .. Len(chan) \/ i = Len(chan) + 1
      BY <2>1
    <2> QED
      BY <1>2, <2>1, <2>2
  <1> QED
    BY <1>1, <1>2 DEF Send

\* Every step keeps DoneLast.
LEMMA StepDoneLast == TypeOK /\ Ordered /\ DoneLast /\ [Next]_vars => DoneLast'
  <1> SUFFICES ASSUME TypeOK, Ordered, DoneLast, [Next]_vars, ~arg'.is_multifile
               PROVE  /\ inbox' # <<>> => DoneEnds(inbox')
                      /\ \A i \in DOMAIN chan' : DoneEnds(chan'[i])
    BY DEF DoneLast
  <1>0. CASE ExecuteMultifile
    BY <1>0 DEF ExecuteMultifile, settings
  <1>1. ASSUME arg' = arg, inbox' = inbox, chan' = chan
        PROVE  /\ inbox' # <<>> => DoneEnds(inbox')
               /\ \A i \in DOMAIN chan' : DoneEnds(chan'[i])
    BY <1>1 DEF DoneLast
  <1>2. ASSUME NEW t \in Tasks, Claim(t)
        PROVE  /\ inbox' # <<>> => DoneEnds(inbox')
               /\ \A i \in DOMAIN chan' : DoneEnds(chan'[i])
    BY <1>1, <1>2 DEF Claim, consumerVars, settings
  <1>3. ASSUME NEW t \in Tasks, ExecuteFile(t)
        PROVE  /\ inbox' # <<>> => DoneEnds(inbox')
               /\ \A i \in DOMAIN chan' : DoneEnds(chan'[i])
    <2>1. arg' = arg /\ inbox' = inbox
      BY <1>3 DEF ExecuteFile, consumerVars, settings
    <2>2. PICK o \in Outcomes : Send(Outputs(t, o))
      BY <1>3 DEF ExecuteFile
    <2>3. Outputs(t, o) \in Seq(Message) /\ DoneEnds(Outputs(t, o))
      BY OutputsCount DEF DoneEnds
    <2>4. \A i \in DOMAIN chan : DoneEnds(chan[i])
      BY <2>1 DEF DoneLast
    <2>5. \A i \in DOMAIN chan' : DoneEnds(chan'[i])
      BY <2>2, <2>3, <2>4, SendEnds
    <2> QED
      BY <2>1, <2>5 DEF DoneLast
  <1>4. CASE Handle
    <2>1. arg' = arg /\ inbox # <<>> /\ inbox \in Seq(Message)
      BY <1>4 DEF Handle, HandleReport, HandleAccepted, HandleRejected, HandleSuppressed,
                  HandleQuit, HandleErr, HandlePanics, settings, Handling, TypeOK
    <2>2. inbox' = Tail(inbox) \/ inbox' = <<>>
      BY <1>4 DEF Handle, HandleReport, HandleAccepted, HandleRejected, HandleSuppressed,
                  HandleQuit, HandleErr, HandlePanics
    <2>3. chan' = chan \/ chan' = <<>>
      BY <1>4 DEF Handle, HandleReport, HandleAccepted, HandleRejected, HandleSuppressed,
                  HandleQuit, HandleErr, HandlePanics
    <2>4. inbox' # <<>> => DoneEnds(inbox')
      BY <2>1, <2>2, TailEnds DEF DoneLast
    <2>5. \A i \in DOMAIN chan' : DoneEnds(chan'[i])
      BY <2>1, <2>3 DEF DoneLast
    <2> QED
      BY <2>4, <2>5
  <1>5. CASE Receive
    <2>1. /\ arg' = arg /\ chan # <<>> /\ chan \in Seq(Seq(Message))
          /\ inbox' = Head(chan) /\ chan' = Tail(chan)
      BY <1>5 DEF Receive, settings, TypeOK
    <2>2. /\ Len(chan) \in Nat \ {0} /\ DOMAIN chan = 1 .. Len(chan) /\ Head(chan) = chan[1]
          /\ DOMAIN Tail(chan) = 1 .. Len(chan) - 1
          /\ \A i \in 1 .. Len(chan) - 1 : Tail(chan)[i] = chan[i + 1]
      BY <2>1
    <2>3. 1 \in DOMAIN chan /\ \A i \in 1 .. Len(chan) - 1 : i + 1 \in DOMAIN chan
      BY <2>2
    <2> QED
      BY <2>1, <2>2, <2>3 DEF DoneLast
  <1>6. CASE StartConsumer \/ ChannelClosed \/ VectorHandled
    BY <1>1, <1>6 DEF StartConsumer, ChannelClosed, VectorHandled, consumerVars, settings
  <1>7. CASE Executed \/ LeaveLoop \/ Report \/ Spin \/ Stay \/ UNCHANGED vars
    BY <1>1, <1>7 DEF Executed, LeaveLoop, Report, Spin, Stay, vars, consumerVars, settings
  <1>8. CASE NextRun
    BY <1>8 DEF NextRun
  <1> QED
    BY <1>0, <1>2, <1>3, <1>4, <1>5, <1>6, <1>7, <1>8 DEF Next, Worker, Consume, Main

-----------------------------------------------------------------------------
(* The counters.                                                           *)

\* A step that sends nothing, receives nothing and handles nothing leaves the
\* counts alone.
LEMMA SameCounts ==
    ASSUME CountsAddUp,
           UNCHANGED <<arg, outcome, chan, inbox, processed, matched, failed>>,
           should_continue' => should_continue
    PROVE  CountsAddUp'
  <1> SUFFICES ASSUME should_continue', ~failed'
               PROVE  /\ processed' + Pending({"done"})' = DonesSent'
                      /\ matched' + Pending(MatchKinds)' = MatchesSent'
    BY DEF CountsAddUp
  <1>1. /\ processed + Pending({"done"}) = DonesSent
        /\ matched + Pending(MatchKinds) = MatchesSent
    BY DEF CountsAddUp
  <1>2. /\ Pending({"done"})' = Pending({"done"}) /\ Pending(MatchKinds)' = Pending(MatchKinds)
        /\ DonesSent' = DonesSent /\ MatchesSent' = MatchesSent
    BY DEF Pending, DonesSent, MatchesSent, Executions
  <1> QED
    BY <1>1, <1>2

\* While main executes and nothing went wrong, what is sent arrives.
LEMMA SendArrives ==
    ASSUME TypeOK, Ordered, main = "executing", should_continue, ~failed, NEW v, Send(v)
    PROVE  chan' = Append(chan, v)
  BY DEF TypeOK, Ordered, Panics, Closed, Send, RxOpen

\* Pending messages are counted by naturals.
LEMMA PendingInNat ==
    ASSUME TypeOK, NEW kinds
    PROVE  Pending(kinds) \in Nat
  BY CountInNat, CountAllInNat DEF TypeOK, Pending

\* A file's execution adds its matches and its DoneFile to both sides.
LEMMA ExecuteFileCounts ==
    ASSUME TypeOK, Ordered, CountsAddUp, NEW t \in Tasks, ExecuteFile(t)
    PROVE  CountsAddUp'
  <1> SUFFICES ASSUME should_continue', ~failed'
               PROVE  /\ processed' + Pending({"done"})' = DonesSent'
                      /\ matched' + Pending(MatchKinds)' = MatchesSent'
    BY DEF CountsAddUp
  <1>1. /\ arg' = arg /\ inbox' = inbox /\ processed' = processed /\ matched' = matched
        /\ should_continue /\ ~failed /\ task[t] = "running"
    BY DEF ExecuteFile, consumerVars, settings
  <1>2. main = "executing" /\ ~arg.is_multifile /\ outcome[t] = "none"
    BY <1>1 DEF Ordered, AllSent, AtOnce, NotYet
  <1>3. PICK o \in Outcomes : /\ outcome' = [outcome EXCEPT ![t] = o]
                              /\ Send(Outputs(t, o))
    BY DEF ExecuteFile
  <1>4. /\ Outputs(t, o) \in Seq(Message)
        /\ CountIn(Outputs(t, o), {"done"}) = 1
        /\ CountIn(Outputs(t, o), MatchKinds) = MatchesOf(o)
    BY OutputsCount
  <1>5. chan' = Append(chan, Outputs(t, o))
    BY <1>1, <1>2, <1>3, SendArrives
  <1>6. /\ Pending({"done"})' = Pending({"done"}) + 1
        /\ Pending(MatchKinds)' = Pending(MatchKinds) + MatchesOf(o)
    BY <1>1, <1>4, <1>5, PendingSent
  <1>7. outcome \in [Tasks -> Outcomes \union {"none"}]
    BY DEF TypeOK
  <1>8. /\ MatchesIn(outcome') = MatchesIn(outcome) + MatchesOf(o)
        /\ Cardinality(Ran(outcome')) = Cardinality(Ran(outcome)) + 1
    BY <1>2, <1>3, <1>7, SentOne
  <1>9. /\ MatchesSent = MatchesIn(outcome) /\ MatchesSent' = MatchesIn(outcome')
        /\ DonesSent = Cardinality(Ran(outcome)) /\ DonesSent' = Cardinality(Ran(outcome'))
    BY <1>1, <1>2, SentCounts
  <1>10. /\ processed + Pending({"done"}) = DonesSent
         /\ matched + Pending(MatchKinds) = MatchesSent
    BY <1>1 DEF CountsAddUp
  <1>11. /\ processed \in Nat /\ matched \in Nat /\ MatchesOf(o) \in Nat
         /\ Pending({"done"}) \in Nat /\ Pending(MatchKinds) \in Nat
    BY PendingInNat DEF TypeOK, MatchesOf
  <1>12. processed' + Pending({"done"})' = DonesSent'
    BY <1>1, <1>6, <1>8, <1>9, <1>10, <1>11
  <1>13. matched' + Pending(MatchKinds)' = MatchesSent'
    BY <1>1, <1>6, <1>8, <1>9, <1>10, <1>11
  <1> QED
    BY <1>12, <1>13

\* A multifile problem adds the matches of all files and a DoneFile for each path.
LEMMA ExecuteMultifileCounts ==
    ASSUME TypeOK, Ordered, CountsAddUp, ExecuteMultifile
    PROVE  CountsAddUp'
  <1> SUFFICES ASSUME should_continue', ~failed'
               PROVE  /\ processed' + Pending({"done"})' = DonesSent'
                      /\ matched' + Pending(MatchKinds)' = MatchesSent'
    BY DEF CountsAddUp
  <1>1. /\ arg' = arg /\ inbox' = inbox /\ processed' = processed /\ matched' = matched
        /\ should_continue /\ ~failed /\ main = "executing" /\ arg.is_multifile
        /\ \E t \in Tasks : task[t] = "todo"
    BY DEF ExecuteMultifile, consumerVars, settings
  <1>2. \A t \in Tasks : outcome[t] = "none"
    BY <1>1 DEF Ordered, AtOnce, NotYet
  <1>3. PICK o \in [Tasks -> Outcomes] : outcome' = o /\ Send(MultifileOutputs(o))
    BY DEF ExecuteMultifile
  <1>4. /\ MultifileOutputs(o) \in Seq(Message)
        /\ CountIn(MultifileOutputs(o), {"done"}) = Cardinality(Distinct)
        /\ CountIn(MultifileOutputs(o), MatchKinds) = MatchesIn(o)
    BY MultifileCount DEF MatchesIn, Found, Creating
  <1>5. chan' = Append(chan, MultifileOutputs(o))
    BY <1>1, <1>3, SendArrives
  <1>6. /\ Pending({"done"})' = Pending({"done"}) + Cardinality(Distinct)
        /\ Pending(MatchKinds)' = Pending(MatchKinds) + MatchesIn(o)
    BY <1>1, <1>4, <1>5, PendingSent
  <1>7. Ran(o) \cap Distinct = Distinct
    <2>1. \A t \in Tasks : o[t] # "none"
      BY OutcomesAssumption
    <2> QED
      BY <2>1 DEF Ran, Distinct
  <1>8. MatchesSent' = MatchesIn(o) /\ DonesSent' = Cardinality(Distinct)
    BY <1>1, <1>3, <1>7, SentCounts
  <1>9. /\ MatchesIn(outcome) = 0 /\ Ran(outcome) \cap Distinct = {}
        /\ Cardinality({}) = 0
    BY <1>2, SentNone
  <1>10. MatchesSent = 0 /\ DonesSent = 0
    BY <1>1, <1>9, SentCounts
  <1>11. /\ processed + Pending({"done"}) = 0
         /\ matched + Pending(MatchKinds) = 0
    BY <1>1, <1>10 DEF CountsAddUp
  <1>12. /\ processed \in Nat /\ matched \in Nat
         /\ Pending({"done"}) \in Nat /\ Pending(MatchKinds) \in Nat
    BY PendingInNat DEF TypeOK
  <1>13. Cardinality(Distinct) \in Nat /\ MatchesIn(o) \in Nat
    BY TasksFinite DEF Distinct, MatchesIn, Found, Creating
  <1>14. processed' + Pending({"done"})' = DonesSent'
    BY <1>1, <1>6, <1>8, <1>11, <1>12, <1>13
  <1>15. matched' + Pending(MatchKinds)' = MatchesSent'
    BY <1>1, <1>6, <1>8, <1>11, <1>12, <1>13
  <1> QED
    BY <1>14, <1>15

\* A message that is handled moves from those on their way to a counter.
LEMMA HandleCounts ==
    ASSUME TypeOK, CountsAddUp, Handle
    PROVE  CountsAddUp'
  <1> SUFFICES ASSUME should_continue', ~failed'
               PROVE  /\ processed' + Pending({"done"})' = DonesSent'
                      /\ matched' + Pending(MatchKinds)' = MatchesSent'
    BY DEF CountsAddUp
  <1>1. HandleReport \/ HandleAccepted \/ HandleRejected \/ HandleSuppressed
    BY DEF Handle, HandleQuit, HandleErr, HandlePanics
  <1>2. /\ inbox # <<>> /\ Count(Head(inbox)) /\ inbox' = Tail(inbox) /\ chan' = chan
        /\ arg' = arg /\ outcome' = outcome /\ should_continue /\ ~failed
    <2>1. CASE HandleReport
      BY <2>1 DEF HandleReport, Handling, workerVars, settings
    <2>2. CASE HandleAccepted
      BY <2>2 DEF HandleAccepted, Handling, workerVars, settings
    <2>3. CASE HandleRejected
      BY <2>3 DEF HandleRejected, Handling, workerVars, settings
    <2>4. CASE HandleSuppressed
      BY <2>4 DEF HandleSuppressed, Handling, workerVars, settings
    <2> QED
      BY <1>1, <2>1, <2>2, <2>3, <2>4
  <1>3. /\ processed' = processed + (IF Head(inbox).kind = "done" THEN 1 ELSE 0)
        /\ matched' = matched + (IF Head(inbox).kind \in MatchKinds THEN 1 ELSE 0)
    BY <1>2 DEF Count, IsMatch
  <1>4. /\ Pending({"done"}) \in Nat /\ Pending({"done"})' \in Nat
        /\ Pending({"done"}) =
               Pending({"done"})' + (IF Head(inbox).kind \in {"done"} THEN 1 ELSE 0)
    BY <1>2, PendingHandled
  <1>5. /\ Pending(MatchKinds) \in Nat /\ Pending(MatchKinds)' \in Nat
        /\ Pending(MatchKinds) =
               Pending(MatchKinds)' + (IF Head(inbox).kind \in MatchKinds THEN 1 ELSE 0)
    BY <1>2, PendingHandled
  <1>6. /\ processed + Pending({"done"}) = DonesSent
        /\ matched + Pending(MatchKinds) = MatchesSent
    BY <1>2 DEF CountsAddUp
  <1>7. DonesSent' = DonesSent /\ MatchesSent' = MatchesSent
    BY <1>2 DEF DonesSent, MatchesSent, Executions
  <1>8. processed \in Nat /\ matched \in Nat
    BY DEF TypeOK
  <1>9. processed' + Pending({"done"})' = DonesSent'
    BY <1>3, <1>4, <1>6, <1>7, <1>8
  <1>10. matched' + Pending(MatchKinds)' = MatchesSent'
    BY <1>3, <1>5, <1>6, <1>7, <1>8
  <1> QED
    BY <1>9, <1>10

\* A vector that is received stays on its way.
LEMMA ReceiveCounts ==
    ASSUME TypeOK, Ordered, CountsAddUp, Receive
    PROVE  CountsAddUp'
  <1>1. /\ arg' = arg /\ outcome' = outcome /\ processed' = processed
        /\ matched' = matched /\ failed' = failed /\ should_continue' = should_continue
        /\ chan # <<>> /\ inbox' = Head(chan) /\ chan' = Tail(chan)
        /\ consumer = "receiving"
    BY DEF Receive, workerVars, settings
  <1>2. inbox = <<>>
    BY <1>1 DEF Ordered, EmptyHands
  <1>3. Pending({"done"})' = Pending({"done"}) /\ Pending(MatchKinds)' = Pending(MatchKinds)
    BY <1>1, <1>2, PendingReceived
  <1>4. DonesSent' = DonesSent /\ MatchesSent' = MatchesSent
    BY <1>1 DEF DonesSent, MatchesSent, Executions
  <1> QED
    BY <1>1, <1>3, <1>4 DEF CountsAddUp

\* With no execution and no message every count is zero.
LEMMA NoCounts ==
    ASSUME \A t \in Tasks : outcome[t] = "none", chan = <<>>, inbox = <<>>,
           processed = 0, matched = 0
    PROVE  CountsAddUp
  <1>1. /\ MatchesIn(outcome) = 0 /\ Ran(outcome) = {} /\ Ran(outcome) \cap Distinct = {}
        /\ Cardinality({}) = 0
    BY SentNone
  <1>2. MatchesSent = 0 /\ DonesSent = 0
    BY <1>1, SentCounts
  <1>3. \A kinds : Pending(kinds) = 0
    BY CountAllNone DEF Pending
  <1> QED
    BY <1>2, <1>3 DEF CountsAddUp

\* The next apply begins with nothing sent.
LEMMA NextRunCounts ==
    ASSUME NextRun
    PROVE  CountsAddUp'
  <1>1. /\ \A t \in Tasks : outcome'[t] = "none"
        /\ chan' = <<>> /\ inbox' = <<>> /\ processed' = 0 /\ matched' = 0
    BY DEF NextRun
  <1>2. /\ MatchesIn(outcome') = 0 /\ Ran(outcome') = {} /\ Ran(outcome') \cap Distinct = {}
        /\ Cardinality({}) = 0
    BY <1>1, SentNone
  <1>3. MatchesSent' = 0 /\ DonesSent' = 0
    BY <1>2, SentCounts
  <1>4. Pending({"done"})' = 0 /\ Pending(MatchKinds)' = 0
    BY <1>1, CountAllNone DEF Pending
  <1> QED
    BY <1>1, <1>3, <1>4 DEF CountsAddUp

\* Every step keeps the counts.
LEMMA StepCounts == TypeOK /\ Ordered /\ CountsAddUp /\ [Next]_vars => CountsAddUp'
  <1> SUFFICES ASSUME TypeOK, Ordered, CountsAddUp, [Next]_vars PROVE CountsAddUp'
    OBVIOUS
  <1>1. ASSUME NEW t \in Tasks, Claim(t) PROVE CountsAddUp'
    BY <1>1, SameCounts DEF Claim, consumerVars, settings
  <1>2. ASSUME NEW t \in Tasks, ExecuteFile(t) PROVE CountsAddUp'
    BY <1>2, ExecuteFileCounts
  <1>3. CASE ExecuteMultifile
    BY <1>3, ExecuteMultifileCounts
  <1>4. CASE Handle
    BY <1>4, HandleCounts
  <1>5. CASE Receive
    BY <1>5, ReceiveCounts
  <1>6. CASE StartConsumer \/ ChannelClosed \/ VectorHandled
    BY <1>6, SameCounts
    DEF StartConsumer, ChannelClosed, VectorHandled, workerVars, consumerVars, settings
  <1>7. CASE Executed \/ LeaveLoop \/ Report \/ Spin \/ Stay \/ UNCHANGED vars
    BY <1>7, SameCounts
    DEF Executed, LeaveLoop, Report, Spin, Stay, vars, workerVars, consumerVars, settings
  <1>8. CASE NextRun
    BY <1>8, NextRunCounts
  <1> QED
    BY <1>1, <1>2, <1>3, <1>4, <1>5, <1>6, <1>7, <1>8 DEF Next, Worker, Consume, Main

-----------------------------------------------------------------------------
(* The theorems.                                                           *)

\* The inductive invariant: the order of things, the shape of the vectors and the
\* counts.
ApplyInv == TypeOK /\ Ordered /\ DoneLast /\ CountsAddUp

LEMMA InitApply == Init => ApplyInv
  <1> SUFFICES ASSUME Init PROVE ApplyInv
    OBVIOUS
  <1>1. CountsAddUp
    BY NoCounts DEF Init
  <1>2. DoneLast
    BY DEF Init, DoneLast
  <1> QED
    BY <1>1, <1>2, InitTyped, InitOrdered DEF ApplyInv

\* It holds in every state of every run.
THEOREM ApplyInvAlways == Spec => []ApplyInv
  <1>1. ApplyInv /\ [Next]_vars => ApplyInv'
    BY StepTyped, StepOrdered, StepDoneLast, StepCounts DEF ApplyInv
  <1> QED
    BY InitApply, <1>1, PTL DEF Spec

\* No message is lost or counted twice between the workers, the channel and the
\* consumer.
THEOREM CountsAddUpAlways == Spec => []CountsAddUp
  <1>1. ApplyInv => CountsAddUp
    BY DEF ApplyInv
  <1> QED
    BY <1>1, ApplyInvAlways, PTL

\* Never more DoneFiles are sent than files were found.
LEMMA DonesBounded == DonesSent \in Nat /\ DonesSent <= found_count /\ found_count \in Nat
  <1>1. Ran(outcome) \subseteq Tasks /\ Ran(outcome) \cap Distinct \subseteq Tasks
    BY DEF Ran
  <1>2. DonesSent = Cardinality(IF arg.is_multifile THEN Ran(outcome) \cap Distinct
                                ELSE Ran(outcome))
    BY SentCounts
  <1> QED
    BY <1>1, <1>2, TasksFinite DEF found_count

\* The loop that waits for the total sees it only when everything was handled.
THEOREM TotalMeansHandledAlways == Spec => []TotalMeansHandled
  <1>1. ApplyInv => TotalMeansHandled
    <2> SUFFICES ASSUME ApplyInv, ~arg.is_multifile, should_continue, ~failed, AllProcessed
                 PROVE  inbox = <<>> /\ chan = <<>>
      BY DEF TotalMeansHandled, NonePending
    <2>1. processed + Pending({"done"}) = DonesSent /\ processed \in Nat
      BY DEF ApplyInv, CountsAddUp, TypeOK
    <2>2. /\ CountIn(inbox, {"done"}) \in Nat /\ CountAll(chan, {"done"}) \in Nat
          /\ CountIn(inbox, {"done"}) = 0 => In(inbox, {"done"}) = {}
          /\ CountAll(chan, {"done"}) = 0 => InAll(chan, {"done"}) = {}
      BY CountInNat, CountAllInNat DEF ApplyInv, TypeOK
    <2>3. In(inbox, {"done"}) = {} /\ InAll(chan, {"done"}) = {}
      <3>1. processed >= found_count
        BY DEF AllProcessed
      <3>2. Pending({"done"}) = CountIn(inbox, {"done"}) + CountAll(chan, {"done"})
        BY DEF Pending
      <3>3. CountIn(inbox, {"done"}) = 0 /\ CountAll(chan, {"done"}) = 0
        BY <2>1, <2>2, <3>1, <3>2, DonesBounded
      <3> QED
        BY <2>2, <3>3
    <2>4. inbox = <<>>
      <3> SUFFICES ASSUME inbox # <<>> PROVE FALSE
        OBVIOUS
      <3>1. inbox \in Seq(Message) /\ DoneEnds(inbox)
        BY DEF ApplyInv, TypeOK, DoneLast
      <3>2. Len(inbox) \in In(inbox, {"done"})
        BY <3>1 DEF In, DoneEnds
      <3> QED
        BY <3>2, <2>3
    <2>5. chan = <<>>
      <3> SUFFICES ASSUME chan # <<>> PROVE FALSE
        OBVIOUS
      <3>1. 1 \in DOMAIN chan /\ chan[1] \in Seq(Message)
        BY DEF ApplyInv, TypeOK
      <3>2. DoneEnds(chan[1])
        BY <3>1 DEF ApplyInv, DoneLast
      <3>3. Len(chan[1]) \in DOMAIN chan[1]
        BY <3>1, <3>2 DEF DoneEnds
      <3>4. <<1, Len(chan[1])>> \in Places(chan)
        BY <3>1, <3>3 DEF Places
      <3>5. <<1, Len(chan[1])>> \in InAll(chan, {"done"})
        BY <3>2, <3>4 DEF InAll, DoneEnds
      <3> QED
        BY <3>5, <2>3
    <2> QED
      BY <2>4, <2>5
  <1> QED
    BY <1>1, ApplyInvAlways, PTL

\* An apply that nothing cut short reports every file and every match, and leaves
\* no message unhandled.
THEOREM ReportCompleteAlways == Spec => []ReportComplete
  <1>1. ApplyInv => ReportComplete
    <2> SUFFICES ASSUME ApplyInv, main = "reported", should_continue, ~failed
                 PROVE  /\ inbox = <<>> /\ chan = <<>>
                        /\ processed = found_count
                        /\ matched = MatchesSent
      BY DEF ReportComplete, NonePending
    <2>1. consumer = "stopped" /\ AllProcessed
      BY DEF ApplyInv, Ordered, Joined, Left
    <2>2. inbox = <<>> /\ chan = <<>>
      BY <2>1 DEF ApplyInv, Ordered, EmptyHands, Closed
    <2>3. Pending({"done"}) = 0 /\ Pending(MatchKinds) = 0
      BY <2>2, CountAllNone DEF Pending
    <2>4. /\ processed + Pending({"done"}) = DonesSent
          /\ matched + Pending(MatchKinds) = MatchesSent
          /\ processed \in Nat /\ matched \in Nat
      BY DEF ApplyInv, CountsAddUp, TypeOK
    <2>5. processed = found_count
      BY <2>1, <2>3, <2>4, DonesBounded DEF AllProcessed
    <2> QED
      BY <2>2, <2>3, <2>4, <2>5
  <1> QED
    BY <1>1, ApplyInvAlways, PTL
=============================================================================
