------------------------------ MODULE StepsProof ------------------------------
(***************************************************************************)
(* Theorems about Steps, for any found files, any depth, any number of     *)
(* steps and effects and new files: types, and all the safety properties   *)
(* of the registry.                                                        *)
(***************************************************************************)
EXTENDS Steps, SequenceProof, FiniteSetTheorems, FunctionTheorems, SequenceTheorems, TLAPS

-----------------------------------------------------------------------------
(* What holds of the files and of a state, also of one that a pattern may  *)
(* go back to.  found is lazy_files, fs is files and d is odd.                  *)

Kinds == {"node", "suppressed", "filename"}
Marks == {"none", "some", "suppressed"}
Value == {"found", "made"} \X Nat
Edit == [kind: Kinds, step: Nat]
FileOwner == [name: Value, text: Value, edits: SUBSET Edit, new: BOOLEAN]
StateType == [owners: Seq(Seq(Nat)), effects: SUBSET [owner: Nat, kind: Kinds],
              new_files: Nat, asked: Nat]
Places == {"enter", "match", "apply", "stepped"}
FrameType == [binding: Seq(Nat), place: Places,
              number: Nat, pointers: Seq(Pointers), next: Nat \ {0}, ranges: Marks,
              clone: StateType]

\* Owners are files, of one file of the registry each; every new file that was asked
\* for is one of the registry or still wanted, and has one version.
Registry(found, s, fs) ==
    /\ Len(s.owners) >= Len(found)
    /\ Len(s.owners) + s.new_files = Len(found) + s.asked
    /\ \A f \in DOMAIN s.owners : \A i \in DOMAIN s.owners[f] : s.owners[f][i] \in DOMAIN fs
    /\ \A e \in s.effects : e.owner \in DOMAIN fs
    /\ \A f \in DOMAIN s.owners : f > Len(found) =>
          Len(s.owners[f]) = 1 /\ fs[s.owners[f][1]].new
    /\ \A f \in DOMAIN found : s.owners[f] # <<>> => ~fs[s.owners[f][1]].new
Apart(s) ==
    \A f, g \in DOMAIN s.owners : \A i \in DOMAIN s.owners[f] : \A j \in DOMAIN s.owners[g] :
        s.owners[f][i] = s.owners[g][j] => f = g

\* What was found has not been edited.
Origin(found, s, fs) ==
    \A f \in DOMAIN found : s.owners[f] # <<>> => fs[s.owners[f][1]].edits = {}

\* A later version has the edits of an earlier one, ..
Within(x, y) == x.edits \subseteq y.edits
Survive(s, fs) ==
    \A f \in DOMAIN s.owners : \A i, j \in DOMAIN s.owners[f] :
        i <= j => Within(fs[s.owners[f][i]], fs[s.owners[f][j]])

\* .. and a revision has edits, where nothing odd has happened.
Revised(s, fs) ==
    \A f \in DOMAIN s.owners : \A i \in DOMAIN s.owners[f] :
        i > 1 => fs[s.owners[f][i]].edits # {}

\* No file has a text or a name that another has had.
TextsOf(found, s, fs, f) ==
    {<<"found", found[f].text>>} \union {fs[o].text : o \in Range(s.owners[f])}
NamesOf(s, fs, f) == {<<"found", f>>} \union {fs[o].name : o \in Range(s.owners[f])}
Different(found, s, fs) ==
    \A f, g \in DOMAIN found : f # g =>
        /\ TextsOf(found, s, fs, f) \intersect TextsOf(found, s, fs, g) = {}
        /\ NamesOf(s, fs, f) \intersect NamesOf(s, fs, g) = {}

Good(found, s, fs, d) ==
    /\ Registry(found, s, fs) /\ Apart(s) /\ Origin(found, s, fs)
    /\ "nested" \notin d => Survive(s, fs)
    /\ "touched" \notin d => Different(found, s, fs)
    /\ d = {} => Revised(s, fs)

\* No effect and no wanted file is left.
Clean(s) == s.effects = {} /\ s.new_files = 0

\* t is s or what has become of it.
Grown(s, t) ==
    /\ Len(s.owners) <= Len(t.owners)
    /\ \A f \in DOMAIN s.owners : Len(s.owners[f]) <= Len(t.owners[f])

\* The FileOwners so far stay as they are.
Extends(fs, gs) == \A i \in DOMAIN fs : i \in DOMAIN gs /\ gs[i] = fs[i]

-----------------------------------------------------------------------------
(* What holds of a Sequential and the state it goes on with.               *)

\* It is about different files that were found, and its pointers are to versions
\* there are, or to the first of a file that is not loaded.
Distinct(found, fr) ==
    /\ \A i \in DOMAIN fr.binding : fr.binding[i] \in DOMAIN found
    /\ \A i, j \in DOMAIN fr.binding : fr.binding[i] = fr.binding[j] => i = j
    /\ \A i \in DOMAIN fr.pointers : fr.pointers[i].file \in DOMAIN found
    /\ \A i, j \in DOMAIN fr.pointers : fr.pointers[i].file = fr.pointers[j].file => i = j
InRange(fr, s) ==
    \A i \in DOMAIN fr.pointers :
        \/ fr.pointers[i].version = 0
        \/ fr.pointers[i].version < Len(s.owners[fr.pointers[i].file])

\* It applies effects from the first pointer to the last.
Counted(fr) ==
    /\ fr.next <= Len(fr.pointers) + 1
    /\ fr.place # "apply" => fr.next = 1

\* Where effects are left, the files it has not come to are at their latest revision,
\* unless they were added to what a Sequential within it had revised.
Latest(fr, s, d) ==
    s.effects # {} /\ "nested" \notin d =>
        \A i \in DOMAIN fr.pointers : i >= fr.next =>
            LET versions == s.owners[fr.pointers[i].file]
            IN  fr.pointers[i].version = IF versions # <<>> THEN Len(versions) - 1 ELSE 0

\* Without oddities, an effect is for the latest revision of a file, or the step has
\* come to that file.
Fresh(found, fr, s, d) ==
    d = {} => \A e \in s.effects :
        /\ e.kind # "suppressed"
        /\ \E f \in DOMAIN found : \E i \in DOMAIN s.owners[f] :
              /\ e.owner = s.owners[f][i]
              /\ \/ i = Len(s.owners[f])
                 \/ \E k \in DOMAIN fr.pointers : k < fr.next /\ fr.pointers[k].file = f

FrameOK(found, fr, s, d) ==
    /\ Distinct(found, fr) /\ InRange(fr, s) /\ Counted(fr) /\ Latest(fr, s, d)
    /\ Fresh(found, fr, s, d)
    /\ fr.place = "stepped" => Clean(s)

-----------------------------------------------------------------------------
(* The invariant.                                                          *)

Shapes ==
    /\ lazy_files \in Found /\ lazy_files \in Seq(Lazy) /\ lazy_files # <<>>
    /\ files \in Seq(FileOwner) /\ matches \in Seq(Marks) /\ Len(matches) = Len(files)
    /\ state \in StateType
    /\ stack \in Seq(FrameType) /\ Len(stack) <= MaxDepth
    /\ step \in 0 .. MaxSteps
    /\ outcome \in {"running", "ok", "nothing", "error", "panicked", "no_versions"}
    /\ odd \subseteq {"touched", "nested"}
    /\ outcome = "running" => stack # <<>>
    /\ outcome # "ok" => results = <<>>
    /\ outcome \notin {"running", "ok"} =>
          state = NoState /\ files = <<>> /\ stack = <<>>

\* What a Sequential goes on with: the innermost one with the state, and each of them,
\* within a step, with its clone.
Frames ==
    /\ FrameOK(lazy_files, Top, state, odd)
    /\ \A k \in DOMAIN stack :
          stack[k].place = "match" => FrameOK(lazy_files, stack[k], stack[k].clone, odd)
Waiting == \A k \in DOMAIN stack : k < Len(stack) => stack[k].place = "match"
Saved == \A k \in DOMAIN stack : Good(lazy_files, stack[k].clone, files, odd)
Growing ==
    \A k \in DOMAIN stack :
        /\ Grown(stack[k].clone, state)
        /\ \A m \in DOMAIN stack : m >= k => Grown(stack[k].clone, stack[m].clone)

\* An outermost step begins with nothing left.
Begins == Len(stack) = 1 /\ stack[1].place = "enter" => Clean(state)

\* What was collected.
Collected ==
    outcome = "ok" =>
        /\ Clean(state)
        /\ \A f \in DOMAIN Owners : Owners[f] # <<>>
        /\ results = Subsequence([f \in DOMAIN Owners |-> Result(Owners[f])],
                                 {f \in DOMAIN Owners : Kind(Owners[f]) # "none"})

Alive ==
    outcome \in {"running", "ok"} =>
        /\ Good(lazy_files, state, files, odd)
        /\ Frames /\ Waiting /\ Saved /\ Growing /\ Begins

IInv == Shapes /\ Alive /\ Collected

-----------------------------------------------------------------------------
(* States, as files and versions are added.                                *)

\* The found files are files of the registry.
LEMMA FoundOwned ==
    ASSUME NEW found \in Seq(Lazy), NEW s \in StateType, Len(s.owners) >= Len(found)
    PROVE  /\ \A f \in DOMAIN found : f \in DOMAIN s.owners
           /\ \A f \in DOMAIN s.owners : /\ f \in Nat \ {0} /\ s.owners[f] \in Seq(Nat)
                                         /\ f > Len(found) \/ f \in DOMAIN found
           /\ Len(found) \in Nat /\ Len(s.owners) \in Nat
           /\ DOMAIN found = 1 .. Len(found) /\ DOMAIN s.owners = 1 .. Len(s.owners)
           /\ s.owners \in Seq(Seq(Nat)) /\ s.new_files \in Nat /\ s.asked \in Nat
           /\ s.effects \in SUBSET [owner: Nat, kind: Kinds]
  <1>1. /\ s.owners \in Seq(Seq(Nat)) /\ s.new_files \in Nat /\ s.asked \in Nat
        /\ s.effects \in SUBSET [owner: Nat, kind: Kinds]
    BY DEF StateType
  <1>2. /\ DOMAIN found = 1 .. Len(found) /\ DOMAIN s.owners = 1 .. Len(s.owners)
        /\ Len(found) \in Nat /\ Len(s.owners) \in Nat
    BY <1>1
  <1>3. \A f \in DOMAIN s.owners : s.owners[f] \in Seq(Nat)
    BY <1>1
  <1> QED
    BY <1>1, <1>2, <1>3

\* What is good stays so, as more FileOwners are made and more oddities happen.
LEMMA GoodKept ==
    ASSUME NEW found \in Seq(Lazy), NEW s \in StateType, NEW fs, NEW gs, NEW d, NEW c,
           Good(found, s, fs, d), Extends(fs, gs), d \subseteq c
    PROVE  Good(found, s, gs, c)
  <1>1. Registry(found, s, fs)
    BY DEF Good
  <1>2. \A f \in DOMAIN found : f \in DOMAIN s.owners
    BY <1>1, FoundOwned DEF Registry
  <1>3. \A f \in DOMAIN s.owners : \A i \in DOMAIN s.owners[f] :
            /\ s.owners[f][i] \in DOMAIN gs
            /\ gs[s.owners[f][i]] = fs[s.owners[f][i]]
    BY <1>1 DEF Registry, Extends
  <1>4. \A f \in DOMAIN s.owners : s.owners[f] # <<>> => 1 \in DOMAIN s.owners[f]
    BY <1>1, FoundOwned DEF Registry
  <1>5. Registry(found, s, gs)
    <2>1. \A e \in s.effects : e.owner \in DOMAIN gs
      BY <1>1 DEF Registry, Extends
    <2>2. \A f \in DOMAIN s.owners : f > Len(found) =>
             Len(s.owners[f]) = 1 /\ gs[s.owners[f][1]].new
      <3> SUFFICES ASSUME NEW f \in DOMAIN s.owners, f > Len(found)
                   PROVE  Len(s.owners[f]) = 1 /\ gs[s.owners[f][1]].new
        OBVIOUS
      <3>1. Len(s.owners[f]) = 1 /\ fs[s.owners[f][1]].new
        BY <1>1 DEF Registry
      <3>2. 1 \in DOMAIN s.owners[f]
        BY <1>4, <3>1
      <3> QED
        BY <1>3, <3>1, <3>2
    <2>3. \A f \in DOMAIN found : s.owners[f] # <<>> => ~gs[s.owners[f][1]].new
      BY <1>1, <1>2, <1>3, <1>4 DEF Registry
    <2> QED
      BY <1>1, <1>3, <2>1, <2>2, <2>3 DEF Registry
  <1>6. Origin(found, s, gs)
    BY <1>2, <1>3, <1>4 DEF Good, Origin
  <1>7. "nested" \notin c => Survive(s, gs)
    BY <1>3 DEF Good, Survive
  <1>8. c = {} => Revised(s, gs)
    BY <1>3 DEF Good, Revised
  <1>9. ASSUME "touched" \notin c PROVE Different(found, s, gs)
    <2>1. Different(found, s, fs)
      BY <1>9 DEF Good
    <2>2. \A f \in DOMAIN found : \A o \in Range(s.owners[f]) : gs[o] = fs[o]
      BY <1>2, <1>3 DEF Range
    <2>3. \A f \in DOMAIN found : /\ TextsOf(found, s, gs, f) = TextsOf(found, s, fs, f)
                                  /\ NamesOf(s, gs, f) = NamesOf(s, fs, f)
      BY <2>2 DEF TextsOf, NamesOf
    <2> QED
      BY <2>1, <2>3 DEF Different
  <1> QED
    BY <1>5, <1>6, <1>7, <1>8, <1>9 DEF Good

\* So are the frames.
LEMMA FrameKept ==
    ASSUME NEW found, NEW fr, NEW s, NEW d, NEW c, FrameOK(found, fr, s, d), d \subseteq c
    PROVE  FrameOK(found, fr, s, c)
  BY DEF FrameOK, Latest, Fresh

\* What a state has become of has become of it, in one step or more.
LEMMA GrownSteps ==
    ASSUME NEW s \in StateType, NEW t \in StateType, NEW u \in StateType
    PROVE  Grown(s, s) /\ (Grown(s, t) /\ Grown(t, u) => Grown(s, u))
  <1>1. \A x \in StateType : /\ x.owners \in Seq(Seq(Nat)) /\ DOMAIN x.owners = 1 .. Len(x.owners)
                             /\ Len(x.owners) \in Nat
                             /\ \A f \in DOMAIN x.owners : Len(x.owners[f]) \in Nat
    <2> SUFFICES ASSUME NEW x \in StateType
                 PROVE  /\ x.owners \in Seq(Seq(Nat)) /\ DOMAIN x.owners = 1 .. Len(x.owners)
                        /\ Len(x.owners) \in Nat
                        /\ \A f \in DOMAIN x.owners : Len(x.owners[f]) \in Nat
      OBVIOUS
    <2>1. x.owners \in Seq(Seq(Nat))
      BY DEF StateType
    <2>2. \A f \in DOMAIN x.owners : x.owners[f] \in Seq(Nat)
      BY <2>1
    <2> QED
      BY <2>1, <2>2
  <1>2. Grown(s, s)
    BY <1>1 DEF Grown
  <1>3. ASSUME Grown(s, t), Grown(t, u) PROVE Grown(s, u)
    <2>1. \A f \in DOMAIN s.owners : f \in DOMAIN t.owners
      BY <1>1, <1>3 DEF Grown
    <2>2. \A f \in DOMAIN s.owners : f \in DOMAIN u.owners
      BY <1>1, <1>3, <2>1 DEF Grown
    <2>3. \A f \in DOMAIN s.owners : /\ Len(s.owners[f]) \in Nat /\ Len(t.owners[f]) \in Nat
                                     /\ Len(u.owners[f]) \in Nat
                                     /\ Len(s.owners[f]) <= Len(t.owners[f])
                                     /\ Len(t.owners[f]) <= Len(u.owners[f])
      BY <1>1, <1>3, <2>1, <2>2 DEF Grown
    <2>4. Len(s.owners) <= Len(u.owners)
      BY <1>1, <1>3 DEF Grown
    <2> QED
      BY <2>3, <2>4 DEF Grown
  <1> QED
    BY <1>2, <1>3

-----------------------------------------------------------------------------
(* Files that are loaded.                                                  *)

\* t is s with first versions for some files that had none.
Loaded(found, s, t, fs, gs) ==
    /\ t.effects = s.effects /\ t.new_files = s.new_files /\ t.asked = s.asked
    /\ Len(t.owners) = Len(s.owners)
    /\ \A f \in DOMAIN s.owners :
          \/ t.owners[f] = s.owners[f]
          \/ /\ s.owners[f] = <<>> /\ f \in DOMAIN found
             /\ \E x \in DOMAIN gs \ DOMAIN fs :
                   /\ t.owners[f] = <<x>>
                   /\ gs[x] = [name |-> <<"found", f>>, text |-> <<"found", found[f].text>>,
                            edits |-> {}, new |-> FALSE]

\* A state stays good when files are loaded.
LEMMA LoadedGood ==
    ASSUME NEW found \in Seq(Lazy), NEW s \in StateType, NEW t \in StateType,
           NEW fs, NEW gs, NEW d,
           Good(found, s, fs, d), Extends(fs, gs), Loaded(found, s, t, fs, gs)
    PROVE  Good(found, t, gs, d) /\ Grown(s, t)
  <1> DEFINE New(f) == /\ s.owners[f] = <<>> /\ f \in DOMAIN found
                       /\ \E x \in DOMAIN gs \ DOMAIN fs :
                             /\ t.owners[f] = <<x>>
                             /\ gs[x] = [name |-> <<"found", f>>,
                                         text |-> <<"found", found[f].text>>,
                                         edits |-> {}, new |-> FALSE]
  <1>1. Good(found, s, gs, d)
    BY GoodKept
  <1>2. /\ Registry(found, s, gs) /\ Registry(found, s, fs) /\ Apart(s) /\ Origin(found, s, gs)
        /\ ("nested" \notin d => Survive(s, gs)) /\ (d = {} => Revised(s, gs))
        /\ ("touched" \notin d => Different(found, s, gs))
    BY <1>1 DEF Good
  <1>3. /\ \A f \in DOMAIN found : f \in DOMAIN s.owners
        /\ \A f \in DOMAIN s.owners : /\ f \in Nat \ {0} /\ s.owners[f] \in Seq(Nat)
                                      /\ f > Len(found) \/ f \in DOMAIN found
        /\ Len(found) \in Nat /\ DOMAIN found = 1 .. Len(found)
        /\ DOMAIN s.owners = 1 .. Len(s.owners) /\ DOMAIN t.owners = DOMAIN s.owners
        /\ t.owners \in Seq(Seq(Nat))
    <2>1. Len(s.owners) >= Len(found)
      BY <1>2 DEF Registry
    <2>2. t.owners \in Seq(Seq(Nat)) /\ s.owners \in Seq(Seq(Nat))
      BY DEF StateType
    <2>3. Len(t.owners) = Len(s.owners)
      BY DEF Loaded
    <2>4. DOMAIN t.owners = DOMAIN s.owners
      BY <2>2, <2>3
    <2>5. /\ \A f \in DOMAIN found : f \in DOMAIN s.owners
          /\ \A f \in DOMAIN s.owners : /\ f \in Nat \ {0} /\ s.owners[f] \in Seq(Nat)
                                        /\ f > Len(found) \/ f \in DOMAIN found
          /\ Len(found) \in Nat /\ DOMAIN found = 1 .. Len(found)
          /\ DOMAIN s.owners = 1 .. Len(s.owners)
      BY <2>1, FoundOwned
    <2> QED
      BY <2>2, <2>4, <2>5
  <1>4. \A f \in DOMAIN s.owners : t.owners[f] = s.owners[f] \/ New(f)
    BY DEF Loaded
  <1>5. ASSUME NEW f \in DOMAIN s.owners, New(f)
        PROVE  \E x \in DOMAIN gs \ DOMAIN fs :
                 /\ t.owners[f] = <<x>> /\ DOMAIN t.owners[f] = {1} /\ t.owners[f][1] = x
                 /\ Len(t.owners[f]) = 1
                 /\ gs[x].name = <<"found", f>> /\ gs[x].text = <<"found", found[f].text>>
                 /\ gs[x].edits = {} /\ ~gs[x].new
    <2>1. PICK x \in DOMAIN gs \ DOMAIN fs :
             /\ t.owners[f] = <<x>>
             /\ gs[x] = [name |-> <<"found", f>>, text |-> <<"found", found[f].text>>,
                            edits |-> {}, new |-> FALSE]
      BY <1>5
    <2>2. DOMAIN <<x>> = {1} /\ <<x>>[1] = x /\ Len(<<x>>) = 1
      OBVIOUS
    <2> QED
      BY <2>1, <2>2
  <1>6. \A f \in DOMAIN s.owners : New(f) => f \in DOMAIN found /\ s.owners[f] = <<>>
    OBVIOUS
  <1> HIDE DEF New
  <1>13. ASSUME NEW f \in DOMAIN s.owners, New(f), NEW i \in DOMAIN t.owners[f]
         PROVE  /\ gs[t.owners[f][i]].name = <<"found", f>>
                /\ gs[t.owners[f][i]].text = <<"found", found[f].text>>
                /\ gs[t.owners[f][i]].edits = {}
    <2>1. PICK x \in DOMAIN gs \ DOMAIN fs :
             /\ t.owners[f] = <<x>> /\ DOMAIN t.owners[f] = {1} /\ t.owners[f][1] = x
             /\ gs[x].name = <<"found", f>> /\ gs[x].text = <<"found", found[f].text>>
             /\ gs[x].edits = {}
      BY <1>5, <1>13
    <2>2. i = 1
      BY <2>1
    <2> QED
      BY <2>1, <2>2
  <1>7. Registry(found, t, gs)
    <2>1. /\ Len(t.owners) >= Len(found)
          /\ Len(t.owners) + t.new_files = Len(found) + t.asked
          /\ \A e \in t.effects : e.owner \in DOMAIN gs
      BY <1>2 DEF Registry, Loaded
    <2>2. \A f \in DOMAIN t.owners : \A i \in DOMAIN t.owners[f] : t.owners[f][i] \in DOMAIN gs
      <3>1. \A f \in DOMAIN s.owners : \A i \in DOMAIN s.owners[f] : s.owners[f][i] \in DOMAIN gs
        BY <1>2 DEF Registry
      <3>2. \A f \in DOMAIN s.owners : New(f) =>
                \A i \in DOMAIN t.owners[f] : t.owners[f][i] \in DOMAIN gs
        BY <1>5
      <3> QED
        BY <1>3, <1>4, <3>1, <3>2
    <2>3. \A f \in DOMAIN t.owners : f > Len(found) =>
             Len(t.owners[f]) = 1 /\ gs[t.owners[f][1]].new
      BY <1>2, <1>3, <1>4, <1>6 DEF Registry
    <2>4. \A f \in DOMAIN found : t.owners[f] # <<>> => ~gs[t.owners[f][1]].new
      BY <1>2, <1>3, <1>4, <1>5 DEF Registry
    <2> QED
      BY <2>1, <2>2, <2>3, <2>4 DEF Registry
  <1>8. Apart(t)
    <2> SUFFICES ASSUME NEW f \in DOMAIN s.owners, NEW g \in DOMAIN s.owners,
                        NEW i \in DOMAIN t.owners[f], NEW j \in DOMAIN t.owners[g],
                        t.owners[f][i] = t.owners[g][j]
                 PROVE  f = g
      BY <1>3 DEF Apart
    <2>1. CASE t.owners[f] = s.owners[f] /\ t.owners[g] = s.owners[g]
      BY <1>2, <2>1 DEF Apart
    <2>2. CASE t.owners[f] = s.owners[f] /\ New(g)
      BY <1>2, <1>5, <2>2 DEF Registry
    <2>3. CASE New(f) /\ t.owners[g] = s.owners[g]
      BY <1>2, <1>5, <2>3 DEF Registry
    <2>4. CASE New(f) /\ New(g)
      <3>1. gs[t.owners[f][i]].name = <<"found", f>>
        BY <1>13, <2>4
      <3>2. gs[t.owners[g][j]].name = <<"found", g>>
        BY <1>13, <2>4
      <3>3. <<"found", f>>[2] = f /\ <<"found", g>>[2] = g
        OBVIOUS
      <3> QED
        BY <3>1, <3>2, <3>3
    <2> QED
      BY <1>4, <2>1, <2>2, <2>3, <2>4
  <1>9. Origin(found, t, gs)
    <2> SUFFICES ASSUME NEW f \in DOMAIN found, t.owners[f] # <<>>
                 PROVE  gs[t.owners[f][1]].edits = {}
      BY DEF Origin
    <2>1. CASE t.owners[f] = s.owners[f]
      BY <1>2, <2>1 DEF Origin
    <2>2. CASE New(f)
      BY <1>3, <1>5, <2>2
    <2> QED
      BY <1>3, <1>4, <2>1, <2>2
  <1>10. "nested" \notin d => Survive(t, gs)
    <2> SUFFICES ASSUME "nested" \notin d, NEW f \in DOMAIN s.owners,
                        NEW i \in DOMAIN t.owners[f], NEW j \in DOMAIN t.owners[f], i <= j
                 PROVE  Within(gs[t.owners[f][i]], gs[t.owners[f][j]])
      BY <1>3 DEF Survive
    <2>1. CASE t.owners[f] = s.owners[f]
      BY <1>2, <2>1 DEF Survive
    <2>2. CASE New(f)
      <3>1. i = j
        BY <1>5, <2>2
      <3> QED
        BY <3>1 DEF Within
    <2> QED
      BY <1>4, <2>1, <2>2
  <1>11. d = {} => Revised(t, gs)
    <2> SUFFICES ASSUME d = {}, NEW f \in DOMAIN s.owners, NEW i \in DOMAIN t.owners[f], i > 1
                 PROVE  gs[t.owners[f][i]].edits # {}
      BY <1>3 DEF Revised
    <2>1. CASE t.owners[f] = s.owners[f]
      BY <1>2, <2>1 DEF Revised
    <2>2. CASE New(f)
      BY <1>5, <2>2
    <2> QED
      BY <1>4, <2>1, <2>2
  <1>14. ASSUME "touched" \notin d PROVE Different(found, t, gs)
    <2>1. \A f \in DOMAIN found :
            /\ TextsOf(found, t, gs, f) = TextsOf(found, s, gs, f)
            /\ NamesOf(t, gs, f) = NamesOf(s, gs, f)
      <3> SUFFICES ASSUME NEW f \in DOMAIN found
                   PROVE  /\ TextsOf(found, t, gs, f) = TextsOf(found, s, gs, f)
                          /\ NamesOf(t, gs, f) = NamesOf(s, gs, f)
        OBVIOUS
      <3>1. CASE t.owners[f] = s.owners[f]
        BY <3>1 DEF TextsOf, NamesOf
      <3>2. CASE New(f)
        <4>1. Range(s.owners[f]) = {}
          BY <1>3, <1>6, <3>2 DEF Range
        <4>2. \A o \in Range(t.owners[f]) : /\ gs[o].text = <<"found", found[f].text>>
                                            /\ gs[o].name = <<"found", f>>
          <5> SUFFICES ASSUME NEW i \in DOMAIN t.owners[f]
                       PROVE  /\ gs[t.owners[f][i]].text = <<"found", found[f].text>>
                              /\ gs[t.owners[f][i]].name = <<"found", f>>
            BY DEF Range
          <5>1. f \in DOMAIN s.owners
            BY <1>3
          <5> QED
            BY <1>13, <3>2, <5>1
        <4> QED
          BY <4>1, <4>2 DEF TextsOf, NamesOf
      <3> QED
        BY <1>3, <1>4, <3>1, <3>2
    <2> QED
      BY <1>2, <1>14, <2>1 DEF Different
  <1>12. Grown(s, t)
    <2>1. Len(t.owners) = Len(s.owners) /\ Len(s.owners) \in Nat
      BY DEF Loaded, StateType
    <2>2. \A f \in DOMAIN s.owners : Len(s.owners[f]) <= Len(t.owners[f])
      <3> SUFFICES ASSUME NEW f \in DOMAIN s.owners PROVE Len(s.owners[f]) <= Len(t.owners[f])
        OBVIOUS
      <3>1. CASE t.owners[f] = s.owners[f]
        BY <1>3, <3>1
      <3>2. CASE New(f)
        BY <1>5, <1>6, <3>2
      <3> QED
        BY <1>4, <3>1, <3>2
    <2> QED
      BY <2>1, <2>2 DEF Grown
  <1> QED
    BY <1>2, <1>7, <1>8, <1>9, <1>10, <1>11, <1>12, <1>14 DEF Good

\* A Sequential goes on with it as it did before.
LEMMA LoadedFrame ==
    ASSUME NEW found \in Seq(Lazy), NEW s \in StateType, NEW t \in StateType,
           NEW fs, NEW gs, NEW d, NEW fr \in FrameType,
           Len(s.owners) >= Len(found), Loaded(found, s, t, fs, gs), FrameOK(found, fr, s, d)
    PROVE  FrameOK(found, fr, t, d)
  <1>1. \A f \in DOMAIN found :
            \/ t.owners[f] = s.owners[f]
            \/ s.owners[f] = <<>> /\ Len(t.owners[f]) = 1 /\ t.owners[f] # <<>>
    <2> SUFFICES ASSUME NEW f \in DOMAIN found, t.owners[f] # s.owners[f]
                 PROVE  s.owners[f] = <<>> /\ Len(t.owners[f]) = 1 /\ t.owners[f] # <<>>
      OBVIOUS
    <2>1. f \in DOMAIN s.owners
      BY FoundOwned
    <2>2. s.owners[f] = <<>> /\ \E x : t.owners[f] = <<x>>
      BY <2>1 DEF Loaded
    <2>3. \A x : Len(<<x>>) = 1 /\ <<x>> # <<>>
      OBVIOUS
    <2> QED
      BY <2>2, <2>3
  <1>2. \A f \in DOMAIN found : s.owners[f] \in Seq(Nat)
    BY FoundOwned
  <1>3. \A i \in DOMAIN fr.pointers : fr.pointers[i].file \in DOMAIN found
                                      /\ fr.pointers[i].version \in Nat
    <2>1. fr.pointers \in Seq(Pointers)
      BY DEF FrameType
    <2>2. \A i \in DOMAIN fr.pointers : fr.pointers[i] \in Pointers
      BY <2>1
    <2>3. \A i \in DOMAIN fr.pointers : fr.pointers[i].version \in Nat
      BY <2>2 DEF Pointers
    <2> QED
      BY <2>3 DEF FrameOK, Distinct
  <1>4. InRange(fr, t)
    <2> SUFFICES ASSUME NEW i \in DOMAIN fr.pointers, fr.pointers[i].version # 0
                 PROVE  fr.pointers[i].version < Len(t.owners[fr.pointers[i].file])
      BY DEF InRange
    <2>1. fr.pointers[i].version < Len(s.owners[fr.pointers[i].file])
      BY DEF FrameOK, InRange
    <2>2. s.owners[fr.pointers[i].file] # <<>>
      BY <1>3, <2>1
    <2> QED
      BY <1>1, <1>3, <2>1, <2>2
  <1>5. Latest(fr, t, d)
    <2> SUFFICES ASSUME s.effects # {}, "nested" \notin d,
                        NEW i \in DOMAIN fr.pointers, i >= fr.next
                 PROVE  fr.pointers[i].version =
                            IF t.owners[fr.pointers[i].file] # <<>>
                            THEN Len(t.owners[fr.pointers[i].file]) - 1 ELSE 0
      BY DEF Latest, Loaded
    <2>1. fr.pointers[i].version = IF s.owners[fr.pointers[i].file] # <<>>
                                   THEN Len(s.owners[fr.pointers[i].file]) - 1 ELSE 0
      BY DEF FrameOK, Latest
    <2> DEFINE f == fr.pointers[i].file
    <2>2. f \in DOMAIN found
      BY <1>3
    <2> HIDE DEF f
    <2>3. CASE t.owners[f] = s.owners[f]
      BY <2>1, <2>3 DEF f
    <2>4. CASE s.owners[f] = <<>> /\ Len(t.owners[f]) = 1 /\ t.owners[f] # <<>>
      BY <2>1, <2>4 DEF f
    <2> QED
      BY <1>1, <2>2, <2>3, <2>4 DEF f
  <1>6. Fresh(found, fr, t, d)
    <2> SUFFICES ASSUME d = {}, NEW e \in s.effects
                 PROVE  /\ e.kind # "suppressed"
                        /\ \E f \in DOMAIN found : \E i \in DOMAIN t.owners[f] :
                              /\ e.owner = t.owners[f][i]
                              /\ \/ i = Len(t.owners[f])
                                 \/ \E k \in DOMAIN fr.pointers :
                                       k < fr.next /\ fr.pointers[k].file = f
      BY DEF Fresh, Loaded
    <2>1. e.kind # "suppressed"
      BY DEF FrameOK, Fresh
    <2>2. PICK f \in DOMAIN found : \E i \in DOMAIN s.owners[f] :
                /\ e.owner = s.owners[f][i]
                /\ \/ i = Len(s.owners[f])
                   \/ \E k \in DOMAIN fr.pointers : k < fr.next /\ fr.pointers[k].file = f
      BY DEF FrameOK, Fresh
    <2>3. t.owners[f] = s.owners[f]
      BY <1>1, <2>2
    <2> QED
      BY <2>1, <2>2, <2>3
  <1>7. fr.place = "stepped" => Clean(t)
    BY DEF FrameOK, Clean, Loaded
  <1> QED
    BY <1>4, <1>5, <1>6, <1>7 DEF FrameOK

\* What load_file does is such a load, of files that are found and are not loaded.
LEMMA LoadsLoaded ==
    ASSUME Shapes, Len(Owners) >= Len(lazy_files), NEW toload \in Seq(Nat),
           \A i \in DOMAIN toload : toload[i] \in DOMAIN lazy_files,
           \A i, j \in DOMAIN toload : toload[i] = toload[j] => i = j,
           Loads(toload)
    PROVE  /\ files' \in Seq(FileOwner) /\ matches' \in Seq(Marks) /\ Len(matches') = Len(files')
           /\ state' \in StateType /\ Extends(files, files')
           /\ Loaded(lazy_files, state, state', files, files')
  <1> DEFINE K == {i \in DOMAIN toload :
                     ~is_loaded(toload[i]) /\ lazy_files[toload[i]].load = "ok"}
             new == Subsequence(toload, K)
             made == [i \in DOMAIN new |->
                        [name |-> <<"found", new[i]>>,
                         text |-> <<"found", lazy_files[new[i]].text>>,
                         edits |-> {}, new |-> FALSE]]
             owners == [f \in DOMAIN Owners |->
                            IF \E i \in DOMAIN new : new[i] = f
                            THEN <<Len(files) + CHOOSE i \in DOMAIN new : new[i] = f>>
                            ELSE Owners[f]]
  <1>1. /\ lazy_files \in Seq(Lazy) /\ files \in Seq(FileOwner) /\ matches \in Seq(Marks)
        /\ Len(matches) = Len(files) /\ state \in StateType
    BY DEF Shapes
  <1>2. /\ new \in Seq(Nat)
        /\ \A i \in DOMAIN new : \E k \in K : new[i] = toload[k]
        /\ \A i, j \in DOMAIN new : new[i] = new[j] => i = j
    <2>1. K \in SUBSET DOMAIN toload
      OBVIOUS
    <2> HIDE DEF K
    <2> QED
      BY <2>1, SubsequenceShape
  <1>3. \A i \in DOMAIN new : new[i] \in DOMAIN lazy_files /\ Owners[new[i]] = <<>>
    BY <1>2 DEF is_loaded
  <1>4. /\ files' = files \o made
        /\ matches' = matches \o [i \in DOMAIN new |-> "none"]
        /\ state' = [state EXCEPT !.owners = owners]
    BY DEF Loads, FoundName, FoundText
  <1> HIDE DEF K, new
  <1>5. Len(new) \in Nat /\ DOMAIN new = 1 .. Len(new)
    BY <1>2
  <1>6. made \in Seq(FileOwner) /\ Len(made) = Len(new)
    <2>1. \A i \in DOMAIN new : made[i] \in FileOwner
      <3> SUFFICES ASSUME NEW i \in DOMAIN new PROVE made[i] \in FileOwner
        OBVIOUS
      <3>1. new[i] \in Nat
        BY <1>2
      <3>2. lazy_files[new[i]] \in Lazy
        BY <1>1, <1>3
      <3>3. lazy_files[new[i]].text \in Nat
        BY <3>2 DEF Lazy
      <3>4. <<"found", new[i]>> \in Value
        BY <3>1 DEF Value
      <3>5. <<"found", lazy_files[new[i]].text>> \in Value
        BY <3>3 DEF Value
      <3> QED
        BY <3>4, <3>5 DEF FileOwner
    <2> QED
      BY <1>5, <2>1
  <1>7. /\ [i \in DOMAIN new |-> "none"] \in Seq(Marks)
        /\ Len([i \in DOMAIN new |-> "none"]) = Len(new)
    BY <1>5 DEF Marks
  <1>8. files' \in Seq(FileOwner) /\ Len(files') = Len(files) + Len(new)
    <2>1. files \in Seq(FileOwner) /\ made \in Seq(FileOwner) /\ files' = files \o made
      BY <1>1, <1>4, <1>6
    <2> HIDE DEF made
    <2>2. files \o made \in Seq(FileOwner) /\ Len(files \o made) = Len(files) + Len(made)
      BY <2>1
    <2> QED
      BY <1>6, <2>1, <2>2
  <1>9. matches' \in Seq(Marks) /\ Len(matches') = Len(matches) + Len(new)
    <2> DEFINE none == [i \in DOMAIN new |-> "none"]
    <2>1. none \in Seq(Marks) /\ Len(none) = Len(new) /\ matches' = matches \o none
      BY <1>4, <1>7
    <2> HIDE DEF none
    <2>3. matches \in Seq(Marks) /\ none \in Seq(Marks)
      BY <1>1, <2>1
    <2>2. matches \o none \in Seq(Marks) /\ Len(matches \o none) = Len(matches) + Len(none)
      BY <2>3, ConcatProperties
    <2> QED
      BY <2>1, <2>2
  <1>10. Extends(files, files')
    <2>1. \A i \in DOMAIN files : i \in DOMAIN files' /\ files'[i] = files[i]
      <3> HIDE DEF made
      <3> QED
        BY <1>1, <1>4, <1>6
    <2> QED
      BY <2>1 DEF Extends
  <1>11. \A i \in DOMAIN new : /\ Len(files) + i \in DOMAIN files' \ DOMAIN files
                               /\ files'[Len(files) + i] = made[i]
    <2> HIDE DEF made
    <2> QED
      BY <1>1, <1>4, <1>5, <1>6
  <1>12. \A f \in DOMAIN Owners :
            \/ owners[f] = Owners[f]
            \/ \E i \in DOMAIN new : new[i] = f /\ owners[f] = <<Len(files) + i>>
    OBVIOUS
  <1>13. Owners \in Seq(Seq(Nat)) /\ DOMAIN Owners = 1 .. Len(Owners) /\ Len(Owners) \in Nat
    <2>1. Owners \in Seq(Seq(Nat))
      BY <1>1 DEF StateType, Owners
    <2> QED
      BY <2>1
  <1>14. owners \in Seq(Seq(Nat)) /\ Len(owners) = Len(Owners) /\ DOMAIN owners = DOMAIN Owners
    <2>1. DOMAIN owners = 1 .. Len(Owners)
      BY <1>13
    <2>2. \A f \in DOMAIN Owners : owners[f] \in Seq(Nat)
      <3> SUFFICES ASSUME NEW f \in DOMAIN Owners PROVE owners[f] \in Seq(Nat)
        OBVIOUS
      <3>1. CASE owners[f] = Owners[f]
        <4>1. Owners[f] \in Seq(Nat)
          BY <1>13
        <4> HIDE DEF owners
        <4> QED
          BY <3>1, <4>1
      <3>2. CASE \E i \in DOMAIN new : owners[f] = <<Len(files) + i>>
        <4>1. \A i \in DOMAIN new : Len(files) + i \in Nat
          BY <1>1, <1>5
        <4> HIDE DEF owners
        <4> QED
          BY <3>2, <4>1
      <3> HIDE DEF owners
      <3> QED
        BY <1>12, <3>1, <3>2
    <2>3. owners = [f \in DOMAIN Owners |-> owners[f]]
      OBVIOUS
    <2> HIDE DEF owners
    <2> QED
      BY <1>13, <2>1, <2>2, <2>3
  <1> HIDE DEF owners
  <1>15. /\ state' \in StateType /\ state'.owners = owners
         /\ state'.effects = state.effects /\ state'.new_files = state.new_files
         /\ state'.asked = state.asked
    BY <1>1, <1>4, <1>14 DEF StateType
  <1>16. Loaded(lazy_files, state, state', files, files')
    <2>1. ASSUME NEW f \in DOMAIN Owners, owners[f] # Owners[f]
          PROVE  /\ Owners[f] = <<>> /\ f \in DOMAIN lazy_files
                 /\ \E x \in DOMAIN files' \ DOMAIN files :
                       /\ owners[f] = <<x>>
                       /\ files'[x] = [name |-> <<"found", f>>,
                                       text |-> <<"found", lazy_files[f].text>>,
                                       edits |-> {}, new |-> FALSE]
      <3>1. PICK i \in DOMAIN new : new[i] = f /\ owners[f] = <<Len(files) + i>>
        BY <1>12, <2>1
      <3>2. made[i] = [name |-> <<"found", f>>, text |-> <<"found", lazy_files[f].text>>,
                       edits |-> {}, new |-> FALSE]
        BY <3>1
      <3>3. Owners[f] = <<>> /\ f \in DOMAIN lazy_files
        BY <1>3, <3>1
      <3> HIDE DEF made
      <3> QED
        BY <1>11, <3>1, <3>2, <3>3
    <2> HIDE DEF made
    <2>2. \A f \in DOMAIN state.owners :
            \/ state'.owners[f] = state.owners[f]
            \/ /\ state.owners[f] = <<>> /\ f \in DOMAIN lazy_files
               /\ \E x \in DOMAIN files' \ DOMAIN files :
                     /\ state'.owners[f] = <<x>>
                     /\ files'[x] = [name |-> <<"found", f>>,
                                     text |-> <<"found", lazy_files[f].text>>,
                                     edits |-> {}, new |-> FALSE]
      BY <1>15, <2>1 DEF Owners
    <2>3. Len(state'.owners) = Len(state.owners)
      BY <1>14, <1>15 DEF Owners
    <2> QED
      BY <1>15, <2>2, <2>3 DEF Loaded
  <1>17. Len(matches') = Len(files')
    BY <1>1, <1>8, <1>9
  <1> QED
    BY <1>8, <1>9, <1>10, <1>15, <1>16, <1>17

-----------------------------------------------------------------------------
(* A revision of a file.                                                   *)

Pushed(s, fs, f) == [s EXCEPT !.owners[f] = Append(@, Len(fs) + 1)]
LastOf(s, f) == s.owners[f][Len(s.owners[f])]

\* The versions there are then: those there were, and one that is a new FileOwner.
OneMore(s, t, fs, gs, f, x) ==
    /\ t \in StateType /\ gs \in Seq(FileOwner) /\ Extends(fs, gs)
    /\ t.effects = s.effects /\ t.new_files = s.new_files /\ t.asked = s.asked
    /\ Len(t.owners) = Len(s.owners) /\ DOMAIN t.owners = DOMAIN s.owners
    /\ Len(t.owners[f]) = Len(s.owners[f]) + 1
    /\ \A g \in DOMAIN s.owners : g # f => t.owners[g] = s.owners[g]
    /\ \A g \in DOMAIN s.owners : \A i \in DOMAIN s.owners[g] :
          i \in DOMAIN t.owners[g] /\ t.owners[g][i] = s.owners[g][i]
    /\ \A g \in DOMAIN s.owners : \A i \in DOMAIN t.owners[g] :
          \/ /\ i \in DOMAIN s.owners[g] /\ t.owners[g][i] = s.owners[g][i]
             /\ t.owners[g][i] \in DOMAIN fs
             /\ gs[t.owners[g][i]] = fs[s.owners[g][i]]
          \/ /\ g = f /\ i = Len(s.owners[f]) + 1
             /\ t.owners[g][i] = Len(fs) + 1 /\ gs[t.owners[g][i]] = x

\* So it is when a revision is pushed.
LEMMA PushedVersions ==
    ASSUME NEW s \in StateType, NEW fs \in Seq(FileOwner), NEW x \in FileOwner,
           NEW f \in DOMAIN s.owners,
           \A g \in DOMAIN s.owners : \A i \in DOMAIN s.owners[g] : s.owners[g][i] \in DOMAIN fs
    PROVE  OneMore(s, Pushed(s, fs, f), fs, Append(fs, x), f, x)
  <1> DEFINE t == Pushed(s, fs, f)
             gs == Append(fs, x)
             n == Len(fs) + 1
  <1>1. /\ s.owners \in Seq(Seq(Nat)) /\ s.effects \in SUBSET [owner: Nat, kind: Kinds]
        /\ s.new_files \in Nat /\ s.asked \in Nat
    BY DEF StateType
  <1>2. s.owners[f] \in Seq(Nat) /\ Len(s.owners[f]) \in Nat
    BY <1>1
  <1>3. n \in Nat /\ n \notin DOMAIN fs
    OBVIOUS
  <1>4. /\ Append(s.owners[f], n) \in Seq(Nat)
        /\ Len(Append(s.owners[f], n)) = Len(s.owners[f]) + 1
        /\ DOMAIN Append(s.owners[f], n) = 1 .. Len(s.owners[f]) + 1
        /\ DOMAIN s.owners[f] = 1 .. Len(s.owners[f])
        /\ \A i \in 1 .. Len(s.owners[f]) : Append(s.owners[f], n)[i] = s.owners[f][i]
        /\ Append(s.owners[f], n)[Len(s.owners[f]) + 1] = n
    <2> DEFINE o == s.owners[f]
    <2>1. o \in Seq(Nat) /\ n \in Nat
      BY <1>2, <1>3
    <2> HIDE DEF o, n
    <2>2. /\ Append(o, n) \in Seq(Nat) /\ Len(Append(o, n)) = Len(o) + 1
          /\ DOMAIN Append(o, n) = 1 .. Len(o) + 1 /\ DOMAIN o = 1 .. Len(o)
          /\ \A i \in 1 .. Len(o) : Append(o, n)[i] = o[i]
          /\ Append(o, n)[Len(o) + 1] = n
      BY <2>1
    <2> QED
      BY <2>2 DEF o
  <1>5. /\ t.owners = [s.owners EXCEPT ![f] = Append(s.owners[f], n)]
        /\ t.effects = s.effects /\ t.new_files = s.new_files /\ t.asked = s.asked
    BY DEF Pushed, StateType
  <1>6. t = [s EXCEPT !.owners = t.owners]
    BY DEF Pushed, StateType
  <1> HIDE DEF n, t
  <1>7. /\ t.owners \in Seq(Seq(Nat)) /\ Len(t.owners) = Len(s.owners)
        /\ DOMAIN t.owners = DOMAIN s.owners
        /\ t.owners[f] = Append(s.owners[f], n)
        /\ \A g \in DOMAIN s.owners : g # f => t.owners[g] = s.owners[g]
    <2> DEFINE a == Append(s.owners[f], n)
    <2>1. a \in Seq(Nat) /\ t.owners = [s.owners EXCEPT ![f] = a]
      BY <1>4, <1>5
    <2> HIDE DEF a
    <2>2. /\ t.owners \in Seq(Seq(Nat)) /\ Len(t.owners) = Len(s.owners)
          /\ DOMAIN t.owners = DOMAIN s.owners /\ t.owners[f] = a
          /\ \A g \in DOMAIN s.owners : g # f => t.owners[g] = s.owners[g]
      BY <1>1, <2>1
    <2> QED
      BY <2>2 DEF a
  <1>8. t \in StateType
    BY <1>1, <1>6, <1>7 DEF StateType
  <1>9. /\ gs \in Seq(FileOwner) /\ DOMAIN gs = 1 .. n /\ DOMAIN fs = 1 .. Len(fs)
        /\ gs[n] = x /\ \A i \in DOMAIN fs : i \in DOMAIN gs /\ gs[i] = fs[i]
    BY DEF n
  <1> HIDE DEF gs
  <1>10. \A g \in DOMAIN s.owners : \A i \in DOMAIN s.owners[g] :
            i \in DOMAIN t.owners[g] /\ t.owners[g][i] = s.owners[g][i]
    <2> SUFFICES ASSUME NEW g \in DOMAIN s.owners, NEW i \in DOMAIN s.owners[g]
                 PROVE  i \in DOMAIN t.owners[g] /\ t.owners[g][i] = s.owners[g][i]
      OBVIOUS
    <2>1. CASE g = f
      <3>1. i \in 1 .. Len(s.owners[f])
        BY <1>4, <2>1
      <3>2. i \in 1 .. Len(s.owners[f]) + 1
        BY <1>2, <3>1
      <3> QED
        BY <1>4, <1>7, <2>1, <3>1, <3>2
    <2>2. CASE g # f
      BY <1>7, <2>2
    <2> QED
      BY <2>1, <2>2
  <1>11. \A g \in DOMAIN s.owners : \A i \in DOMAIN t.owners[g] :
            \/ /\ i \in DOMAIN s.owners[g] /\ t.owners[g][i] = s.owners[g][i]
               /\ t.owners[g][i] \in DOMAIN fs /\ gs[t.owners[g][i]] = fs[s.owners[g][i]]
            \/ /\ g = f /\ i = Len(s.owners[f]) + 1
               /\ t.owners[g][i] = n /\ gs[t.owners[g][i]] = x
    <2> SUFFICES ASSUME NEW g \in DOMAIN s.owners, NEW i \in DOMAIN t.owners[g]
                 PROVE  \/ /\ i \in DOMAIN s.owners[g] /\ t.owners[g][i] = s.owners[g][i]
                           /\ t.owners[g][i] \in DOMAIN fs
                           /\ gs[t.owners[g][i]] = fs[s.owners[g][i]]
                        \/ /\ g = f /\ i = Len(s.owners[f]) + 1
                           /\ t.owners[g][i] = n /\ gs[t.owners[g][i]] = x
      OBVIOUS
    <2>1. CASE i \in DOMAIN s.owners[g]
      BY <1>9, <1>10, <2>1
    <2>2. CASE i \notin DOMAIN s.owners[g]
      <3>1. g = f
        BY <1>7, <2>2
      <3>2. i \in 1 .. Len(s.owners[f]) + 1 /\ i \notin 1 .. Len(s.owners[f])
        BY <1>4, <1>7, <2>2, <3>1
      <3>3. i = Len(s.owners[f]) + 1
        BY <1>2, <3>2
      <3> QED
        BY <1>4, <1>7, <1>9, <3>1, <3>3
    <2> QED
      BY <2>1, <2>2
  <1>12. Extends(fs, gs)
    BY <1>9 DEF Extends
  <1>13. Len(t.owners[f]) = Len(s.owners[f]) + 1
    BY <1>4, <1>7
  <1> QED
    BY <1>5, <1>7, <1>8, <1>9, <1>10, <1>11, <1>12, <1>13 DEF OneMore, t, gs, n

\* A state stays good when a file gets a revision that comes from the last one.
LEMMA PushedGood ==
    ASSUME NEW found \in Seq(Lazy), NEW s \in StateType, NEW fs \in Seq(FileOwner),
           NEW x \in FileOwner, NEW d, NEW f \in DOMAIN found, Good(found, s, fs, d),
           s.owners[f] # <<>>,
           "nested" \notin d => Within(fs[LastOf(s, f)], x),
           d = {} => x.edits # {},
           "touched" \notin d => \A g \in DOMAIN found \ {f} :
               x.text \notin TextsOf(found, s, fs, g) /\ x.name \notin NamesOf(s, fs, g)
    PROVE  /\ Pushed(s, fs, f) \in StateType /\ Append(fs, x) \in Seq(FileOwner)
           /\ Good(found, Pushed(s, fs, f), Append(fs, x), d)
           /\ Grown(s, Pushed(s, fs, f)) /\ Extends(fs, Append(fs, x))
  <1> DEFINE t == Pushed(s, fs, f)
             gs == Append(fs, x)
             Old(g, i) == /\ i \in DOMAIN s.owners[g] /\ t.owners[g][i] = s.owners[g][i]
                          /\ t.owners[g][i] \in DOMAIN fs
                          /\ gs[t.owners[g][i]] = fs[s.owners[g][i]]
             New(g, i) == /\ g = f /\ i = Len(s.owners[f]) + 1
                          /\ t.owners[g][i] = Len(fs) + 1 /\ gs[t.owners[g][i]] = x
  <1>1. /\ Registry(found, s, fs) /\ Apart(s) /\ Origin(found, s, fs)
        /\ ("nested" \notin d => Survive(s, fs)) /\ (d = {} => Revised(s, fs))
        /\ ("touched" \notin d => Different(found, s, fs))
    BY DEF Good
  <1>2. /\ \A g \in DOMAIN found : g \in DOMAIN s.owners
        /\ \A g \in DOMAIN s.owners : g \in Nat /\ s.owners[g] \in Seq(Nat)
        /\ Len(found) \in Nat /\ DOMAIN found = 1 .. Len(found)
    BY <1>1, FoundOwned DEF Registry
  <1>3. /\ t \in StateType /\ gs \in Seq(FileOwner) /\ Extends(fs, gs)
        /\ t.effects = s.effects /\ t.new_files = s.new_files /\ t.asked = s.asked
        /\ Len(t.owners) = Len(s.owners) /\ DOMAIN t.owners = DOMAIN s.owners
        /\ Len(t.owners[f]) = Len(s.owners[f]) + 1
        /\ \A g \in DOMAIN s.owners : g # f => t.owners[g] = s.owners[g]
        /\ \A g \in DOMAIN s.owners : \A i \in DOMAIN s.owners[g] :
              i \in DOMAIN t.owners[g] /\ t.owners[g][i] = s.owners[g][i]
        /\ \A g \in DOMAIN s.owners : \A i \in DOMAIN t.owners[g] : Old(g, i) \/ New(g, i)
    <2>1. f \in DOMAIN s.owners
      BY <1>2
    <2>2. \A g \in DOMAIN s.owners : \A i \in DOMAIN s.owners[g] : s.owners[g][i] \in DOMAIN fs
      BY <1>1 DEF Registry
    <2>3. OneMore(s, t, fs, gs, f, x)
      BY <2>1, <2>2, PushedVersions
    <2> HIDE DEF t, gs
    <2> QED
      BY <2>3 DEF OneMore
  <1>4. Len(fs) + 1 \notin DOMAIN fs /\ Len(fs) + 1 \in DOMAIN gs
    OBVIOUS
  <1>5. \A g \in DOMAIN s.owners : \A i \in DOMAIN s.owners[g] : Old(g, i)
    <2> SUFFICES ASSUME NEW g \in DOMAIN s.owners, NEW i \in DOMAIN s.owners[g]
                 PROVE  Old(g, i)
      OBVIOUS
    <2>1. i \in DOMAIN t.owners[g] /\ t.owners[g][i] = s.owners[g][i]
      BY <1>3
    <2>2. s.owners[g][i] \in DOMAIN fs
      BY <1>1 DEF Registry
    <2>3. gs[s.owners[g][i]] = fs[s.owners[g][i]]
      BY <1>3, <2>2 DEF Extends
    <2> QED
      BY <2>1, <2>2, <2>3
  <1>6. Len(s.owners[f]) \in Nat \ {0} /\ DOMAIN s.owners[f] = 1 .. Len(s.owners[f])
    BY <1>2
  <1> HIDE DEF t, gs
  <1>7. \A g \in DOMAIN s.owners : s.owners[g] # <<>> =>
            1 \in DOMAIN s.owners[g] /\ 1 \in DOMAIN t.owners[g]
    BY <1>2, <1>3
  <1>8. Registry(found, t, gs)
    <2>1. /\ Len(t.owners) >= Len(found)
          /\ Len(t.owners) + t.new_files = Len(found) + t.asked
      BY <1>1, <1>3 DEF Registry
    <2>2. \A g \in DOMAIN t.owners : \A i \in DOMAIN t.owners[g] : t.owners[g][i] \in DOMAIN gs
      <3>1. \A k \in DOMAIN fs : k \in DOMAIN gs
        BY <1>3 DEF Extends
      <3> QED
        BY <1>3, <1>4, <3>1
    <2>3. \A e \in t.effects : e.owner \in DOMAIN gs
      BY <1>1, <1>3 DEF Registry, Extends
    <2>4. \A g \in DOMAIN t.owners : g > Len(found) =>
             Len(t.owners[g]) = 1 /\ gs[t.owners[g][1]].new
      <3> SUFFICES ASSUME NEW g \in DOMAIN s.owners, g > Len(found)
                   PROVE  Len(t.owners[g]) = 1 /\ gs[t.owners[g][1]].new
        BY <1>3
      <3>1. Len(s.owners[g]) = 1 /\ fs[s.owners[g][1]].new
        BY <1>1 DEF Registry
      <3>2. g # f
        BY <1>2
      <3>3. 1 \in DOMAIN s.owners[g]
        BY <1>2, <3>1
      <3>4. Old(g, 1)
        BY <1>5, <3>3
      <3> QED
        BY <1>3, <3>1, <3>2, <3>4
    <2>5. \A g \in DOMAIN found : t.owners[g] # <<>> => ~gs[t.owners[g][1]].new
      <3> SUFFICES ASSUME NEW g \in DOMAIN found, t.owners[g] # <<>>
                   PROVE  ~gs[t.owners[g][1]].new
        OBVIOUS
      <3>1. g \in DOMAIN s.owners
        BY <1>2
      <3>2. s.owners[g] # <<>>
        BY <1>3, <3>1
      <3>3. Old(g, 1)
        BY <1>5, <1>7, <3>1, <3>2
      <3>4. ~fs[s.owners[g][1]].new
        BY <1>1, <3>2 DEF Registry
      <3> QED
        BY <3>3, <3>4
    <2> QED
      BY <2>1, <2>2, <2>3, <2>4, <2>5 DEF Registry
  <1>9. Apart(t)
    <2> SUFFICES ASSUME NEW g \in DOMAIN s.owners, NEW h \in DOMAIN s.owners,
                        NEW i \in DOMAIN t.owners[g], NEW j \in DOMAIN t.owners[h],
                        t.owners[g][i] = t.owners[h][j]
                 PROVE  g = h
      BY <1>3 DEF Apart
    <2>1. CASE Old(g, i) /\ Old(h, j)
      <3>1. s.owners[g][i] = s.owners[h][j]
        BY <2>1
      <3>2. i \in DOMAIN s.owners[g] /\ j \in DOMAIN s.owners[h]
        BY <2>1
      <3> QED
        BY <1>1, <3>1, <3>2 DEF Apart
    <2>2. CASE New(g, i) /\ New(h, j)
      BY <2>2
    <2>3. CASE Old(g, i) /\ New(h, j)
      BY <1>4, <2>3
    <2>4. CASE New(g, i) /\ Old(h, j)
      BY <1>4, <2>4
    <2>5. (Old(g, i) \/ New(g, i)) /\ (Old(h, j) \/ New(h, j))
      BY <1>3
    <2> QED
      BY <2>1, <2>2, <2>3, <2>4, <2>5
  <1>10. Origin(found, t, gs)
    <2> SUFFICES ASSUME NEW g \in DOMAIN found, t.owners[g] # <<>>
                 PROVE  gs[t.owners[g][1]].edits = {}
      BY DEF Origin
    <2>1. g \in DOMAIN s.owners
      BY <1>2
    <2>2. s.owners[g] # <<>>
      BY <1>3, <2>1
    <2>3. Old(g, 1)
      BY <1>5, <1>7, <2>1, <2>2
    <2>4. fs[s.owners[g][1]].edits = {}
      BY <1>1, <2>2 DEF Origin
    <2> QED
      BY <2>3, <2>4
  <1>11. LastOf(s, f) = s.owners[f][Len(s.owners[f])] /\ Len(s.owners[f]) \in DOMAIN s.owners[f]
    BY <1>6 DEF LastOf
  <1>12. "nested" \notin d => Survive(t, gs)
    <2> SUFFICES ASSUME "nested" \notin d, NEW g \in DOMAIN s.owners,
                        NEW i \in DOMAIN t.owners[g], NEW j \in DOMAIN t.owners[g], i <= j
                 PROVE  Within(gs[t.owners[g][i]], gs[t.owners[g][j]])
      BY <1>3 DEF Survive
    <2>1. CASE Old(g, i) /\ Old(g, j)
      BY <1>1, <2>1 DEF Survive
    <2>2. CASE New(g, i) /\ New(g, j)
      BY <2>2 DEF Within
    <2>3. CASE Old(g, i) /\ New(g, j)
      <3>1. i \in DOMAIN s.owners[f] /\ i <= Len(s.owners[f])
        BY <1>6, <2>3
      <3>2. Within(fs[s.owners[f][i]], fs[LastOf(s, f)])
        BY <1>1, <1>2, <1>11, <3>1 DEF Survive
      <3>3. Within(fs[s.owners[f][i]], x)
        BY <3>2 DEF Within
      <3> QED
        BY <2>3, <3>3
    <2>4. CASE New(g, i) /\ Old(g, j)
      BY <1>6, <2>4
    <2>5. (Old(g, i) \/ New(g, i)) /\ (Old(g, j) \/ New(g, j))
      BY <1>3
    <2> QED
      BY <2>1, <2>2, <2>3, <2>4, <2>5
  <1>13. d = {} => Revised(t, gs)
    <2> SUFFICES ASSUME d = {}, NEW g \in DOMAIN s.owners, NEW i \in DOMAIN t.owners[g], i > 1
                 PROVE  gs[t.owners[g][i]].edits # {}
      BY <1>3 DEF Revised
    <2>1. CASE Old(g, i)
      BY <1>1, <2>1 DEF Revised
    <2>2. CASE New(g, i)
      BY <2>2
    <2> QED
      BY <1>3, <2>1, <2>2
  <1>16. ASSUME "touched" \notin d PROVE Different(found, t, gs)
    <2>1. \A g \in DOMAIN found : g # f => /\ TextsOf(found, t, gs, g) = TextsOf(found, s, fs, g)
                                          /\ NamesOf(t, gs, g) = NamesOf(s, fs, g)
      <3> SUFFICES ASSUME NEW g \in DOMAIN found, g # f
                   PROVE  /\ TextsOf(found, t, gs, g) = TextsOf(found, s, fs, g)
                          /\ NamesOf(t, gs, g) = NamesOf(s, fs, g)
        OBVIOUS
      <3>1. t.owners[g] = s.owners[g]
        BY <1>2, <1>3
      <3>2. \A o \in Range(s.owners[g]) : gs[o] = fs[o]
        <4> SUFFICES ASSUME NEW i \in DOMAIN s.owners[g]
                     PROVE  gs[s.owners[g][i]] = fs[s.owners[g][i]]
          BY DEF Range
        <4>1. Old(g, i)
          BY <1>2, <1>5
        <4> QED
          BY <4>1
      <3> QED
        BY <3>1, <3>2 DEF TextsOf, NamesOf
    <2>2. \A o \in Range(t.owners[f]) : gs[o] = x \/ \E p \in Range(s.owners[f]) : gs[o] = fs[p]
      <3> SUFFICES ASSUME NEW i \in DOMAIN t.owners[f]
                   PROVE  \/ gs[t.owners[f][i]] = x
                          \/ \E p \in Range(s.owners[f]) : gs[t.owners[f][i]] = fs[p]
        BY DEF Range
      <3>1. f \in DOMAIN s.owners
        BY <1>2
      <3>2. CASE New(f, i)
        BY <3>2
      <3>3. CASE Old(f, i)
        <4>1. s.owners[f][i] \in Range(s.owners[f])
          BY <3>3 DEF Range
        <4> QED
          BY <3>3, <4>1
      <3> QED
        BY <1>3, <3>1, <3>2, <3>3
    <2>3. /\ TextsOf(found, t, gs, f) \subseteq TextsOf(found, s, fs, f) \union {x.text}
          /\ NamesOf(t, gs, f) \subseteq NamesOf(s, fs, f) \union {x.name}
      BY <2>2 DEF TextsOf, NamesOf
    <2>4. \A g \in DOMAIN found : g # f =>
            x.text \notin TextsOf(found, s, fs, g) /\ x.name \notin NamesOf(s, fs, g)
      BY <1>16
    <2>5. Different(found, s, fs)
      BY <1>1, <1>16
    <2>6. ASSUME NEW g \in DOMAIN found, NEW h \in DOMAIN found, g # h
          PROVE  /\ TextsOf(found, t, gs, g) \intersect TextsOf(found, t, gs, h) = {}
                 /\ NamesOf(t, gs, g) \intersect NamesOf(t, gs, h) = {}
      <3>1. /\ TextsOf(found, s, fs, g) \intersect TextsOf(found, s, fs, h) = {}
            /\ NamesOf(s, fs, g) \intersect NamesOf(s, fs, h) = {}
        BY <2>5, <2>6 DEF Different
      <3>2. CASE g = f
        BY <2>1, <2>3, <2>4, <2>6, <3>1, <3>2
      <3>3. CASE h = f
        BY <2>1, <2>3, <2>4, <2>6, <3>1, <3>3
      <3>4. CASE g # f /\ h # f
        BY <2>1, <3>1, <3>4
      <3> QED
        BY <3>2, <3>3, <3>4
    <2> QED
      BY <2>6 DEF Different
  <1>14. Grown(s, t)
    <2>1. \A g \in DOMAIN s.owners : Len(s.owners[g]) \in Nat
      BY <1>2
    <2>2. \A g \in DOMAIN s.owners : Len(s.owners[g]) <= Len(t.owners[g])
      <3> SUFFICES ASSUME NEW g \in DOMAIN s.owners
                   PROVE  Len(s.owners[g]) <= Len(t.owners[g])
        OBVIOUS
      <3>1. CASE g = f
        BY <1>3, <2>1, <3>1
      <3>2. CASE g # f
        BY <1>3, <2>1, <3>2
      <3> QED
        BY <3>1, <3>2
    <2>3. Len(s.owners) \in Nat
      BY DEF StateType
    <2> QED
      BY <1>3, <2>2, <2>3 DEF Grown
  <1>15. Good(found, t, gs, d)
    BY <1>8, <1>9, <1>10, <1>12, <1>13, <1>16 DEF Good
  <1> QED
    BY <1>3, <1>14, <1>15 DEF t, gs

-----------------------------------------------------------------------------
(* New files.                                                              *)

\* t is s with the new files that are wanted, one version each, and nothing left.
Made(s, t, fs, gs) ==
    /\ Clean(t) /\ t.asked = s.asked
    /\ Len(t.owners) = Len(s.owners) + s.new_files
    /\ \A f \in DOMAIN s.owners : t.owners[f] = s.owners[f]
    /\ \A f \in DOMAIN t.owners \ DOMAIN s.owners :
          LET x == Len(fs) + (f - Len(s.owners))
          IN  t.owners[f] = <<x>> /\ x \in DOMAIN gs \ DOMAIN fs /\ gs[x].new

\* A state stays good when new files are made.
LEMMA MadeGood ==
    ASSUME NEW found \in Seq(Lazy), NEW s \in StateType, NEW t \in StateType,
           NEW fs \in Seq(FileOwner), NEW gs \in Seq(FileOwner), NEW d,
           Good(found, s, fs, d), Extends(fs, gs), Made(s, t, fs, gs)
    PROVE  Good(found, t, gs, d) /\ Grown(s, t)
  <1> DEFINE Old(f) == f \in DOMAIN s.owners /\ t.owners[f] = s.owners[f]
             New(f) == /\ f \notin DOMAIN s.owners /\ f \notin DOMAIN found /\ f > Len(found)
                       /\ Len(t.owners[f]) = 1 /\ DOMAIN t.owners[f] = {1}
                       /\ t.owners[f][1] = Len(fs) + (f - Len(s.owners))
                       /\ t.owners[f][1] \in DOMAIN gs \ DOMAIN fs /\ gs[t.owners[f][1]].new
  <1>1. Good(found, s, gs, d)
    BY GoodKept
  <1>2. /\ Registry(found, s, gs) /\ Registry(found, s, fs) /\ Apart(s) /\ Origin(found, s, gs)
        /\ ("nested" \notin d => Survive(s, gs)) /\ (d = {} => Revised(s, gs))
        /\ ("touched" \notin d => Different(found, s, gs))
    BY <1>1 DEF Good
  <1>3. /\ \A f \in DOMAIN found : f \in DOMAIN s.owners
        /\ \A f \in DOMAIN s.owners : /\ f \in Nat \ {0} /\ s.owners[f] \in Seq(Nat)
                                      /\ f > Len(found) \/ f \in DOMAIN found
        /\ Len(found) \in Nat /\ DOMAIN found = 1 .. Len(found)
        /\ DOMAIN s.owners = 1 .. Len(s.owners) /\ Len(s.owners) \in Nat
        /\ s.new_files \in Nat
    BY <1>2, FoundOwned DEF Registry
  <1>4. DOMAIN t.owners = 1 .. Len(t.owners) /\ Len(t.owners) \in Nat
    <2>1. t.owners \in Seq(Seq(Nat))
      BY DEF StateType
    <2> QED
      BY <2>1
  <1>5. Len(t.owners) = Len(s.owners) + s.new_files
    BY DEF Made
  <1>6. \A f \in DOMAIN s.owners : f \in DOMAIN t.owners
    BY <1>3, <1>4, <1>5
  <1>7. Len(s.owners) >= Len(found)
    BY <1>2 DEF Registry
  <1>8. \A f \in DOMAIN t.owners : Old(f) \/ New(f)
    <2> SUFFICES ASSUME NEW f \in DOMAIN t.owners, f \notin DOMAIN s.owners PROVE New(f)
      BY DEF Made
    <2>1. f \notin DOMAIN found /\ f > Len(found)
      BY <1>3, <1>4, <1>7
    <2>2. /\ t.owners[f] = <<Len(fs) + (f - Len(s.owners))>>
          /\ Len(fs) + (f - Len(s.owners)) \in DOMAIN gs \ DOMAIN fs
          /\ gs[Len(fs) + (f - Len(s.owners))].new
      BY DEF Made
    <2>3. \A x : Len(<<x>>) = 1 /\ DOMAIN <<x>> = {1} /\ <<x>>[1] = x
      OBVIOUS
    <2> QED
      BY <2>1, <2>2, <2>3
  <1>9. \A f \in DOMAIN t.owners : New(f) => \A i \in DOMAIN t.owners[f] : i = 1
    OBVIOUS
  <1>10. \A f \in DOMAIN found : f \in DOMAIN t.owners /\ Old(f)
    BY <1>3, <1>6 DEF Made
  <1>11. Registry(found, t, gs)
    <2>1. Len(t.owners) >= Len(found)
      BY <1>3, <1>5, <1>7
    <2>2. Len(t.owners) + t.new_files = Len(found) + t.asked
      <3>1. Len(s.owners) + s.new_files = Len(found) + s.asked
        BY <1>2 DEF Registry
      <3>2. t.new_files = 0 /\ t.asked = s.asked
        BY DEF Made, Clean
      <3> QED
        BY <1>4, <1>5, <3>1, <3>2
    <2>3. \A f \in DOMAIN t.owners : \A i \in DOMAIN t.owners[f] : t.owners[f][i] \in DOMAIN gs
      <3> SUFFICES ASSUME NEW f \in DOMAIN t.owners, NEW i \in DOMAIN t.owners[f]
                   PROVE  t.owners[f][i] \in DOMAIN gs
        OBVIOUS
      <3>1. CASE Old(f)
        BY <1>2, <3>1 DEF Registry
      <3>2. CASE New(f)
        BY <1>9, <3>2
      <3> QED
        BY <1>8, <3>1, <3>2
    <2>4. \A e \in t.effects : e.owner \in DOMAIN gs
      BY DEF Made, Clean
    <2>5. \A f \in DOMAIN t.owners : f > Len(found) =>
             Len(t.owners[f]) = 1 /\ gs[t.owners[f][1]].new
      BY <1>2, <1>8 DEF Registry
    <2>6. \A f \in DOMAIN found : t.owners[f] # <<>> => ~gs[t.owners[f][1]].new
      BY <1>2, <1>10 DEF Registry
    <2> QED
      BY <2>1, <2>2, <2>3, <2>4, <2>5, <2>6 DEF Registry
  <1>12. Apart(t)
    <2> SUFFICES ASSUME NEW f \in DOMAIN t.owners, NEW g \in DOMAIN t.owners,
                        NEW i \in DOMAIN t.owners[f], NEW j \in DOMAIN t.owners[g],
                        t.owners[f][i] = t.owners[g][j]
                 PROVE  f = g
      BY DEF Apart
    <2>1. CASE Old(f) /\ Old(g)
      BY <1>2, <2>1 DEF Apart
    <2>2. CASE Old(f) /\ New(g)
      <3>1. t.owners[f][i] \in DOMAIN fs
        BY <1>2, <2>2 DEF Registry
      <3> QED
        BY <1>9, <2>2, <3>1
    <2>3. CASE New(f) /\ Old(g)
      <3>1. t.owners[g][j] \in DOMAIN fs
        BY <1>2, <2>3 DEF Registry
      <3> QED
        BY <1>9, <2>3, <3>1
    <2>4. CASE New(f) /\ New(g)
      <3>1. Len(fs) + (f - Len(s.owners)) = Len(fs) + (g - Len(s.owners))
        BY <1>9, <2>4
      <3>2. f \in Nat /\ g \in Nat /\ Len(fs) \in Nat
        BY <1>4
      <3> QED
        BY <1>3, <3>1, <3>2
    <2> QED
      BY <1>8, <2>1, <2>2, <2>3, <2>4
  <1>13. Origin(found, t, gs)
    BY <1>2, <1>10 DEF Origin
  <1>14. "nested" \notin d => Survive(t, gs)
    <2> SUFFICES ASSUME "nested" \notin d, NEW f \in DOMAIN t.owners,
                        NEW i \in DOMAIN t.owners[f], NEW j \in DOMAIN t.owners[f], i <= j
                 PROVE  Within(gs[t.owners[f][i]], gs[t.owners[f][j]])
      BY DEF Survive
    <2>1. CASE Old(f)
      BY <1>2, <2>1 DEF Survive
    <2>2. CASE New(f)
      <3>1. i = j
        BY <1>9, <2>2
      <3> QED
        BY <3>1 DEF Within
    <2> QED
      BY <1>8, <2>1, <2>2
  <1>15. d = {} => Revised(t, gs)
    <2> SUFFICES ASSUME d = {}, NEW f \in DOMAIN t.owners, NEW i \in DOMAIN t.owners[f], i > 1
                 PROVE  gs[t.owners[f][i]].edits # {}
      BY DEF Revised
    <2>1. CASE Old(f)
      BY <1>2, <2>1 DEF Revised
    <2>2. CASE New(f)
      BY <1>9, <2>2
    <2> QED
      BY <1>8, <2>1, <2>2
  <1>17. "touched" \notin d => Different(found, t, gs)
    <2>1. \A f \in DOMAIN found : /\ TextsOf(found, t, gs, f) = TextsOf(found, s, gs, f)
                                  /\ NamesOf(t, gs, f) = NamesOf(s, gs, f)
      BY <1>10 DEF TextsOf, NamesOf
    <2> QED
      BY <1>2, <2>1 DEF Different
  <1>16. Grown(s, t)
    <2>1. \A f \in DOMAIN s.owners : Len(s.owners[f]) <= Len(t.owners[f])
      <3> SUFFICES ASSUME NEW f \in DOMAIN s.owners PROVE Len(s.owners[f]) <= Len(t.owners[f])
        OBVIOUS
      <3>1. t.owners[f] = s.owners[f]
        BY DEF Made
      <3>2. Len(s.owners[f]) \in Nat
        BY <1>3
      <3> QED
        BY <3>1, <3>2
    <2>2. Len(s.owners) <= Len(t.owners)
      BY <1>3, <1>5
    <2> QED
      BY <2>1, <2>2 DEF Grown
  <1> QED
    BY <1>2, <1>11, <1>12, <1>13, <1>14, <1>15, <1>16, <1>17 DEF Good

\* What happens at the end of a step makes the new files that are wanted.
LEMMA PushNewFilesMade ==
    ASSUME Shapes, outcome = "running", PushNewFiles
    PROVE  /\ files' \in Seq(FileOwner) /\ matches' \in Seq(Marks) /\ Len(matches') = Len(files')
           /\ state' \in StateType /\ Extends(files, files')
           /\ Made(state, state', files, files')
  <1> DEFINE n == state.new_files
             made == [i \in 1 .. n |-> NewFile(i)]
             none == [i \in 1 .. n |-> "none"]
             own == [i \in 1 .. n |-> <<Len(files) + i>>]
  <1>1. /\ files \in Seq(FileOwner) /\ matches \in Seq(Marks) /\ Len(matches) = Len(files)
        /\ state \in StateType /\ stack \in Seq(FrameType) /\ stack # <<>>
    BY DEF Shapes
  <1>2. /\ state.owners \in Seq(Seq(Nat)) /\ n \in Nat
        /\ state = [owners |-> state.owners, effects |-> state.effects,
                    new_files |-> state.new_files, asked |-> state.asked]
        /\ state.effects \in SUBSET [owner: Nat, kind: Kinds] /\ state.asked \in Nat
    BY <1>1 DEF StateType
  <1>4. DOMAIN made = 1 .. n
    OBVIOUS
  <1>5. /\ files' = files \o made /\ matches' = matches \o none
        /\ state' = [state EXCEPT !.owners = @ \o own, !.effects = {}, !.new_files = 0]
    BY DEF PushNewFiles
  <1>6. made \in Seq(FileOwner) /\ Len(made) = n /\ \A i \in 1 .. n : made[i].new
    <2>1. \A i \in 1 .. n : made[i] \in FileOwner
      <3> SUFFICES ASSUME NEW i \in 1 .. n PROVE made[i] \in FileOwner
        OBVIOUS
      <3>1. <<"made", Len(files) + i>> \in Value
        <4>1. Len(files) + i \in Nat
          BY <1>1, <1>2
        <4> QED
          BY <4>1 DEF Value
      <3>2. made[i] = NewFile(i)
        OBVIOUS
      <3> QED
        BY <3>1, <3>2 DEF FileOwner, NewFile
    <2>2. \A i \in 1 .. n : made[i].new
      BY DEF NewFile
    <2>3. made = [i \in 1 .. n |-> made[i]]
      OBVIOUS
    <2>5. n \in Nat
      BY <1>2
    <2> HIDE DEF made, n
    <2>4. made \in Seq(FileOwner) /\ Len(made) = n
      BY <2>1, <2>3, <2>5
    <2> QED
      BY <2>2, <2>4
  <1>7. none \in Seq(Marks) /\ Len(none) = n
    BY <1>2 DEF Marks
  <1>8. own \in Seq(Seq(Nat)) /\ Len(own) = n /\ \A i \in 1 .. n : own[i] = <<Len(files) + i>>
    <2>1. \A i \in 1 .. n : Len(files) + i \in Nat
      BY <1>1, <1>2
    <2>2. \A i \in 1 .. n : own[i] \in Seq(Nat)
      BY <2>1
    <2>3. own = [i \in 1 .. n |-> own[i]] /\ \A i \in 1 .. n : own[i] = <<Len(files) + i>>
      OBVIOUS
    <2> HIDE DEF own, n
    <2>4. own \in Seq(Seq(Nat)) /\ Len(own) = n
      BY <1>2, <2>2, <2>3 DEF n
    <2> QED
      BY <2>3, <2>4
  <1>9. /\ state'.owners = state.owners \o own /\ state'.effects = {} /\ state'.new_files = 0
        /\ state'.asked = state.asked
        /\ state' = [owners |-> state.owners \o own, effects |-> {}, new_files |-> 0,
                     asked |-> state.asked]
    BY <1>2, <1>5
  <1> HIDE DEF made, none, own, n
  <1>10. files' \in Seq(FileOwner) /\ Len(files') = Len(files) + n
    BY <1>1, <1>5, <1>6, ConcatProperties
  <1>11. matches' \in Seq(Marks) /\ Len(matches') = Len(matches) + n
    BY <1>1, <1>5, <1>7, ConcatProperties
  <1>12. \A i \in DOMAIN files : i \in DOMAIN files' /\ files'[i] = files[i]
    BY <1>1, <1>5, <1>6
  <1>13. \A i \in 1 .. n : /\ Len(files) + i \in DOMAIN files' \ DOMAIN files
                           /\ files'[Len(files) + i] = made[i]
    BY <1>1, <1>2, <1>5, <1>6
  <1>14. /\ state.owners \o own \in Seq(Seq(Nat))
         /\ Len(state.owners \o own) = Len(state.owners) + n
    BY <1>2, <1>8, ConcatProperties
  <1>15. \A f \in DOMAIN state.owners : (state.owners \o own)[f] = state.owners[f]
    BY <1>2, <1>8
  <1>16. \A f \in DOMAIN (state.owners \o own) \ DOMAIN state.owners :
            /\ f - Len(state.owners) \in 1 .. n
            /\ (state.owners \o own)[f] = own[f - Len(state.owners)]
    BY <1>2, <1>8
  <1>17. state' \in StateType
    BY <1>2, <1>9, <1>14 DEF StateType
  <1>18. Made(state, state', files, files')
    <2>1. \A f \in DOMAIN state'.owners \ DOMAIN state.owners :
            /\ state'.owners[f] = <<Len(files) + (f - Len(state.owners))>>
            /\ Len(files) + (f - Len(state.owners)) \in DOMAIN files' \ DOMAIN files
            /\ files'[Len(files) + (f - Len(state.owners))].new
      BY <1>6, <1>8, <1>9, <1>13, <1>16
    <2>2. Len(state'.owners) = Len(state.owners) + state.new_files
      BY <1>9, <1>14 DEF n
    <2>3. \A f \in DOMAIN state.owners : state'.owners[f] = state.owners[f]
      BY <1>9, <1>15
    <2> QED
      BY <1>9, <2>1, <2>2, <2>3 DEF Made, Clean
  <1>19. Extends(files, files')
    BY <1>12 DEF Extends
  <1>20. Len(matches') = Len(files')
    BY <1>1, <1>10, <1>11
  <1> QED
    BY <1>10, <1>11, <1>17, <1>18, <1>19, <1>20

-----------------------------------------------------------------------------
(* How the stack moves.                                                    *)

\* What all the steps that go on keep.
GoesOn ==
    /\ lazy_files' = lazy_files /\ outcome' = "running" /\ results' = results
    /\ step' \in 0 .. MaxSteps
    /\ files' \in Seq(FileOwner) /\ matches' \in Seq(Marks) /\ Len(matches') = Len(files')
    /\ Extends(files, files')
    /\ odd \subseteq odd' /\ odd' \subseteq {"touched", "nested"}
    /\ state' \in StateType /\ Good(lazy_files, state', files', odd')

\* The innermost Sequential becomes fr.
Moves(fr) ==
    /\ fr \in FrameType /\ fr.clone \in {Top.clone, state, state'}
    /\ stack' = [stack EXCEPT ![Len(stack)] = fr]
    /\ Grown(state, state')
    /\ FrameOK(lazy_files, fr, state', odd')
    /\ fr.place = "match" => FrameOK(lazy_files, fr, fr.clone, odd')
    /\ Len(stack) = 1 /\ fr.place = "enter" => Clean(state')

\* The invariant, as long as execute runs.
LEMMA RunningFacts ==
    ASSUME IInv, outcome = "running"
    PROVE  /\ lazy_files \in Found /\ lazy_files \in Seq(Lazy) /\ lazy_files # <<>>
           /\ files \in Seq(FileOwner) /\ matches \in Seq(Marks) /\ Len(matches) = Len(files)
           /\ state \in StateType /\ Good(lazy_files, state, files, odd)
           /\ stack \in Seq(FrameType) /\ Len(stack) <= MaxDepth
           /\ Len(stack) \in Nat \ {0} /\ DOMAIN stack = 1 .. Len(stack)
           /\ Len(stack) \in DOMAIN stack
           /\ \A k \in DOMAIN stack : stack[k] \in FrameType /\ stack[k].clone \in StateType
           /\ Top \in FrameType /\ Top = stack[Len(stack)] /\ Top.clone \in StateType
           /\ FrameOK(lazy_files, Top, state, odd)
           /\ Top.place = "match" => FrameOK(lazy_files, Top, Top.clone, odd)
           /\ step \in 0 .. MaxSteps /\ results = <<>>
           /\ odd \subseteq {"touched", "nested"}
           /\ Frames /\ Waiting /\ Saved /\ Growing /\ Begins
  <1>1. Shapes /\ Alive
    BY DEF IInv
  <1>2. /\ lazy_files \in Found /\ lazy_files \in Seq(Lazy) /\ lazy_files # <<>>
        /\ files \in Seq(FileOwner) /\ matches \in Seq(Marks) /\ Len(matches) = Len(files)
        /\ state \in StateType /\ stack \in Seq(FrameType) /\ Len(stack) <= MaxDepth
        /\ step \in 0 .. MaxSteps /\ results = <<>> /\ stack # <<>>
        /\ odd \subseteq {"touched", "nested"}
    BY <1>1 DEF Shapes
  <1>3. /\ Good(lazy_files, state, files, odd)
        /\ Frames /\ Waiting /\ Saved /\ Growing /\ Begins
    BY <1>1 DEF Alive
  <1>4. /\ Len(stack) \in Nat \ {0} /\ DOMAIN stack = 1 .. Len(stack)
        /\ Len(stack) \in DOMAIN stack
    BY <1>2
  <1>5. \A k \in DOMAIN stack : stack[k] \in FrameType
    BY <1>2
  <1>6. \A fr \in FrameType : fr.clone \in StateType
    BY DEF FrameType
  <1>7. Top \in FrameType /\ Top = stack[Len(stack)]
    BY <1>4, <1>5 DEF Top
  <1>8. /\ FrameOK(lazy_files, Top, state, odd)
        /\ Top.place = "match" => FrameOK(lazy_files, Top, Top.clone, odd)
    BY <1>3, <1>4, <1>7 DEF Frames
  <1> QED
    BY <1>2, <1>3, <1>4, <1>5, <1>6, <1>7, <1>8

\* What is sound of a Sequential is so whatever it may go back to.
LEMMA FrameAlike ==
    ASSUME NEW found, NEW s, NEW d, NEW fr, NEW gr, FrameOK(found, fr, s, d),
           gr.binding = fr.binding, gr.place = fr.place, gr.pointers = fr.pointers,
           gr.next = fr.next
    PROVE  FrameOK(found, gr, s, d)
  <1>1. Distinct(found, gr) /\ InRange(gr, s) /\ Counted(gr)
    BY DEF FrameOK, Distinct, InRange, Counted
  <1>2. Latest(gr, s, d)
    BY DEF FrameOK, Latest
  <1>3. Fresh(found, gr, s, d)
    BY DEF FrameOK, Fresh
  <1> QED
    BY <1>1, <1>2, <1>3 DEF FrameOK

\* The invariant is kept when the innermost Sequential moves.
LEMMA TopMoves ==
    ASSUME IInv, outcome = "running", GoesOn, NEW fr, Moves(fr)
    PROVE  IInv'
  <1> DEFINE n == Len(stack)
  <1>1. /\ stack \in Seq(FrameType) /\ n \in Nat \ {0} /\ DOMAIN stack = 1 .. n
        /\ n \in DOMAIN stack /\ n <= MaxDepth
        /\ \A k \in DOMAIN stack : stack[k] \in FrameType /\ stack[k].clone \in StateType
        /\ Top = stack[n] /\ lazy_files \in Seq(Lazy)
        /\ Frames /\ Waiting /\ Saved /\ Growing /\ results = <<>>
        /\ state \in StateType /\ Good(lazy_files, state, files, odd)
    BY RunningFacts
  <1>2. fr \in FrameType /\ stack' = [stack EXCEPT ![n] = fr]
    BY DEF Moves
  <1>3. /\ stack' \in Seq(FrameType) /\ Len(stack') = n /\ DOMAIN stack' = DOMAIN stack
        /\ stack'[n] = fr
        /\ \A k \in DOMAIN stack : k # n => stack'[k] = stack[k]
    BY <1>1, <1>2
  <1> HIDE DEF n
  <1>4. /\ fr.clone = stack[n].clone \/ fr.clone = state \/ fr.clone = state'
        /\ Grown(state, state') /\ FrameOK(lazy_files, fr, state', odd')
        /\ fr.place = "match" => FrameOK(lazy_files, fr, fr.clone, odd')
    BY <1>1 DEF Moves
  <1>5. /\ Extends(files, files') /\ odd \subseteq odd' /\ lazy_files' = lazy_files
        /\ outcome' = "running" /\ state' \in StateType
        /\ Good(lazy_files, state', files', odd')
    BY DEF GoesOn
  <1>6. Shapes'
    <2>1. lazy_files' \in Found /\ lazy_files' \in Seq(Lazy) /\ lazy_files' # <<>>
      BY RunningFacts DEF GoesOn
    <2>2. stack' # <<>>
      BY <1>1, <1>3
    <2> QED
      BY <1>1, <1>3, <2>1, <2>2 DEF Shapes, GoesOn
  <1>7. Frames'
    <2>1. FrameOK(lazy_files', Top', state', odd')
      BY <1>3, <1>4, <1>5 DEF Top
    <2>2. ASSUME NEW k \in DOMAIN stack, stack'[k].place = "match"
          PROVE  FrameOK(lazy_files, stack'[k], stack'[k].clone, odd')
      <3>1. CASE k = n
        BY <1>3, <1>4, <2>2, <3>1
      <3>2. CASE k # n
        <4>1. stack'[k] = stack[k]
          BY <1>3, <3>2
        <4>2. FrameOK(lazy_files, stack[k], stack[k].clone, odd)
          BY <1>1, <2>2, <4>1 DEF Frames
        <4> QED
          BY <1>5, <4>1, <4>2, FrameKept
      <3> QED
        BY <3>1, <3>2
    <2> QED
      BY <1>3, <1>5, <2>1, <2>2 DEF Frames
  <1>8. Waiting'
    BY <1>1, <1>3 DEF Waiting
  <1>9. \A k \in DOMAIN stack : Good(lazy_files, stack[k].clone, files', odd')
    <2> SUFFICES ASSUME NEW k \in DOMAIN stack
                 PROVE  Good(lazy_files, stack[k].clone, files', odd')
      OBVIOUS
    <2>1. Good(lazy_files, stack[k].clone, files, odd) /\ stack[k].clone \in StateType
      BY <1>1 DEF Saved
    <2> QED
      BY <1>1, <1>5, <2>1, GoodKept
  <1>10. Good(lazy_files, fr.clone, files', odd')
    <2>1. Good(lazy_files, state, files', odd')
      BY <1>1, <1>5, GoodKept
    <2> QED
      BY <1>1, <1>4, <1>5, <1>9, <2>1
  <1>11. Saved'
    <2> SUFFICES ASSUME NEW k \in DOMAIN stack
                 PROVE  Good(lazy_files, stack'[k].clone, files', odd')
      BY <1>3, <1>5 DEF Saved
    <2>1. CASE k = n
      BY <1>3, <1>10, <2>1
    <2>2. CASE k # n
      BY <1>3, <1>9, <2>2
    <2> QED
      BY <2>1, <2>2
  <1>12. \A k \in DOMAIN stack : Grown(stack[k].clone, state) /\ Grown(stack[k].clone, state')
    <2> SUFFICES ASSUME NEW k \in DOMAIN stack
                 PROVE  Grown(stack[k].clone, state) /\ Grown(stack[k].clone, state')
      OBVIOUS
    <2>1. Grown(stack[k].clone, state) /\ stack[k].clone \in StateType
      BY <1>1 DEF Growing
    <2> QED
      BY <1>1, <1>4, <1>5, <2>1, GrownSteps
  <1>13. fr.clone \in StateType /\ Grown(fr.clone, fr.clone) /\ Grown(fr.clone, state')
    <2>1. fr.clone \in StateType
      BY <1>2 DEF FrameType
    <2>2. Grown(fr.clone, fr.clone) /\ Grown(state', state')
      BY <1>5, <2>1, GrownSteps
    <2> QED
      BY <1>1, <1>4, <1>12, <2>1, <2>2
  <1>14. \A k \in DOMAIN stack : Grown(stack[k].clone, fr.clone)
    <2> SUFFICES ASSUME NEW k \in DOMAIN stack
                 PROVE  Grown(stack[k].clone, fr.clone)
      OBVIOUS
    <2>1. k <= n
      BY <1>1
    <2>2. Grown(stack[k].clone, stack[n].clone)
      BY <1>1, <2>1 DEF Growing
    <2> QED
      BY <1>4, <1>12, <2>2
  <1>15. Growing'
    <2> SUFFICES ASSUME NEW k \in DOMAIN stack
                 PROVE  /\ Grown(stack'[k].clone, state')
                        /\ \A m \in DOMAIN stack : m >= k => Grown(stack'[k].clone, stack'[m].clone)
      BY <1>3 DEF Growing
    <2>1. CASE k = n
      <3>1. \A m \in DOMAIN stack : m >= k => m = n
        BY <1>1, <2>1
      <3> QED
        BY <1>3, <1>13, <2>1, <3>1
    <2>2. CASE k # n
      <3>1. stack'[k] = stack[k]
        BY <1>3, <2>2
      <3>2. ASSUME NEW m \in DOMAIN stack, m >= k
            PROVE  Grown(stack[k].clone, stack'[m].clone)
        <4>1. CASE m = n
          BY <1>3, <1>14, <4>1
        <4>2. CASE m # n
          BY <1>1, <1>3, <3>2, <4>2 DEF Growing
        <4> QED
          BY <4>1, <4>2
      <3> QED
        BY <1>12, <3>1, <3>2
    <2> QED
      BY <2>1, <2>2
  <1>16. Begins'
    <2>1. Len(stack) = 1 /\ fr.place = "enter" => Clean(state')
      BY DEF Moves
    <2> QED
      BY <1>1, <1>3, <2>1 DEF Begins, n
  <1>17. Alive'
    BY <1>5, <1>7, <1>8, <1>11, <1>15, <1>16 DEF Alive
  <1>18. Collected'
    BY <1>5 DEF Collected
  <1> QED
    BY <1>6, <1>17, <1>18 DEF IInv

\* The state of a Sequential that begins with some files and an innermost frame.
LEMMA FrameTyped ==
    ASSUME NEW binding \in Seq(Nat), NEW place \in Places,
           NEW clone \in StateType
    PROVE  /\ Frame(binding, place, clone) \in FrameType
           /\ Frame(binding, place, clone).clone = clone
           /\ Frame(binding, place, clone).place = place
  <1>1. <<>> \in Seq(Pointers) /\ 0 \in Nat /\ 1 \in Nat \ {0} /\ "none" \in Marks
    BY DEF Marks
  <1> QED
    BY <1>1 DEF Frame, FrameType

\* A Sequential that begins is sound if its files are different ones, and the effects
\* there are are sound.
LEMMA FrameBegins ==
    ASSUME NEW found, NEW s, NEW d, NEW binding, NEW place, NEW clone,
           \A i \in DOMAIN binding : binding[i] \in DOMAIN found,
           \A i, j \in DOMAIN binding : binding[i] = binding[j] => i = j,
           d = {} => \A e \in s.effects :
              /\ e.kind # "suppressed"
              /\ \E f \in DOMAIN found : \E i \in DOMAIN s.owners[f] :
                    e.owner = s.owners[f][i] /\ i = Len(s.owners[f]),
           place = "stepped" => Clean(s)
    PROVE  FrameOK(found, Frame(binding, place, clone), s, d)
  <1> DEFINE fr == Frame(binding, place, clone)
  <1>1. /\ fr.binding = binding /\ fr.pointers = <<>> /\ fr.next = 1
        /\ fr.place = place
    BY DEF Frame
  <1>2. DOMAIN fr.pointers = {} /\ Len(fr.pointers) = 0
    BY <1>1
  <1> HIDE DEF fr
  <1>3. Distinct(found, fr)
    BY <1>1, <1>2 DEF Distinct
  <1>4. InRange(fr, s) /\ Counted(fr) /\ Latest(fr, s, d)
    BY <1>1, <1>2 DEF InRange, Counted, Latest
  <1>5. Fresh(found, fr, s, d)
    BY DEF Fresh
  <1>6. FrameOK(found, fr, s, d)
    BY <1>1, <1>3, <1>4, <1>5 DEF FrameOK
  <1> QED
    BY <1>6 DEF fr

\* The state without anything is one.
LEMMA NoStateTyped == NoState \in StateType
  <1>1. <<>> \in Seq(Seq(Nat)) /\ {} \in SUBSET [owner: Nat, kind: Kinds] /\ 0 \in Nat
    OBVIOUS
  <1> QED
    BY <1>1 DEF NoState, StateType

\* The files of a step, as Nest takes them.
Held(fr) == [i \in DOMAIN fr.pointers |-> fr.pointers[i].file]

\* The files that a Sequential within the step may be about are different ones.
LEMMA HeldFiles ==
    ASSUME NEW found \in Seq(Lazy), NEW fr \in FrameType, Distinct(found, fr),
           NEW binding \in {Held(fr)} \union {<<f>> : f \in Range(Held(fr))}
    PROVE  /\ binding \in Seq(Nat)
           /\ \A i \in DOMAIN binding : binding[i] \in DOMAIN found
           /\ \A i, j \in DOMAIN binding : binding[i] = binding[j] => i = j
  <1> DEFINE held == Held(fr)
  <1>1. fr.pointers \in Seq(Pointers)
    BY DEF FrameType
  <1>2. /\ DOMAIN held = 1 .. Len(fr.pointers) /\ DOMAIN held = DOMAIN fr.pointers
        /\ \A i \in DOMAIN held : held[i] = fr.pointers[i].file
        /\ held = [i \in DOMAIN held |-> held[i]]
    BY <1>1 DEF Held
  <1>3. binding = held \/ binding \in {<<f>> : f \in Range(held)}
    OBVIOUS
  <1> HIDE DEF held
  <1>4. \A i \in DOMAIN held : held[i] \in DOMAIN found /\ held[i] \in Nat
    <2>1. \A i \in DOMAIN held : held[i] \in DOMAIN found
      BY <1>2 DEF Distinct
    <2>2. \A f \in DOMAIN found : f \in Nat
      OBVIOUS
    <2> QED
      BY <2>1, <2>2
  <1>5. held \in Seq(Nat)
    <2> DEFINE n == Len(fr.pointers)
    <2>1. n \in Nat
      BY <1>1
    <2>2. held = [i \in 1 .. n |-> held[i]]
      BY <1>2
    <2>3. \A i \in 1 .. n : held[i] \in Nat
      BY <1>2, <1>4
    <2> HIDE DEF n
    <2>4. held \in [1 .. n -> Nat]
      BY <2>2, <2>3
    <2> QED
      BY <2>1, <2>4
  <1>6. \A i, j \in DOMAIN held : held[i] = held[j] => i = j
    BY <1>2 DEF Distinct
  <1>7. CASE binding = held
    BY <1>4, <1>5, <1>6, <1>7
  <1>8. CASE binding \in {<<f>> : f \in Range(held)}
    <2>1. PICK f \in Range(held) : binding = <<f>>
      BY <1>8
    <2>2. f \in DOMAIN found /\ f \in Nat
      BY <1>4 DEF Range
    <2>3. <<f>> \in Seq(Nat) /\ DOMAIN <<f>> = {1} /\ <<f>>[1] = f
      BY <2>2
    <2> QED
      BY <2>1, <2>2, <2>3
  <1> QED
    BY <1>3, <1>7, <1>8

\* The invariant is kept when a Sequential begins within another.
LEMMA NestMoves ==
    ASSUME IInv, Nest
    PROVE  IInv'
  <1> DEFINE held == Held(Top)
             l == Len(stack)
             n == l + 1
  <1>1. At("match") /\ l < MaxDepth /\ outcome = "running" /\ Top.place = "match"
    BY DEF Nest, At
  <1>2. /\ stack \in Seq(FrameType) /\ l \in Nat \ {0} /\ DOMAIN stack = 1 .. l
        /\ l \in DOMAIN stack
        /\ \A k \in DOMAIN stack : stack[k] \in FrameType /\ stack[k].clone \in StateType
        /\ Top = stack[l] /\ lazy_files \in Seq(Lazy) /\ Top \in FrameType
        /\ state \in StateType /\ Good(lazy_files, state, files, odd)
        /\ FrameOK(lazy_files, Top, state, odd)
        /\ Frames /\ Waiting /\ Saved /\ Growing /\ results = <<>>
    BY <1>1, RunningFacts
  <1>3. PICK binding \in {held} \union {<<f>> : f \in Range(held)} :
           stack' = Append(stack, Frame(binding, "enter", state))
    BY DEF Nest, Held
  <1>4. /\ binding \in Seq(Nat)
        /\ \A i \in DOMAIN binding : binding[i] \in DOMAIN lazy_files
        /\ \A i, j \in DOMAIN binding : binding[i] = binding[j] => i = j
    <2>1. Distinct(lazy_files, Top)
      BY <1>2 DEF FrameOK
    <2> QED
      BY <1>2, <1>3, <2>1, HeldFiles
  <1> HIDE DEF held
  <1>5. /\ lazy_files' = lazy_files /\ files' = files /\ matches' = matches /\ state' = state
        /\ step' = step /\ outcome' = outcome /\ results' = results /\ odd' = odd
    BY DEF Nest
  <1> DEFINE fr == Frame(binding, "enter", state)
  <1>6. fr \in FrameType /\ fr.clone = state /\ fr.place = "enter"
    <2>1. "enter" \in Places
      BY DEF Places
    <2> QED
      BY <1>2, <1>4, <2>1, FrameTyped
  <1>7. FrameOK(lazy_files, fr, state, odd)
    <2>1. Top.next = 1
      BY <1>1, <1>2 DEF FrameOK, Counted
    <2>2. ASSUME odd = {}, NEW e \in state.effects
          PROVE  /\ e.kind # "suppressed"
                 /\ \E g \in DOMAIN lazy_files : \E j \in DOMAIN state.owners[g] :
                       e.owner = state.owners[g][j] /\ j = Len(state.owners[g])
      <3>1. \A k \in DOMAIN Top.pointers : ~(k < Top.next)
        <4>1. Top.pointers \in Seq(Pointers)
          BY <1>2 DEF FrameType
        <4> QED
          BY <2>1, <4>1
      <3> QED
        BY <1>2, <2>2, <3>1 DEF FrameOK, Fresh
    <2> HIDE DEF fr
    <2> QED
      BY <1>4, <2>2, FrameBegins DEF fr
  <1>8. stack' = Append(stack, fr)
    BY <1>3
  <1> HIDE DEF fr
  <1>9. /\ n \in Nat /\ n > 1 /\ n <= MaxDepth
        /\ \A k \in 1 .. n : k = n \/ (k \in DOMAIN stack /\ k <= l)
    <2>1. l \in Nat \ {0} /\ MaxDepth \in Nat /\ l < MaxDepth
      BY <1>1, <1>2, BoundsAssumption
    <2> HIDE DEF l
    <2>2. n \in Nat /\ n > 1 /\ n <= MaxDepth
      BY <2>1
    <2>3. \A k \in 1 .. n : k = n \/ (k \in 1 .. l /\ k <= l)
      BY <2>1
    <2> QED
      BY <1>2, <2>2, <2>3
  <1>10. /\ stack' \in Seq(FrameType) /\ Len(stack') = n /\ DOMAIN stack' = 1 .. n
         /\ stack'[n] = fr
         /\ \A k \in DOMAIN stack : stack'[k] = stack[k]
    BY <1>2, <1>6, <1>8
  <1> HIDE DEF l, n
  <1>11. Shapes'
    <2>1. Shapes
      BY DEF IInv
    <2>2. stack' # <<>>
      BY <1>9, <1>10
    <2> QED
      BY <1>1, <1>5, <1>9, <1>10, <2>1, <2>2 DEF Shapes
  <1>12. Collected'
    BY <1>1, <1>5 DEF Collected
  <1>13. Frames'
    <2>1. Top' = fr
      BY <1>10 DEF Top
    <2>2. ASSUME NEW k \in 1 .. n, stack'[k].place = "match"
          PROVE  FrameOK(lazy_files, stack'[k], stack'[k].clone, odd)
      <3>1. k # n
        BY <1>6, <1>10, <2>2
      <3>2. k \in DOMAIN stack
        BY <1>9, <3>1
      <3> QED
        BY <1>2, <1>10, <2>2, <3>2 DEF Frames
    <2> QED
      BY <1>5, <1>7, <1>10, <2>1, <2>2 DEF Frames
  <1>14. Waiting'
    <2> SUFFICES ASSUME NEW k \in 1 .. n, k < n PROVE stack'[k].place = "match"
      BY <1>10 DEF Waiting
    <2>1. k # n
      BY <1>9
    <2>2. k \in DOMAIN stack /\ k <= l
      BY <1>9, <2>1
    <2>3. CASE k = l
      BY <1>1, <1>2, <1>10, <2>2, <2>3
    <2>4. CASE k < l
      BY <1>2, <1>10, <2>2, <2>4 DEF Waiting, l
    <2> QED
      BY <1>2, <2>2, <2>3, <2>4
  <1>15. Saved'
    <2> SUFFICES ASSUME NEW k \in 1 .. n
                 PROVE  Good(lazy_files, stack'[k].clone, files, odd)
      BY <1>5, <1>10 DEF Saved
    <2>1. CASE k = n
      BY <1>2, <1>6, <1>10, <2>1
    <2>2. CASE k \in DOMAIN stack
      BY <1>2, <1>10, <2>2 DEF Saved
    <2> QED
      BY <1>9, <2>1, <2>2
  <1>16. Growing'
    <2>1. Grown(state, state)
      BY <1>2, GrownSteps
    <2> SUFFICES ASSUME NEW k \in 1 .. n
                 PROVE  /\ Grown(stack'[k].clone, state)
                        /\ \A m \in 1 .. n : m >= k => Grown(stack'[k].clone, stack'[m].clone)
      BY <1>5, <1>10 DEF Growing
    <2>2. CASE k = n
      <3>1. \A m \in 1 .. n : m >= k => m = n
        BY <1>9, <2>2
      <3> QED
        BY <1>6, <1>10, <2>1, <2>2, <3>1
    <2>3. CASE k \in DOMAIN stack
      <3>1. stack'[k] = stack[k] /\ Grown(stack[k].clone, state)
        BY <1>2, <1>10, <2>3 DEF Growing
      <3>2. \A m \in DOMAIN stack : m >= k => Grown(stack[k].clone, stack'[m].clone)
        BY <1>2, <1>10, <2>3 DEF Growing
      <3> QED
        BY <1>6, <1>9, <1>10, <3>1, <3>2
    <2> QED
      BY <1>9, <2>2, <2>3
  <1>17. Begins'
    <2>1. Len(stack') # 1
      BY <1>9, <1>10
    <2> QED
      BY <2>1 DEF Begins
  <1>18. Alive'
    BY <1>2, <1>5, <1>13, <1>14, <1>15, <1>16, <1>17 DEF Alive
  <1> QED
    BY <1>11, <1>12, <1>18 DEF IInv

\* All but the last element.
LEMMA FrontFacts ==
    ASSUME NEW S, NEW s \in Seq(S), Len(s) > 0
    PROVE  /\ Front(s) \in Seq(S) /\ Len(Front(s)) = Len(s) - 1
           /\ DOMAIN Front(s) = 1 .. Len(s) - 1
           /\ \A i \in 1 .. Len(s) - 1 : Front(s)[i] = s[i]
  <1> DEFINE n == Len(s) - 1
  <1>1. n \in Nat /\ n <= Len(s) /\ 1 \in 1 .. Len(s) + 1
    OBVIOUS
  <1>2. Front(s) = [i \in 1 .. n |-> s[i]]
    BY <1>1 DEF Front
  <1>3. \A i \in 1 .. n : s[i] \in S
    BY <1>1
  <1> HIDE DEF n
  <1>4. Front(s) \in Seq(S) /\ Len(Front(s)) = n
    BY <1>1, <1>2, <1>3
  <1> QED
    BY <1>2, <1>4 DEF n

\* The invariant is kept when a pattern goes back to its clone, and what is within it
\* is given up.
LEMMA BackMoves ==
    ASSUME IInv, outcome = "running", NEW n \in DOMAIN stack, stack[n].place = "match",
           stack' \in Seq(FrameType), Len(stack') = n,
           \A k \in 1 .. n : stack'[k] = stack[k],
           state' = stack[n].clone,
           UNCHANGED <<lazy_files, files, matches, step, outcome, results, odd>>
    PROVE  IInv'
  <1>1. /\ Len(stack) \in Nat \ {0} /\ DOMAIN stack = 1 .. Len(stack)
        /\ Len(stack) <= MaxDepth
        /\ \A k \in DOMAIN stack : stack[k] \in FrameType /\ stack[k].clone \in StateType
        /\ Frames /\ Waiting /\ Saved /\ Growing /\ results = <<>>
    BY RunningFacts
  <1>2. /\ lazy_files' = lazy_files /\ files' = files /\ matches' = matches
        /\ step' = step /\ outcome' = outcome /\ results' = results /\ odd' = odd
    OBVIOUS
  <1>3. /\ n \in Nat \ {0} /\ n <= Len(stack) /\ DOMAIN stack' = 1 .. n
        /\ \A k \in 1 .. n : k \in DOMAIN stack /\ stack'[k] = stack[k]
    BY <1>1
  <1>4. state' \in StateType /\ Good(lazy_files, state', files, odd)
    BY <1>1 DEF Saved
  <1>5. Shapes'
    <2>1. Shapes
      BY DEF IInv
    <2>2. stack' # <<>>
      BY <1>3
    <2>3. Len(stack') <= MaxDepth
      BY <1>1, <1>3, BoundsAssumption
    <2> QED
      BY <1>2, <1>4, <2>1, <2>2, <2>3 DEF Shapes
  <1>6. Collected'
    BY <1>2 DEF Collected
  <1>7. Frames'
    <2>1. Top' = stack[n]
      <3>1. n \in 1 .. n
        BY <1>3
      <3> QED
        BY <3>1 DEF Top
    <2>2. FrameOK(lazy_files, stack[n], state', odd)
      BY <1>1 DEF Frames
    <2>3. \A k \in 1 .. n : stack'[k].place = "match" =>
             FrameOK(lazy_files, stack'[k], stack'[k].clone, odd)
      BY <1>1, <1>3 DEF Frames
    <2> QED
      BY <1>2, <1>3, <2>1, <2>2, <2>3 DEF Frames
  <1>8. Waiting'
    <2> SUFFICES ASSUME NEW k \in 1 .. n, k < n PROVE stack'[k].place = "match"
      BY <1>3 DEF Waiting
    <2>1. k < Len(stack)
      BY <1>1, <1>3
    <2> QED
      BY <1>1, <1>3, <2>1 DEF Waiting
  <1>9. Saved'
    BY <1>1, <1>2, <1>3 DEF Saved
  <1>10. Growing'
    <2> SUFFICES ASSUME NEW k \in 1 .. n
                 PROVE  /\ Grown(stack'[k].clone, state')
                        /\ \A m \in 1 .. n : m >= k => Grown(stack'[k].clone, stack'[m].clone)
      BY <1>3 DEF Growing
    <2>1. n >= k
      BY <1>3
    <2> QED
      BY <1>1, <1>3, <2>1 DEF Growing
  <1>11. Begins'
    <2>1. 1 \in 1 .. n
      BY <1>3
    <2>2. n = 1 => stack'[1].place = "match"
      BY <1>3, <2>1
    <2> QED
      BY <2>2 DEF Begins
  <1>12. Alive'
    BY <1>2, <1>4, <1>7, <1>8, <1>9, <1>10, <1>11 DEF Alive
  <1> QED
    BY <1>5, <1>6, <1>12 DEF IInv

\* So it is when the innermost Sequential does not match ..
LEMMA UndoMoves ==
    ASSUME IInv, Undo
    PROVE  IInv'
  <1> DEFINE n == Len(stack) - 1
  <1>1. Len(stack) > 1 /\ outcome = "running"
    BY DEF Undo, At
  <1>2. /\ stack \in Seq(FrameType) /\ Len(stack) \in Nat \ {0} /\ DOMAIN stack = 1 .. Len(stack)
        /\ Waiting
    BY <1>1, RunningFacts
  <1>3. /\ state' = stack[n].clone /\ stack' = Front(stack)
        /\ UNCHANGED <<lazy_files, files, matches, step, outcome, results, odd>>
    BY DEF Undo
  <1>4. n < Len(stack) /\ n \in DOMAIN stack
    BY <1>1, <1>2
  <1>5. stack' \in Seq(FrameType) /\ Len(stack') = n /\ \A k \in 1 .. n : stack'[k] = stack[k]
    <2>1. Len(stack) > 0
      BY <1>1, <1>2
    <2> QED
      BY <1>2, <1>3, <2>1, FrontFacts
  <1> HIDE DEF n
  <1>6. stack[n].place = "match"
    BY <1>2, <1>4 DEF Waiting
  <1> QED
    BY <1>1, <1>3, <1>4, <1>5, <1>6, BackMoves

\* .. and when what is within a `maybe` of its pattern does not.
LEMMA GoBackMoves ==
    ASSUME IInv, GoBack
    PROVE  IInv'
  <1>1. outcome = "running" /\ Top.place = "match"
    BY DEF GoBack, At
  <1>2. stack \in Seq(FrameType) /\ Len(stack) \in DOMAIN stack /\ Top = stack[Len(stack)]
    BY <1>1, RunningFacts
  <1>3. /\ state' = Top.clone /\ stack' = stack
        /\ UNCHANGED <<lazy_files, files, matches, step, outcome, results, odd>>
    BY DEF GoBack
  <1> DEFINE n == Len(stack)
  <1>4. /\ n \in DOMAIN stack /\ stack[n].place = "match" /\ state' = stack[n].clone
        /\ stack' \in Seq(FrameType) /\ Len(stack') = n
        /\ \A k \in 1 .. n : stack'[k] = stack[k]
    BY <1>1, <1>2, <1>3
  <1> HIDE DEF n
  <1> QED
    BY <1>1, <1>3, <1>4, BackMoves

\* The invariant is kept when a Sequential within another matches.
LEMMA ReturnMoves ==
    ASSUME IInv, Return
    PROVE  IInv'
  <1> DEFINE n == Len(stack) - 1
             fr == stack[n]
             t == fr.clone
  <1>1. At("stepped") /\ Len(stack) > 1 /\ outcome = "running" /\ Top.place = "stepped"
    BY DEF Return, At
  <1>2. /\ stack \in Seq(FrameType) /\ Len(stack) \in Nat \ {0} /\ DOMAIN stack = 1 .. Len(stack)
        /\ Len(stack) <= MaxDepth
        /\ \A k \in DOMAIN stack : stack[k] \in FrameType /\ stack[k].clone \in StateType
        /\ lazy_files \in Seq(Lazy) /\ state \in StateType
        /\ Good(lazy_files, state, files, odd) /\ FrameOK(lazy_files, Top, state, odd)
        /\ Frames /\ Waiting /\ Saved /\ Growing /\ results = <<>>
    BY <1>1, RunningFacts
  <1>3. /\ state' = state /\ stack' = Front(stack)
        /\ lazy_files' = lazy_files /\ files' = files /\ matches' = matches
        /\ step' = step /\ outcome' = outcome /\ results' = results /\ odd' = odd
    BY DEF Return
  <1>4. n \in Nat \ {0} /\ n < Len(stack) /\ n \in DOMAIN stack
    BY <1>1, <1>2
  <1>5. /\ stack' \in Seq(FrameType) /\ Len(stack') = n /\ DOMAIN stack' = 1 .. n
        /\ \A k \in 1 .. n : k \in DOMAIN stack /\ stack'[k] = stack[k]
    <2>1. Len(stack) > 0 /\ stack \in Seq(FrameType)
      BY <1>1, <1>2
    <2>2. /\ Front(stack) \in Seq(FrameType) /\ Len(Front(stack)) = n
          /\ DOMAIN Front(stack) = 1 .. n
          /\ \A k \in 1 .. n : Front(stack)[k] = stack[k]
      BY <2>1, FrontFacts
    <2>3. \A k \in 1 .. n : k \in DOMAIN stack
      BY <1>2, <1>4
    <2> QED
      BY <1>3, <2>2, <2>3
  <1> HIDE DEF n
  <1>6. Clean(state)
    BY <1>1, <1>2 DEF FrameOK
  <1>7. fr \in FrameType /\ t \in StateType /\ fr.place = "match"
    BY <1>2, <1>4 DEF Waiting
  <1>8. /\ FrameOK(lazy_files, fr, t, odd) /\ Grown(t, state)
        /\ Good(lazy_files, t, files, odd)
    BY <1>2, <1>4, <1>7 DEF Frames, Growing, Saved
  <1> HIDE DEF fr, t
  <1>9. FrameOK(lazy_files, fr, state, odd)
    <2>1. Distinct(lazy_files, fr) /\ Counted(fr)
      BY <1>8 DEF FrameOK
    <2>2. InRange(fr, state)
      <3> SUFFICES ASSUME NEW i \in DOMAIN fr.pointers, fr.pointers[i].version # 0
                   PROVE  fr.pointers[i].version < Len(state.owners[fr.pointers[i].file])
        BY DEF InRange
      <3> DEFINE f == fr.pointers[i].file
      <3>1. fr.pointers[i].version < Len(t.owners[f])
        BY <1>8 DEF FrameOK, InRange
      <3>2. f \in DOMAIN lazy_files
        BY <2>1 DEF Distinct
      <3> HIDE DEF f
      <3>4. f \in DOMAIN t.owners /\ t.owners[f] \in Seq(Nat)
        BY <1>2, <1>7, <1>8, <3>2, FoundOwned DEF Good, Registry
      <3>5. f \in DOMAIN state.owners /\ state.owners[f] \in Seq(Nat)
        BY <1>2, <3>2, FoundOwned DEF Good, Registry
      <3>6. Len(t.owners[f]) <= Len(state.owners[f])
        BY <1>8, <3>4 DEF Grown
      <3>7. fr.pointers[i].version \in Nat
        <4>1. fr.pointers \in Seq(Pointers)
          BY <1>7 DEF FrameType
        <4>2. fr.pointers[i] \in Pointers
          BY <4>1
        <4> QED
          BY <4>2 DEF Pointers
      <3>8. Len(t.owners[f]) \in Nat /\ Len(state.owners[f]) \in Nat
        BY <3>4, <3>5
      <3>9. fr.pointers[i].version < Len(state.owners[f])
        BY <3>1, <3>6, <3>7, <3>8
      <3> QED
        BY <3>9 DEF f
    <2>3. Latest(fr, state, odd) /\ Fresh(lazy_files, fr, state, odd)
      BY <1>6 DEF Latest, Fresh, Clean
    <2> QED
      BY <1>6, <2>1, <2>2, <2>3 DEF FrameOK
  <1>10. Shapes'
    <2>1. Shapes
      BY DEF IInv
    <2>2. stack' # <<>>
      BY <1>4, <1>5
    <2>3. Len(stack') <= MaxDepth
      BY <1>2, <1>4, <1>5, BoundsAssumption
    <2> QED
      BY <1>1, <1>3, <1>5, <2>1, <2>2, <2>3 DEF Shapes
  <1>11. Collected'
    BY <1>1, <1>3 DEF Collected
  <1>12. Frames'
    <2>1. Top' = fr
      <3>1. n \in 1 .. n
        BY <1>4
      <3> QED
        BY <1>5, <3>1 DEF Top, fr
    <2>2. \A k \in 1 .. n : stack'[k].place = "match" =>
             FrameOK(lazy_files, stack'[k], stack'[k].clone, odd)
      BY <1>2, <1>5 DEF Frames
    <2> QED
      BY <1>3, <1>5, <1>9, <2>1, <2>2 DEF Frames
  <1>13. Waiting'
    <2> SUFFICES ASSUME NEW k \in 1 .. n, k < n PROVE stack'[k].place = "match"
      BY <1>5 DEF Waiting
    <2>1. k < Len(stack)
      BY <1>2, <1>4
    <2> QED
      BY <1>2, <1>5, <2>1 DEF Waiting
  <1>14. Saved'
    BY <1>2, <1>3, <1>5 DEF Saved
  <1>15. Growing'
    BY <1>2, <1>3, <1>5 DEF Growing
  <1>16. Begins'
    <2>1. n = 1 => stack'[1].place = "match"
      <3>1. n \in 1 .. n
        BY <1>4
      <3> QED
        BY <1>5, <1>7, <3>1 DEF fr
    <2> QED
      BY <1>5, <2>1 DEF Begins
  <1>17. Alive'
    BY <1>2, <1>3, <1>12, <1>13, <1>14, <1>15, <1>16 DEF Alive
  <1> QED
    BY <1>10, <1>11, <1>17 DEF IInv

\* The invariant is kept when execute returns without results.
LEMMA EndsMoves ==
    ASSUME IInv, outcome = "running", NEW how \in {"nothing", "error", "panicked", "no_versions"},
           Ends(how)
    PROVE  IInv'
  <1>1. Shapes
    BY DEF IInv
  <1>2. /\ outcome' = how /\ state' = NoState /\ files' = <<>> /\ matches' = <<>>
        /\ stack' = <<>> /\ lazy_files' = lazy_files /\ step' = step /\ results' = results
        /\ odd' = odd
    BY DEF Ends
  <1>3. how \notin {"running", "ok"}
    OBVIOUS
  <1>4. Shapes'
    <2>1. <<>> \in Seq(FileOwner) /\ <<>> \in Seq(Marks) /\ <<>> \in Seq(FrameType)
      OBVIOUS
    <2>2. Len(<<>>) = 0 /\ 0 <= MaxDepth
      BY BoundsAssumption
    <2>3. how \in {"running", "ok", "nothing", "error", "panicked", "no_versions"}
      OBVIOUS
    <2>4. results' = <<>>
      BY <1>1, <1>2 DEF Shapes
    <2>5. step' \in 0 .. MaxSteps /\ odd' \subseteq {"touched", "nested"}
          /\ lazy_files' \in Found /\ lazy_files' \in Seq(Lazy) /\ lazy_files' # <<>>
      BY <1>1, <1>2 DEF Shapes
    <2> QED
      BY <1>2, <1>3, <2>1, <2>2, <2>3, <2>4, <2>5, NoStateTyped DEF Shapes
  <1>5. Alive' /\ Collected'
    BY <1>2, <1>3 DEF Alive, Collected
  <1> QED
    BY <1>4, <1>5 DEF IInv

\* The invariant is kept when the outermost Sequential matches.
LEMMA CollectMoves ==
    ASSUME IInv, Collect
    PROVE  IInv'
  <1>1. At("stepped") /\ outcome = "running" /\ Len(stack) = 1 /\ Top.place = "stepped"
    BY DEF Collect, At
  <1>2. CASE \E f \in DOMAIN Owners : Owners[f] = <<>>
    <2>1. Ends("no_versions")
      BY <1>2 DEF Collect
    <2> QED
      BY <1>1, <2>1, EndsMoves
  <1>3. CASE ~\E f \in DOMAIN Owners : Owners[f] = <<>>
    <2>1. /\ outcome' = "ok"
          /\ results' = Subsequence([f \in DOMAIN Owners |-> Result(Owners[f])],
                                    {f \in DOMAIN Owners : Kind(Owners[f]) # "none"})
          /\ lazy_files' = lazy_files /\ files' = files /\ matches' = matches
          /\ state' = state /\ stack' = stack /\ step' = step /\ odd' = odd
      BY <1>3 DEF Collect
    <2>2. Shapes'
      <3>1. Shapes
        BY DEF IInv
      <3> QED
        BY <2>1, <3>1 DEF Shapes
    <2>3. Alive'
      <3>1. /\ Good(lazy_files, state, files, odd)
            /\ Frames /\ Waiting /\ Saved /\ Growing /\ Begins
        BY <1>1, RunningFacts
      <3>2. Frames'
        BY <2>1, <3>1 DEF Frames, Top
      <3>3. Waiting' /\ Saved' /\ Growing' /\ Begins'
        BY <2>1, <3>1 DEF Waiting, Saved, Growing, Begins
      <3> QED
        BY <2>1, <3>1, <3>2, <3>3 DEF Alive
    <2>4. Clean(state)
      BY <1>1, RunningFacts DEF FrameOK
    <2>5. Owners' = Owners /\ \A o : Kind(o)' = Kind(o) /\ Result(o)' = Result(o)
      BY <2>1 DEF Owners, Kind, Result
    <2>6. Collected'
      BY <1>3, <2>1, <2>4, <2>5 DEF Collected
    <2> QED
      BY <2>2, <2>3, <2>6 DEF IInv
  <1> QED
    BY <1>2, <1>3

-----------------------------------------------------------------------------
(* The invariant holds at first, and each operation keeps it.              *)

\* It holds when execute begins.
LEMMA InitInv ==
    ASSUME Init
    PROVE  IInv
  <1> DEFINE none == [f \in DOMAIN lazy_files |-> <<>>]
             all == [f \in DOMAIN lazy_files |-> f]
  <1>1. lazy_files \in Found /\ lazy_files \in Seq(Lazy) /\ lazy_files # <<>>
    BY FoundAssumption DEF Init
  <1>2. DOMAIN lazy_files = 1 .. Len(lazy_files) /\ Len(lazy_files) \in Nat
    BY <1>1
  <1>3. /\ files = <<>> /\ matches = <<>> /\ step = 0 /\ outcome = "running" /\ results = <<>>
        /\ stack = <<Frame(all, "enter", state)>>
        /\ odd \subseteq {"touched"}
        /\ "touched" \notin odd => \A f, g \in DOMAIN lazy_files :
              f # g => lazy_files[f].text # lazy_files[g].text
    BY DEF Init
  <1>4. /\ none \in Seq(Seq(Nat)) /\ Len(none) = Len(lazy_files)
        /\ all \in Seq(Nat) /\ Len(all) = Len(lazy_files)
    <2>1. <<>> \in Seq(Nat)
      OBVIOUS
    <2> QED
      BY <1>2, <2>1
  <1>5. /\ state.owners = none /\ state.effects = {} /\ state.new_files = 0 /\ state.asked = 0
        /\ state = [owners |-> none, effects |-> {}, new_files |-> 0, asked |-> 0]
    BY DEF Init, NoState
  <1>6. state \in StateType
    <2>1. none \in Seq(Seq(Nat)) /\ {} \in SUBSET [owner: Nat, kind: Kinds] /\ 0 \in Nat
      BY <1>4
    <2> HIDE DEF none
    <2> QED
      BY <1>5, <2>1 DEF StateType
  <1>7. Clean(state)
    BY <1>5 DEF Clean
  <1>8. \A f \in DOMAIN state.owners : state.owners[f] = <<>> /\ f \in DOMAIN lazy_files
    BY <1>5
  <1>9. \A f \in DOMAIN state.owners : DOMAIN state.owners[f] = {} /\ f <= Len(lazy_files)
    BY <1>2, <1>8
  <1>10. \A f \in DOMAIN lazy_files : state.owners[f] = <<>> /\ DOMAIN state.owners[f] = {}
    BY <1>5
  <1>11. Good(lazy_files, state, files, odd)
    <2>1. Len(state.owners) = Len(lazy_files) /\ Len(lazy_files) \in Nat
      BY <1>2, <1>4, <1>5
    <2> HIDE DEF none
    <2>2. Registry(lazy_files, state, files)
      <3>1. \A f \in DOMAIN state.owners : ~(f > Len(lazy_files))
        BY <1>2, <1>8
      <3> QED
        BY <1>2, <1>5, <1>9, <1>10, <2>1, <3>1 DEF Registry
    <2>3. Apart(state) /\ Survive(state, files) /\ Revised(state, files)
      BY <1>9 DEF Apart, Survive, Revised
    <2>4. Origin(lazy_files, state, files)
      BY <1>10 DEF Origin
    <2>5. ASSUME "touched" \notin odd PROVE Different(lazy_files, state, files)
      <3> SUFFICES ASSUME NEW f \in DOMAIN lazy_files, NEW g \in DOMAIN lazy_files, f # g
                   PROVE  /\ TextsOf(lazy_files, state, files, f) \intersect
                                TextsOf(lazy_files, state, files, g) = {}
                          /\ NamesOf(state, files, f) \intersect NamesOf(state, files, g) = {}
        BY DEF Different
      <3>1. Range(state.owners[f]) = {} /\ Range(state.owners[g]) = {}
        BY <1>10 DEF Range
      <3>2. lazy_files[f].text # lazy_files[g].text
        BY <1>3, <2>5
      <3>3. /\ TextsOf(lazy_files, state, files, f) = {<<"found", lazy_files[f].text>>}
            /\ TextsOf(lazy_files, state, files, g) = {<<"found", lazy_files[g].text>>}
            /\ NamesOf(state, files, f) = {<<"found", f>>}
            /\ NamesOf(state, files, g) = {<<"found", g>>}
        BY <3>1 DEF TextsOf, NamesOf
      <3>4. \A x, y : <<"found", x>> = <<"found", y>> => x = y
        OBVIOUS
      <3> QED
        BY <3>2, <3>3, <3>4
    <2> QED
      BY <2>2, <2>3, <2>4, <2>5 DEF Good
  <1> DEFINE fr == Frame(all, "enter", state)
  <1>12. fr \in FrameType /\ fr.place = "enter" /\ fr.clone = state
    <2>1. "enter" \in Places
      BY DEF Places
    <2>2. all \in Seq(Nat)
      BY <1>4
    <2> HIDE DEF all
    <2> QED
      BY <1>6, <2>1, <2>2, FrameTyped
  <1>13. FrameOK(lazy_files, fr, state, odd)
    <2>1. /\ \A i \in DOMAIN all : all[i] \in DOMAIN lazy_files
          /\ \A i, j \in DOMAIN all : all[i] = all[j] => i = j
      OBVIOUS
    <2>2. \A e \in state.effects : FALSE
      BY <1>5
    <2> HIDE DEF all
    <2> QED
      BY <1>7, <2>1, <2>2, FrameBegins
  <1> HIDE DEF fr, all, none
  <1>14. /\ stack \in Seq(FrameType) /\ Len(stack) = 1 /\ DOMAIN stack = {1} /\ stack[1] = fr
         /\ stack # <<>>
    BY <1>3, <1>12 DEF fr
  <1>15. Shapes
    <2>1. 1 <= MaxDepth
      BY BoundsAssumption
    <2>2. MaxSteps \in Nat
      BY BoundsAssumption DEF MaxSteps
    <2>3. files \in Seq(FileOwner) /\ matches \in Seq(Marks) /\ Len(matches) = Len(files)
      BY <1>3
    <2>4. 0 \in 0 .. MaxSteps
      BY <2>2
    <2> QED
      BY <1>1, <1>3, <1>6, <1>14, <2>1, <2>3, <2>4 DEF Shapes
  <1>16. Frames
    <2>1. Top = fr
      BY <1>14 DEF Top
    <2> QED
      BY <1>12, <1>13, <1>14, <2>1 DEF Frames
  <1>17. Waiting /\ Saved /\ Growing
    <2>1. Grown(state, state)
      BY <1>6, GrownSteps
    <2> QED
      BY <1>11, <1>12, <1>14, <2>1 DEF Waiting, Saved, Growing
  <1>18. Begins
    BY <1>7 DEF Begins
  <1>19. Collected
    BY <1>3 DEF Collected
  <1> QED
    BY <1>11, <1>15, <1>16, <1>17, <1>18, <1>19 DEF IInv, Alive

\* Enter takes the latest revision of each file, and loads those there are.
LEMMA EnterKeeps ==
    ASSUME IInv, Enter
    PROVE  IInv'
  <1> DEFINE binding == Top.binding
             K == {i \in DOMAIN binding :
                     is_loaded(binding[i]) \/ lazy_files[binding[i]].load = "ok"}
             held == IF Len(binding) = 1 THEN binding ELSE Subsequence(binding, K)
             pointers == [i \in DOMAIN held |-> latest_revision(held[i])]
             fr == [Top EXCEPT !.place = "match", !.number = step', !.clone = state,
                               !.pointers = pointers]
  <1>1. outcome = "running" /\ Top.place = "enter" /\ step < MaxSteps /\ step' = step + 1
    BY DEF Enter, At
  <1>2. /\ lazy_files \in Seq(Lazy) /\ files \in Seq(FileOwner) /\ matches \in Seq(Marks)
        /\ Len(matches) = Len(files) /\ state \in StateType
        /\ Good(lazy_files, state, files, odd) /\ Top \in FrameType
        /\ FrameOK(lazy_files, Top, state, odd) /\ step \in 0 .. MaxSteps
        /\ odd \subseteq {"touched", "nested"}
    BY <1>1, RunningFacts
  <1>3. /\ stack' = [stack EXCEPT ![Len(stack)] = fr]
        /\ IF Len(binding) = 1 THEN UNCHANGED <<files, matches, state>> ELSE Loads(binding)
        /\ lazy_files' = lazy_files /\ outcome' = outcome /\ results' = results /\ odd' = odd
    BY DEF Enter, Top
  <1>4. /\ binding \in Seq(Nat)
        /\ \A i \in DOMAIN binding : binding[i] \in DOMAIN lazy_files
        /\ \A i, j \in DOMAIN binding : binding[i] = binding[j] => i = j
    BY <1>2 DEF FrameOK, Distinct, FrameType
  <1> HIDE DEF binding
  <1>5. /\ held \in Seq(Nat)
        /\ \A i \in DOMAIN held : held[i] \in DOMAIN lazy_files
        /\ \A i, j \in DOMAIN held : held[i] = held[j] => i = j
    <2>1. CASE Len(binding) = 1
      BY <1>4, <2>1
    <2>2. CASE Len(binding) # 1
      <3>1. K \in SUBSET DOMAIN binding
        OBVIOUS
      <3>2. held = Subsequence(binding, K)
        BY <2>2
      <3> HIDE DEF K, held
      <3>3. /\ Subsequence(binding, K) \in Seq(Nat)
            /\ \A i \in DOMAIN Subsequence(binding, K) :
                  \E k \in K : Subsequence(binding, K)[i] = binding[k]
            /\ (\A i, j \in DOMAIN binding : binding[i] = binding[j] => i = j) =>
                  \A i, j \in DOMAIN Subsequence(binding, K) :
                     Subsequence(binding, K)[i] = Subsequence(binding, K)[j] => i = j
        BY <1>4, <3>1, SubsequenceShape
      <3> QED
        BY <1>4, <3>1, <3>2, <3>3
    <2> QED
      BY <2>1, <2>2
  <1> HIDE DEF K, held
  <1>6. \A f \in DOMAIN lazy_files : f \in DOMAIN state.owners /\ state.owners[f] \in Seq(Nat)
    BY <1>2, FoundOwned DEF Good, Registry
  <1>7. \A f \in DOMAIN lazy_files :
            /\ latest_revision(f).file = f /\ f \in Nat \ {0}
            /\ latest_revision(f).version \in Nat
            /\ latest_revision(f).version = IF state.owners[f] # <<>>
                                           THEN Len(state.owners[f]) - 1 ELSE 0
            /\ latest_revision(f) \in Pointers
    <2> SUFFICES ASSUME NEW f \in DOMAIN lazy_files
                 PROVE  /\ latest_revision(f).file = f /\ f \in Nat \ {0}
                        /\ latest_revision(f).version \in Nat
                        /\ latest_revision(f).version = IF state.owners[f] # <<>>
                                                       THEN Len(state.owners[f]) - 1 ELSE 0
                        /\ latest_revision(f) \in Pointers
      OBVIOUS
    <2>1. f \in Nat \ {0}
      BY <1>2
    <2>2. state.owners[f] # <<>> => Len(state.owners[f]) - 1 \in Nat
      BY <1>6
    <2>3. latest_revision(f) = [file |-> f, version |-> IF state.owners[f] # <<>>
                                           THEN Len(state.owners[f]) - 1 ELSE 0]
      BY DEF latest_revision, is_loaded, Owners
    <2> QED
      BY <2>1, <2>2, <2>3 DEF Pointers
  <1>8. /\ pointers \in Seq(Pointers) /\ DOMAIN pointers = DOMAIN held
        /\ \A i \in DOMAIN pointers :
              /\ pointers[i].file = held[i] /\ held[i] \in DOMAIN lazy_files
              /\ pointers[i].version = IF state.owners[held[i]] # <<>>
                                       THEN Len(state.owners[held[i]]) - 1 ELSE 0
    BY <1>5, <1>7
  <1> HIDE DEF pointers
  <1>9. /\ fr \in FrameType /\ fr.clone = state /\ fr.place = "match"
        /\ fr.binding = Top.binding /\ fr.pointers = pointers /\ fr.next = Top.next
    <2>1. step' \in Nat
      BY <1>1, <1>2
    <2>2. "match" \in Places
      BY DEF Places
    <2> QED
      BY <1>2, <1>8, <2>1, <2>2 DEF FrameType
  <1> HIDE DEF fr
  <1>10. Top.next = 1
    BY <1>1, <1>2 DEF FrameOK, Counted
  <1>11. FrameOK(lazy_files, fr, state, odd)
    <2>1. Distinct(lazy_files, fr)
      <3>1. \A i, j \in DOMAIN pointers : pointers[i].file = pointers[j].file => i = j
        BY <1>5, <1>8
      <3> QED
        BY <1>2, <1>8, <1>9, <3>1 DEF FrameOK, Distinct
    <2>2. InRange(fr, state)
      <3> SUFFICES ASSUME NEW i \in DOMAIN pointers, pointers[i].version # 0
                   PROVE  pointers[i].version < Len(state.owners[pointers[i].file])
        BY <1>9 DEF InRange
      <3>1. pointers[i].version = Len(state.owners[held[i]]) - 1 /\ pointers[i].file = held[i]
        BY <1>8
      <3>2. Len(state.owners[held[i]]) \in Nat
        BY <1>6, <1>8
      <3> QED
        BY <3>1, <3>2
    <2>3. Counted(fr)
      <3>1. Len(pointers) \in Nat
        BY <1>8
      <3> QED
        BY <1>9, <1>10, <3>1 DEF Counted
    <2>4. Latest(fr, state, odd)
      BY <1>8, <1>9 DEF Latest
    <2>5. Fresh(lazy_files, fr, state, odd)
      <3>1. \A k \in DOMAIN Top.pointers : ~(k < Top.next)
        <4>1. Top.pointers \in Seq(Pointers)
          BY <1>2 DEF FrameType
        <4> QED
          BY <1>10, <4>1
      <3> QED
        BY <1>2, <3>1 DEF FrameOK, Fresh
    <2> QED
      BY <1>9, <2>1, <2>2, <2>3, <2>4, <2>5 DEF FrameOK
  <1>12. step' \in 0 .. MaxSteps
    <2>1. MaxSteps \in Nat
      BY BoundsAssumption DEF MaxSteps
    <2> QED
      BY <1>1, <1>2, <2>1
  <1>13. CASE Len(binding) = 1
    <2>1. files' = files /\ matches' = matches /\ state' = state
      BY <1>3, <1>13
    <2>2. Extends(files, files)
      BY DEF Extends
    <2>3. GoesOn
      BY <1>1, <1>2, <1>3, <1>12, <2>1, <2>2 DEF GoesOn
    <2>4. Grown(state, state')
      BY <1>2, <2>1, GrownSteps
    <2>5. Moves(fr)
      BY <1>3, <1>9, <1>11, <2>1, <2>4 DEF Moves
    <2> QED
      BY <1>1, <2>3, <2>5, TopMoves
  <1>14. CASE Len(binding) # 1
    <2>1. Loads(binding)
      BY <1>3, <1>14
    <2>2. Len(Owners) >= Len(lazy_files)
      BY <1>2 DEF Good, Registry, Owners
    <2>3. Shapes
      BY DEF IInv
    <2>4. /\ files' \in Seq(FileOwner) /\ matches' \in Seq(Marks) /\ Len(matches') = Len(files')
          /\ state' \in StateType /\ Extends(files, files')
          /\ Loaded(lazy_files, state, state', files, files')
      BY <1>4, <2>1, <2>2, <2>3, LoadsLoaded
    <2>5. Good(lazy_files, state', files', odd) /\ Grown(state, state')
      BY <1>2, <2>4, LoadedGood
    <2>6. FrameOK(lazy_files, fr, state', odd)
      BY <1>2, <1>9, <1>11, <2>2, <2>4, LoadedFrame DEF Owners
    <2>7. GoesOn
      BY <1>1, <1>2, <1>3, <1>12, <2>4, <2>5 DEF GoesOn
    <2>8. Moves(fr)
      BY <1>3, <1>9, <1>11, <2>5, <2>6 DEF Moves
    <2> QED
      BY <1>1, <2>7, <2>8, TopMoves
  <1> QED
    BY <1>13, <1>14

\* Load gives the one file its first version.
LEMMA LoadKeeps ==
    ASSUME IInv, Load
    PROVE  IInv'
  <1> DEFINE f == Top.pointers[1].file
  <1>1. outcome = "running" /\ Len(Top.pointers) = 1 /\ Loads(<<f>>)
    BY DEF Load, At
  <1>2. /\ lazy_files \in Seq(Lazy) /\ files \in Seq(FileOwner) /\ matches \in Seq(Marks)
        /\ Len(matches) = Len(files) /\ state \in StateType
        /\ Good(lazy_files, state, files, odd) /\ Top \in FrameType
        /\ FrameOK(lazy_files, Top, state, odd) /\ step \in 0 .. MaxSteps
        /\ odd \subseteq {"touched", "nested"}
        /\ stack \in Seq(FrameType) /\ Top = stack[Len(stack)] /\ Len(stack) \in DOMAIN stack
        /\ Begins
    BY <1>1, RunningFacts
  <1>3. /\ stack' = stack /\ lazy_files' = lazy_files /\ outcome' = outcome /\ step' = step
        /\ results' = results /\ odd' = odd
    BY DEF Load
  <1>4. f \in DOMAIN lazy_files
    <2>1. 1 \in DOMAIN Top.pointers
      <3>1. Top.pointers \in Seq(Pointers)
        BY <1>2 DEF FrameType
      <3> QED
        BY <1>1, <3>1
    <2> QED
      BY <1>2, <2>1 DEF FrameOK, Distinct
  <1> HIDE DEF f
  <1>5. /\ <<f>> \in Seq(Nat)
        /\ \A i \in DOMAIN <<f>> : <<f>>[i] \in DOMAIN lazy_files
        /\ \A i, j \in DOMAIN <<f>> : <<f>>[i] = <<f>>[j] => i = j
    <2>1. f \in Nat
      BY <1>2, <1>4
    <2> QED
      BY <1>4, <2>1
  <1>6. Len(Owners) >= Len(lazy_files) /\ Shapes
    BY <1>2 DEF Good, Registry, Owners, IInv
  <1>7. /\ files' \in Seq(FileOwner) /\ matches' \in Seq(Marks) /\ Len(matches') = Len(files')
        /\ state' \in StateType /\ Extends(files, files')
        /\ Loaded(lazy_files, state, state', files, files')
    <2> DEFINE toload == <<f>>
    <2>1. Loads(toload)
      BY <1>1
    <2>2. /\ toload \in Seq(Nat)
          /\ \A i \in DOMAIN toload : toload[i] \in DOMAIN lazy_files
          /\ \A i, j \in DOMAIN toload : toload[i] = toload[j] => i = j
      BY <1>5
    <2> HIDE DEF toload
    <2> QED
      BY <1>6, <2>1, <2>2, LoadsLoaded
  <1>8. Good(lazy_files, state', files', odd) /\ Grown(state, state')
    BY <1>2, <1>7, LoadedGood
  <1>9. FrameOK(lazy_files, Top, state', odd)
    BY <1>2, <1>6, <1>7, LoadedFrame DEF Owners
  <1>10. GoesOn
    BY <1>1, <1>2, <1>3, <1>7, <1>8 DEF GoesOn
  <1>11. Moves(Top)
    <2>1. stack' = [stack EXCEPT ![Len(stack)] = Top]
      BY <1>2, <1>3
    <2>2. Top.place = "match"
      BY DEF Load, At
    <2>3. FrameOK(lazy_files, Top, Top.clone, odd)
      BY <1>1, <2>2, RunningFacts
    <2> QED
      BY <1>2, <1>3, <1>8, <1>9, <2>1, <2>2, <2>3 DEF Moves
  <1> QED
    BY <1>1, <1>10, <1>11, TopMoves

\* What holds of the versions there are holds while the effects and the wanted files
\* change, if it still does of those.
LEMMA GoodEffects ==
    ASSUME NEW found, NEW s, NEW t, NEW fs, NEW d, NEW c, Good(found, s, fs, d), d \subseteq c,
           t.owners = s.owners,
           Len(t.owners) + t.new_files = Len(found) + t.asked,
           \A e \in t.effects : e.owner \in DOMAIN fs
    PROVE  Good(found, t, fs, c)
  <1>1. Registry(found, t, fs)
    BY DEF Good, Registry
  <1>2. Apart(t) /\ Origin(found, t, fs)
    BY DEF Good, Apart, Origin
  <1>3. "nested" \notin c => Survive(t, fs)
    BY DEF Good, Survive
  <1>4. c = {} => Revised(t, fs)
    BY DEF Good, Revised
  <1>5. "touched" \notin c => Different(found, t, fs)
    BY DEF Good, Different, TextsOf, NamesOf
  <1> QED
    BY <1>1, <1>2, <1>3, <1>4, <1>5 DEF Good

\* Rewrite adds an effect.
LEMMA RewriteKeeps ==
    ASSUME IInv, Rewrite
    PROVE  IInv'
  <1>1. outcome = "running" /\ Top.place = "match"
    BY DEF Rewrite, At
  <1>2. /\ lazy_files \in Seq(Lazy) /\ files \in Seq(FileOwner) /\ matches \in Seq(Marks)
        /\ Len(matches) = Len(files) /\ state \in StateType
        /\ Good(lazy_files, state, files, odd) /\ Top \in FrameType
        /\ FrameOK(lazy_files, Top, state, odd) /\ step \in 0 .. MaxSteps
        /\ odd \subseteq {"touched", "nested"}
        /\ stack \in Seq(FrameType) /\ Top = stack[Len(stack)] /\ Len(stack) \in DOMAIN stack
    BY <1>1, RunningFacts
  <1>3. PICK effect \in Bindings \ state.effects :
           /\ state' = [state EXCEPT !.effects = @ \union {effect}]
           /\ odd' = odd \union Oddities(effect)
    BY DEF Rewrite
  <1>4. /\ stack' = stack /\ lazy_files' = lazy_files /\ outcome' = outcome /\ step' = step
        /\ results' = results /\ files' = files /\ matches' = matches
    BY DEF Rewrite
  <1>5. effect \in [owner: Nat, kind: Kinds] /\ effect.owner \in DOMAIN files
    BY <1>2 DEF Bindings, Kinds
  <1>6. /\ state'.owners = state.owners /\ state'.effects = state.effects \union {effect}
        /\ state'.new_files = state.new_files /\ state'.asked = state.asked
        /\ state' \in StateType
    <2>1. state.effects \union {effect} \in SUBSET [owner: Nat, kind: Kinds]
      BY <1>2, <1>5 DEF StateType
    <2> QED
      BY <1>2, <1>3, <2>1 DEF StateType
  <1>7. odd \subseteq odd' /\ odd' \subseteq {"touched", "nested"}
    BY <1>2, <1>3 DEF Oddities
  <1>8. Good(lazy_files, state', files, odd')
    <2>1. Len(state'.owners) + state'.new_files = Len(lazy_files) + state'.asked
      BY <1>2, <1>6 DEF Good, Registry
    <2>2. \A e \in state'.effects : e.owner \in DOMAIN files
      BY <1>2, <1>5, <1>6 DEF Good, Registry
    <2> QED
      BY <1>2, <1>6, <1>7, <2>1, <2>2, GoodEffects
  <1>9. Grown(state, state')
    <2>1. \A f \in DOMAIN state.owners : Len(state.owners[f]) <= Len(state'.owners[f])
      <3> SUFFICES ASSUME NEW f \in DOMAIN state.owners
                   PROVE  Len(state.owners[f]) <= Len(state'.owners[f])
        OBVIOUS
      <3>1. Len(state.owners[f]) \in Nat
        BY <1>2 DEF StateType
      <3> QED
        BY <1>6, <3>1
    <2>2. Len(state.owners) \in Nat
      BY <1>2 DEF StateType
    <2> QED
      BY <1>6, <2>1, <2>2 DEF Grown
  <1>10. FrameOK(lazy_files, Top, state', odd')
    <2>1. Distinct(lazy_files, Top) /\ InRange(Top, state') /\ Counted(Top)
      BY <1>2, <1>6 DEF FrameOK, InRange
    <2>2. "nested" \notin odd' => \A i \in DOMAIN Top.pointers :
             Top.pointers[i].version =
                 IF state.owners[Top.pointers[i].file] # <<>>
                 THEN Len(state.owners[Top.pointers[i].file]) - 1 ELSE 0
      <3> SUFFICES ASSUME "nested" \notin odd', NEW i \in DOMAIN Top.pointers
                   PROVE  Top.pointers[i].version =
                              IF state.owners[Top.pointers[i].file] # <<>>
                              THEN Len(state.owners[Top.pointers[i].file]) - 1 ELSE 0
        OBVIOUS
      <3>1. Top.pointers[i] = latest_revision(Top.pointers[i].file)
        BY <1>3 DEF Oddities
      <3>2. \A g : latest_revision(g).version =
                      IF state.owners[g] # <<>> THEN Len(state.owners[g]) - 1 ELSE 0
        BY DEF latest_revision, is_loaded, Owners
      <3>3. latest_revision(Top.pointers[i].file).version =
                IF state.owners[Top.pointers[i].file] # <<>>
                THEN Len(state.owners[Top.pointers[i].file]) - 1 ELSE 0
        BY <3>2
      <3> QED
        BY <3>1, <3>3
    <2>4. Latest(Top, state', odd')
      BY <1>6, <2>2 DEF Latest
    <2>3. Fresh(lazy_files, Top, state', odd')
      <3> SUFFICES ASSUME odd' = {}, NEW e \in state'.effects
                   PROVE  /\ e.kind # "suppressed"
                          /\ \E f \in DOMAIN lazy_files : \E i \in DOMAIN state.owners[f] :
                                /\ e.owner = state.owners[f][i]
                                /\ \/ i = Len(state.owners[f])
                                   \/ \E k \in DOMAIN Top.pointers :
                                         k < Top.next /\ Top.pointers[k].file = f
        BY <1>6 DEF Fresh
      <3>1. CASE e \in state.effects
        <4>1. odd = {}
          BY <1>7
        <4> QED
          BY <1>2, <3>1, <4>1 DEF FrameOK, Fresh
      <3>2. CASE e = effect
        <4>1. Oddities(e) = {}
          BY <1>3, <3>2
        <4>2. e.kind # "suppressed"
          BY <4>1 DEF Oddities
        <4>3. PICK i \in DOMAIN Top.pointers :
                 Available(Top.pointers[i]) /\ e.owner = get_file_owner(Top.pointers[i])
          BY <4>1 DEF Oddities
        <4> DEFINE f == Top.pointers[i].file
                   v == Top.pointers[i].version
        <4>4. v < Len(state.owners[f]) /\ e.owner = state.owners[f][v + 1]
          BY <4>3 DEF Available, get_file_owner, Owners
        <4>5. f \in DOMAIN lazy_files
          BY <2>1 DEF Distinct
        <4>6. v = IF state.owners[f] # <<>> THEN Len(state.owners[f]) - 1 ELSE 0
          BY <2>2
        <4> HIDE DEF f, v
        <4>7. state.owners[f] \in Seq(Nat)
          BY <1>2, <4>5, FoundOwned DEF Good, Registry
        <4>8. v + 1 = Len(state.owners[f]) /\ v + 1 \in DOMAIN state.owners[f]
          <5>1. Len(state.owners[f]) \in Nat
            BY <4>7
          <5>2. state.owners[f] = <<>> => v = 0 /\ Len(state.owners[f]) = 0
            BY <4>6, <4>7
          <5>3. state.owners[f] # <<>>
            BY <4>4, <5>2
          <5>4. Len(state.owners[f]) # 0
            BY <4>7, <5>3
          <5>5. v + 1 = Len(state.owners[f])
            BY <4>6, <5>1, <5>3
          <5> QED
            BY <4>7, <5>1, <5>4, <5>5
        <4> QED
          BY <4>2, <4>4, <4>5, <4>8
      <3> QED
        BY <1>6, <3>1, <3>2
    <2> QED
      BY <1>1, <2>1, <2>3, <2>4 DEF FrameOK
  <1>11. GoesOn
    <2>1. Extends(files, files)
      BY DEF Extends
    <2> QED
      BY <1>1, <1>2, <1>4, <1>6, <1>7, <1>8, <2>1 DEF GoesOn
  <1>12. Moves(Top)
    <2>1. stack' = [stack EXCEPT ![Len(stack)] = Top]
      BY <1>2, <1>4
    <2>2. FrameOK(lazy_files, Top, Top.clone, odd')
      <3>1. FrameOK(lazy_files, Top, Top.clone, odd)
        BY <1>1, RunningFacts
      <3> QED
        BY <1>7, <3>1, FrameKept
    <2> QED
      BY <1>1, <1>2, <1>4, <1>9, <1>10, <2>1, <2>2 DEF Moves
  <1> QED
    BY <1>1, <1>11, <1>12, TopMoves

\* AskFile wants one file more.
LEMMA AskFileKeeps ==
    ASSUME IInv, AskFile
    PROVE  IInv'
  <1>1. outcome = "running" /\ Top.place = "match"
    BY DEF AskFile, At
  <1>2. /\ lazy_files \in Seq(Lazy) /\ files \in Seq(FileOwner) /\ matches \in Seq(Marks)
        /\ Len(matches) = Len(files) /\ state \in StateType
        /\ Good(lazy_files, state, files, odd) /\ Top \in FrameType
        /\ FrameOK(lazy_files, Top, state, odd) /\ step \in 0 .. MaxSteps
        /\ odd \subseteq {"touched", "nested"}
        /\ stack \in Seq(FrameType) /\ Top = stack[Len(stack)] /\ Len(stack) \in DOMAIN stack
    BY <1>1, RunningFacts
  <1>3. state' = [state EXCEPT !.new_files = @ + 1, !.asked = @ + 1]
    BY DEF AskFile
  <1>4. /\ stack' = stack /\ lazy_files' = lazy_files /\ outcome' = outcome /\ step' = step
        /\ results' = results /\ files' = files /\ matches' = matches /\ odd' = odd
    BY DEF AskFile
  <1>5. /\ state'.owners = state.owners /\ state'.effects = state.effects
        /\ state'.new_files = state.new_files + 1 /\ state'.asked = state.asked + 1
        /\ state' \in StateType
    <2>1. /\ state = [owners |-> state.owners, effects |-> state.effects,
                      new_files |-> state.new_files, asked |-> state.asked]
          /\ state.owners \in Seq(Seq(Nat))
          /\ state.effects \in SUBSET [owner: Nat, kind: Kinds]
          /\ state.new_files \in Nat /\ state.asked \in Nat
      BY <1>2 DEF StateType
    <2>2. state' = [owners |-> state.owners, effects |-> state.effects,
                    new_files |-> state.new_files + 1, asked |-> state.asked + 1]
      BY <1>3, <2>1
    <2>3. state.new_files + 1 \in Nat /\ state.asked + 1 \in Nat
      BY <2>1
    <2>4. state' \in StateType
      BY <2>1, <2>2, <2>3 DEF StateType
    <2> QED
      BY <2>2, <2>4
  <1>6. Good(lazy_files, state', files, odd)
    <2>1. Len(state'.owners) + state'.new_files = Len(lazy_files) + state'.asked
      <3>1. Len(state.owners) + state.new_files = Len(lazy_files) + state.asked
        BY <1>2 DEF Good, Registry
      <3>2. state.owners \in Seq(Seq(Nat)) /\ state.new_files \in Nat /\ state.asked \in Nat
        BY <1>2 DEF StateType
      <3>3. Len(state.owners) \in Nat /\ Len(lazy_files) \in Nat
        BY <1>2, <3>2
      <3>4. Len(state.owners) + (state.new_files + 1) = Len(lazy_files) + (state.asked + 1)
        <4> DEFINE x == Len(state.owners)
                   y == Len(lazy_files)
                   n == state.new_files
                   a == state.asked
        <4>1. x \in Nat /\ y \in Nat /\ n \in Nat /\ a \in Nat /\ x + n = y + a
          BY <3>1, <3>2, <3>3
        <4> HIDE DEF x, y, n, a
        <4>2. x + (n + 1) = y + (a + 1)
          BY <4>1
        <4> QED
          BY <4>2 DEF x, y, n, a
      <3> QED
        BY <1>5, <3>4
    <2>2. \A e \in state'.effects : e.owner \in DOMAIN files
      BY <1>2, <1>5 DEF Good, Registry
    <2> QED
      BY <1>2, <1>5, <2>1, <2>2, GoodEffects
  <1>7. Grown(state, state')
    <2>1. Grown(state, state)
      BY <1>2, GrownSteps
    <2> QED
      BY <1>5, <2>1 DEF Grown
  <1>8. FrameOK(lazy_files, Top, state', odd)
    <2>1. Distinct(lazy_files, Top) /\ InRange(Top, state') /\ Counted(Top)
      BY <1>2, <1>5 DEF FrameOK, InRange
    <2>2. Latest(Top, state', odd)
      BY <1>2, <1>5 DEF FrameOK, Latest
    <2>3. Fresh(lazy_files, Top, state', odd)
      BY <1>2, <1>5 DEF FrameOK, Fresh
    <2> QED
      BY <1>1, <2>1, <2>2, <2>3 DEF FrameOK
  <1>9. GoesOn
    <2>1. Extends(files, files)
      BY DEF Extends
    <2> QED
      BY <1>1, <1>2, <1>4, <1>5, <1>6, <2>1 DEF GoesOn
  <1>10. Moves(Top)
    <2>1. stack' = [stack EXCEPT ![Len(stack)] = Top]
      BY <1>2, <1>4
    <2>2. FrameOK(lazy_files, Top, Top.clone, odd)
      BY <1>1, RunningFacts
    <2> QED
      BY <1>1, <1>2, <1>4, <1>7, <1>8, <2>1, <2>2 DEF Moves
  <1> QED
    BY <1>1, <1>9, <1>10, TopMoves

\* Matches goes on to the first pointer.
LEMMA MatchesKeeps ==
    ASSUME IInv, Matches
    PROVE  IInv'
  <1>1. outcome = "running" /\ Top.place = "match"
    BY DEF Matches, At
  <1>2. /\ lazy_files \in Seq(Lazy) /\ files \in Seq(FileOwner) /\ matches \in Seq(Marks)
        /\ Len(matches) = Len(files) /\ state \in StateType
        /\ Good(lazy_files, state, files, odd) /\ Top \in FrameType
        /\ FrameOK(lazy_files, Top, state, odd) /\ step \in 0 .. MaxSteps
        /\ odd \subseteq {"touched", "nested"}
        /\ Top = stack[Len(stack)]
    BY <1>1, RunningFacts
  <1>3. /\ state' = state /\ lazy_files' = lazy_files /\ outcome' = outcome /\ step' = step
        /\ results' = results /\ files' = files /\ matches' = matches /\ odd' = odd
    BY DEF Matches
  <1>4. PICK r \in {"some", "suppressed"} :
           stack' = [stack EXCEPT ![Len(stack)] =
                        [@ EXCEPT !.place = "apply", !.next = 1, !.ranges = r, !.clone = state]]
    BY DEF Matches
  <1> DEFINE fr == [Top EXCEPT !.place = "apply", !.next = 1, !.ranges = r, !.clone = state]
  <1>5. stack' = [stack EXCEPT ![Len(stack)] = fr]
    BY <1>2, <1>4
  <1>6. /\ fr \in FrameType /\ fr.clone = state /\ fr.place = "apply"
        /\ fr.binding = Top.binding /\ fr.pointers = Top.pointers /\ fr.next = 1
    <2>1. "apply" \in Places /\ r \in Marks /\ 1 \in Nat \ {0}
      BY DEF Places, Marks
    <2> QED
      BY <1>2, <2>1 DEF FrameType
  <1> HIDE DEF fr
  <1>7. Top.next = 1 /\ Len(Top.pointers) \in Nat
    <2>1. Top.pointers \in Seq(Pointers)
      BY <1>2 DEF FrameType
    <2> QED
      BY <1>1, <1>2, <2>1 DEF FrameOK, Counted
  <1>8. FrameOK(lazy_files, fr, state, odd)
    <2>1. Distinct(lazy_files, fr) /\ InRange(fr, state) /\ Counted(fr)
      BY <1>2, <1>6, <1>7 DEF FrameOK, Distinct, InRange, Counted
    <2>2. Latest(fr, state, odd) /\ Fresh(lazy_files, fr, state, odd)
      BY <1>2, <1>6, <1>7 DEF FrameOK, Latest, Fresh
    <2> QED
      BY <1>6, <2>1, <2>2 DEF FrameOK
  <1>9. GoesOn
    <2>1. Extends(files, files)
      BY DEF Extends
    <2> QED
      BY <1>1, <1>2, <1>3, <2>1 DEF GoesOn
  <1>10. Moves(fr)
    <2>1. Grown(state, state)
      BY <1>2, GrownSteps
    <2> QED
      BY <1>3, <1>5, <1>6, <1>8, <2>1 DEF Moves
  <1> QED
    BY <1>1, <1>9, <1>10, TopMoves

\* NextStep begins the next step of the Sequential, with nothing left.
LEMMA NextStepKeeps ==
    ASSUME IInv, NextStep
    PROVE  IInv'
  <1>1. outcome = "running" /\ Top.place = "stepped"
    BY DEF NextStep, At
  <1>2. /\ lazy_files \in Seq(Lazy) /\ files \in Seq(FileOwner) /\ matches \in Seq(Marks)
        /\ Len(matches) = Len(files) /\ state \in StateType
        /\ Good(lazy_files, state, files, odd) /\ Top \in FrameType
        /\ FrameOK(lazy_files, Top, state, odd) /\ step \in 0 .. MaxSteps
        /\ odd \subseteq {"touched", "nested"}
        /\ Top = stack[Len(stack)]
    BY <1>1, RunningFacts
  <1>3. /\ state' = state /\ lazy_files' = lazy_files /\ outcome' = outcome /\ step' = step
        /\ results' = results /\ files' = files /\ matches' = matches /\ odd' = odd
    BY DEF NextStep
  <1> DEFINE fr == [Top EXCEPT !.place = "enter"]
  <1>4. stack' = [stack EXCEPT ![Len(stack)] = fr]
    BY <1>2 DEF NextStep, Goto
  <1>5. /\ fr \in FrameType /\ fr.clone = Top.clone /\ fr.place = "enter"
        /\ fr.binding = Top.binding /\ fr.pointers = Top.pointers /\ fr.next = Top.next
    <2>1. "enter" \in Places
      BY DEF Places
    <2> QED
      BY <1>2, <2>1 DEF FrameType
  <1> HIDE DEF fr
  <1>6. Clean(state)
    BY <1>1, <1>2 DEF FrameOK
  <1>7. FrameOK(lazy_files, fr, state, odd)
    <2>1. Distinct(lazy_files, fr) /\ InRange(fr, state) /\ Counted(fr)
      BY <1>1, <1>2, <1>5 DEF FrameOK, Distinct, InRange, Counted
    <2>2. Latest(fr, state, odd) /\ Fresh(lazy_files, fr, state, odd)
      BY <1>2, <1>5 DEF FrameOK, Latest, Fresh
    <2> QED
      BY <1>5, <2>1, <2>2 DEF FrameOK
  <1>8. GoesOn
    <2>1. Extends(files, files)
      BY DEF Extends
    <2> QED
      BY <1>1, <1>2, <1>3, <2>1 DEF GoesOn
  <1>9. Moves(fr)
    <2>1. Grown(state, state)
      BY <1>2, GrownSteps
    <2> QED
      BY <1>3, <1>4, <1>5, <1>6, <1>7, <2>1 DEF Moves
  <1> QED
    BY <1>1, <1>8, <1>9, TopMoves

\* Clone saves a state that is sound.
LEMMA CloneKeeps ==
    ASSUME IInv, Clone
    PROVE  IInv'
  <1>1. outcome = "running" /\ Top.place = "match"
    BY DEF Clone, At
  <1>2. /\ lazy_files \in Seq(Lazy) /\ files \in Seq(FileOwner) /\ matches \in Seq(Marks)
        /\ Len(matches) = Len(files) /\ state \in StateType
        /\ Good(lazy_files, state, files, odd) /\ Top \in FrameType
        /\ FrameOK(lazy_files, Top, state, odd) /\ step \in 0 .. MaxSteps
        /\ odd \subseteq {"touched", "nested"}
        /\ Top = stack[Len(stack)]
    BY <1>1, RunningFacts
  <1>3. /\ state' = state /\ lazy_files' = lazy_files /\ outcome' = outcome /\ step' = step
        /\ results' = results /\ files' = files /\ matches' = matches /\ odd' = odd
    BY DEF Clone
  <1> DEFINE fr == [Top EXCEPT !.clone = state]
  <1>4. stack' = [stack EXCEPT ![Len(stack)] = fr]
    BY <1>2 DEF Clone
  <1>5. /\ fr \in FrameType /\ fr.clone = state /\ fr.place = "match"
        /\ fr.binding = Top.binding /\ fr.pointers = Top.pointers /\ fr.next = Top.next
    BY <1>1, <1>2 DEF FrameType
  <1> HIDE DEF fr
  <1>6. FrameOK(lazy_files, fr, state, odd)
    BY <1>1, <1>2, <1>5, FrameAlike
  <1>7. GoesOn
    <2>1. Extends(files, files)
      BY DEF Extends
    <2> QED
      BY <1>1, <1>2, <1>3, <2>1 DEF GoesOn
  <1>8. Moves(fr)
    <2>1. Grown(state, state)
      BY <1>2, GrownSteps
    <2> QED
      BY <1>3, <1>4, <1>5, <1>6, <2>1 DEF Moves
  <1> QED
    BY <1>1, <1>7, <1>8, TopMoves

\* PushNewFiles makes the new files and clears what is left.
LEMMA PushNewFilesKeeps ==
    ASSUME IInv, PushNewFiles
    PROVE  IInv'
  <1>1. outcome = "running" /\ Top.place = "apply"
    BY DEF PushNewFiles, At
  <1>2. /\ lazy_files \in Seq(Lazy) /\ files \in Seq(FileOwner)
        /\ state \in StateType /\ Good(lazy_files, state, files, odd) /\ Top \in FrameType
        /\ FrameOK(lazy_files, Top, state, odd) /\ step \in 0 .. MaxSteps
        /\ odd \subseteq {"touched", "nested"}
        /\ Top = stack[Len(stack)]
    BY <1>1, RunningFacts
  <1>3. /\ lazy_files' = lazy_files /\ outcome' = outcome /\ step' = step
        /\ results' = results /\ odd' = odd
    BY DEF PushNewFiles
  <1>4. /\ files' \in Seq(FileOwner) /\ matches' \in Seq(Marks) /\ Len(matches') = Len(files')
        /\ state' \in StateType /\ Extends(files, files')
        /\ Made(state, state', files, files')
    <2>1. Shapes
      BY DEF IInv
    <2> QED
      BY <1>1, <2>1, PushNewFilesMade
  <1>5. Good(lazy_files, state', files', odd) /\ Grown(state, state')
    BY <1>2, <1>4, MadeGood
  <1>6. Clean(state')
    BY <1>4 DEF Made
  <1> DEFINE fr == Frame(Top.binding, "stepped", state')
  <1>7. stack' = [stack EXCEPT ![Len(stack)] = fr]
    BY <1>2 DEF PushNewFiles
  <1>8. fr \in FrameType /\ fr.clone = state' /\ fr.place = "stepped"
    <2>1. Top.binding \in Seq(Nat) /\ state' \in StateType
      BY <1>2, <1>4 DEF FrameType
    <2>2. "stepped" \in Places
      BY DEF Places
    <2> QED
      BY <2>1, <2>2, FrameTyped
  <1>9. FrameOK(lazy_files, fr, state', odd)
    <2>1. /\ \A i \in DOMAIN Top.binding : Top.binding[i] \in DOMAIN lazy_files
          /\ \A i, j \in DOMAIN Top.binding : Top.binding[i] = Top.binding[j] => i = j
      BY <1>2 DEF FrameOK, Distinct
    <2>2. \A e \in state'.effects : FALSE
      BY <1>6 DEF Clean
    <2> QED
      BY <1>6, <2>1, <2>2, FrameBegins
  <1> HIDE DEF fr
  <1>10. GoesOn
    BY <1>1, <1>2, <1>3, <1>4, <1>5 DEF GoesOn
  <1>11. Moves(fr)
    BY <1>3, <1>5, <1>7, <1>8, <1>9 DEF Moves
  <1> QED
    BY <1>1, <1>10, <1>11, TopMoves

-----------------------------------------------------------------------------
(* Apply.                                                                  *)

\* A revision has the edits of what it revises, and one more if it was edited.
LEMMA RevisionFacts ==
    ASSUME NEW o, files[o] \in FileOwner, Top.number \in Nat, files \in Seq(FileOwner),
           lazy_files \in Seq(Lazy), state \in StateType, Registry(lazy_files, state, files),
           NEW x \in Revisions(o)
    PROVE  /\ x \in FileOwner
           /\ Within(files[o], x)
           /\ Edits(o, "node") \/ Edits(o, "filename") => x.edits # {}
  <1> DEFINE some == {[kind |-> k, step |-> Top.number] :
                         k \in {kind \in {"node", "filename"} : Edits(o, kind)}}
             names == UNION {Names(f) : f \in DOMAIN lazy_files}
             texts == UNION {Texts(f) : f \in DOMAIN lazy_files}
  <1>1. /\ x.name \in Edited(o, "filename", files[o].name, names)
        /\ x.text \in Edited(o, "node", files[o].text, texts)
        /\ x.edits = files[o].edits \union some /\ x.new = TRUE
        /\ x = [name |-> x.name, text |-> x.text, edits |-> x.edits, new |-> x.new]
    BY DEF Revisions
  <1>2. some \in SUBSET Edit
    <2>1. \A k \in {"node", "filename"} : [kind |-> k, step |-> Top.number] \in Edit
      BY DEF Edit, Kinds
    <2> QED
      BY <2>1
  <1>3. Edits(o, "node") \/ Edits(o, "filename") => some # {}
    OBVIOUS
  <1>4. \A f \in DOMAIN lazy_files : Names(f) \subseteq Value /\ Texts(f) \subseteq Value
    <2> SUFFICES ASSUME NEW f \in DOMAIN lazy_files
                 PROVE  Names(f) \subseteq Value /\ Texts(f) \subseteq Value
      OBVIOUS
    <2>1. f \in Nat /\ lazy_files[f] \in Lazy
      OBVIOUS
    <2>2. FoundName(f) \in Value /\ FoundText(f) \in Value
      <3>1. lazy_files[f].text \in Nat
        BY <2>1 DEF Lazy
      <3> QED
        BY <2>1, <3>1 DEF FoundName, FoundText, Value
    <2>3. \A i \in DOMAIN Owners[f] : Owners[f][i] \in DOMAIN files
      <3>1. f \in DOMAIN state.owners
        BY FoundOwned DEF Registry
      <3> QED
        BY <3>1 DEF Registry, Owners
    <2>4. \A p \in Range(Owners[f]) : files[p] \in FileOwner
      BY <2>3 DEF Range
    <2>5. \A p \in Range(Owners[f]) : files[p].name \in Value /\ files[p].text \in Value
      BY <2>4 DEF FileOwner
    <2> QED
      BY <2>2, <2>5 DEF Names, Texts
  <1>5. names \subseteq Value /\ texts \subseteq Value
    BY <1>4
  <1> HIDE DEF some, names, texts
  <1>6. files[o].name \in Value /\ files[o].text \in Value /\ files[o].edits \in SUBSET Edit
    BY DEF FileOwner
  <1>7. NewValue \in Value
    <2>1. Len(files) + 1 \in Nat
      OBVIOUS
    <2> QED
      BY <2>1 DEF NewValue, Value
  <1>8. x.name \in Value /\ x.text \in Value
    BY <1>1, <1>5, <1>6, <1>7 DEF Edited
  <1>9. x \in FileOwner
    <2>1. x.edits \in SUBSET Edit /\ x.new \in BOOLEAN
      BY <1>1, <1>2, <1>6
    <2> QED
      BY <1>1, <1>8, <2>1 DEF FileOwner
  <1>10. Within(files[o], x)
    BY <1>1 DEF Within
  <1> QED
    BY <1>1, <1>3, <1>9, <1>10

\* Without oddities, what an effect touches it edits.
LEMMA TouchesEdits ==
    ASSUME NEW f \in DOMAIN lazy_files, NEW o, Good(lazy_files, state, files, odd), odd = {},
           lazy_files \in Seq(Lazy), state \in StateType, Top \in FrameType,
           FrameOK(lazy_files, Top, state, odd),
           Top.next \in DOMAIN Top.pointers, f = Top.pointers[Top.next].file,
           state.owners[f] # <<>>, o = LastOf(state, f), Touches(o)
    PROVE  Edits(o, "node") \/ Edits(o, "filename")
  <1>1. state.owners[f] \in Seq(Nat) /\ f \in DOMAIN state.owners
    BY FoundOwned DEF Good, Registry
  <1>2. /\ Len(state.owners[f]) \in DOMAIN state.owners[f]
        /\ o = state.owners[f][Len(state.owners[f])]
    <2>1. \A s \in Seq(Nat) : s # <<>> => Len(s) \in DOMAIN s
      OBVIOUS
    <2> QED
      BY <1>1, <2>1 DEF LastOf
  <1>3. PICK e \in state.effects :
           \/ e.kind # "filename" /\ files[e.owner].text = files[o].text
           \/ e.kind = "filename" /\ files[e.owner].name = files[o].name
    BY DEF Touches
  <1>4. e.kind # "suppressed" /\ e.kind \in Kinds
    <2>1. e.kind # "suppressed"
      BY DEF FrameOK, Fresh
    <2>2. e \in [owner: Nat, kind: Kinds]
      BY DEF StateType
    <2> QED
      BY <2>1, <2>2
  <1>5. PICK g \in DOMAIN lazy_files : \E i \in DOMAIN state.owners[g] :
           /\ e.owner = state.owners[g][i]
           /\ \/ i = Len(state.owners[g])
              \/ \E k \in DOMAIN Top.pointers : k < Top.next /\ Top.pointers[k].file = g
    BY DEF FrameOK, Fresh
  <1>6. PICK i \in DOMAIN state.owners[g] :
           /\ e.owner = state.owners[g][i]
           /\ \/ i = Len(state.owners[g])
              \/ \E k \in DOMAIN Top.pointers : k < Top.next /\ Top.pointers[k].file = g
    BY <1>5
  <1>7. /\ files[e.owner].text \in TextsOf(lazy_files, state, files, g)
        /\ files[e.owner].name \in NamesOf(state, files, g)
        /\ files[o].text \in TextsOf(lazy_files, state, files, f)
        /\ files[o].name \in NamesOf(state, files, f)
    <2>1. e.owner \in Range(state.owners[g]) /\ o \in Range(state.owners[f])
      BY <1>2, <1>6 DEF Range
    <2> QED
      BY <2>1 DEF TextsOf, NamesOf
  <1>8. g = f
    <2>1. Different(lazy_files, state, files)
      BY DEF Good
    <2> SUFFICES ASSUME g # f PROVE FALSE
      OBVIOUS
    <2>2. /\ TextsOf(lazy_files, state, files, g) \intersect
                TextsOf(lazy_files, state, files, f) = {}
          /\ NamesOf(state, files, g) \intersect NamesOf(state, files, f) = {}
      BY <2>1 DEF Different
    <2>3. CASE files[e.owner].text = files[o].text
      BY <1>7, <2>2, <2>3
    <2>4. CASE files[e.owner].name = files[o].name
      BY <1>7, <2>2, <2>4
    <2> QED
      BY <1>3, <2>3, <2>4
  <1>9. \A k \in DOMAIN Top.pointers : k < Top.next => Top.pointers[k].file # g
    <2> SUFFICES ASSUME NEW k \in DOMAIN Top.pointers, k < Top.next, Top.pointers[k].file = g
                 PROVE  FALSE
      OBVIOUS
    <2>1. k = Top.next
      BY <1>8 DEF FrameOK, Distinct
    <2>2. k \in Nat
      <3>1. Top.pointers \in Seq(Pointers)
        BY DEF FrameType
      <3> QED
        BY <3>1
    <2> QED
      BY <2>1, <2>2
  <1>10. e.owner = o
    BY <1>2, <1>6, <1>8, <1>9
  <1>11. e \in Live
    BY <1>4 DEF Live
  <1>12. e.kind = "node" \/ e.kind = "filename"
    BY <1>4 DEF Kinds
  <1> QED
    BY <1>10, <1>11, <1>12 DEF Edits

Advanced(fr) == [fr EXCEPT !.next = @ + 1]

\* A Sequential that has come to a further pointer.
LEMMA AdvancedFacts ==
    ASSUME NEW fr \in FrameType, fr.next \in DOMAIN fr.pointers
    PROVE  /\ Advanced(fr) \in FrameType
           /\ Advanced(fr).binding = fr.binding /\ Advanced(fr).place = fr.place
           /\ Advanced(fr).pointers = fr.pointers /\ Advanced(fr).next = fr.next + 1
           /\ Advanced(fr).clone = fr.clone
           /\ fr.next \in Nat \ {0} /\ fr.next <= Len(fr.pointers) /\ Len(fr.pointers) \in Nat
           /\ \A i \in DOMAIN fr.pointers : i \in Nat
  <1>1. fr.next \in Nat \ {0} /\ fr.pointers \in Seq(Pointers)
    BY DEF FrameType
  <1>2. fr.next + 1 \in Nat \ {0}
    BY <1>1
  <1>3. /\ fr.next <= Len(fr.pointers) /\ Len(fr.pointers) \in Nat
        /\ \A i \in DOMAIN fr.pointers : i \in Nat
    BY <1>1
  <1>4. Advanced(fr) \in FrameType
    BY <1>2 DEF Advanced, FrameType
  <1>5. /\ Advanced(fr).binding = fr.binding /\ Advanced(fr).place = fr.place
        /\ Advanced(fr).pointers = fr.pointers /\ Advanced(fr).next = fr.next + 1
        /\ Advanced(fr).clone = fr.clone
    BY DEF Advanced, FrameType
  <1> QED
    BY <1>1, <1>3, <1>4, <1>5

\* It goes on so when the file of the pointer needs no revision ..
LEMMA SkippedFrame ==
    ASSUME NEW found, NEW s, NEW d, NEW fr \in FrameType, FrameOK(found, fr, s, d),
           fr.place = "apply", fr.next \in DOMAIN fr.pointers
    PROVE  FrameOK(found, Advanced(fr), s, d)
  <1>1. /\ Advanced(fr).binding = fr.binding /\ Advanced(fr).place = fr.place
        /\ Advanced(fr).pointers = fr.pointers /\ Advanced(fr).next = fr.next + 1
        /\ fr.next \in Nat \ {0} /\ fr.next <= Len(fr.pointers) /\ Len(fr.pointers) \in Nat
        /\ \A i \in DOMAIN fr.pointers : i \in Nat
    BY AdvancedFacts
  <1>2. Distinct(found, Advanced(fr)) /\ InRange(Advanced(fr), s)
    BY <1>1 DEF FrameOK, Distinct, InRange
  <1>3. Counted(Advanced(fr))
    BY <1>1 DEF Counted
  <1>4. Latest(Advanced(fr), s, d)
    <2>1. \A i \in DOMAIN fr.pointers : i >= fr.next + 1 => i >= fr.next
      BY <1>1
    <2> QED
      BY <1>1, <2>1 DEF FrameOK, Latest
  <1>5. Fresh(found, Advanced(fr), s, d)
    <2>1. \A k \in DOMAIN fr.pointers : k < fr.next => k < fr.next + 1
      BY <1>1
    <2> QED
      BY <1>1, <2>1 DEF FrameOK, Fresh
  <1> QED
    BY <1>1, <1>2, <1>3, <1>4, <1>5 DEF FrameOK

\* .. and when it gets one.
LEMMA PushedFrame ==
    ASSUME NEW found \in Seq(Lazy), NEW s \in StateType, NEW t \in StateType, NEW fs, NEW gs,
           NEW x, NEW d, NEW fr \in FrameType, FrameOK(found, fr, s, d),
           Len(s.owners) >= Len(found),
           fr.place = "apply", fr.next \in DOMAIN fr.pointers,
           OneMore(s, t, fs, gs, fr.pointers[fr.next].file, x)
    PROVE  FrameOK(found, Advanced(fr), t, d)
  <1> DEFINE f == fr.pointers[fr.next].file
  <1>1. FrameOK(found, Advanced(fr), s, d)
    BY SkippedFrame
  <1>2. /\ Advanced(fr).binding = fr.binding /\ Advanced(fr).place = fr.place
        /\ Advanced(fr).pointers = fr.pointers /\ Advanced(fr).next = fr.next + 1
        /\ fr.next \in Nat \ {0}
        /\ \A i \in DOMAIN fr.pointers : i \in Nat
    BY AdvancedFacts
  <1>3. /\ t.effects = s.effects /\ Len(t.owners[f]) = Len(s.owners[f]) + 1
        /\ \A g \in DOMAIN s.owners : g # f => t.owners[g] = s.owners[g]
        /\ \A g \in DOMAIN s.owners : \A i \in DOMAIN s.owners[g] :
              i \in DOMAIN t.owners[g] /\ t.owners[g][i] = s.owners[g][i]
    BY DEF OneMore
  <1>4. \A g \in DOMAIN found : g \in DOMAIN s.owners /\ s.owners[g] \in Seq(Nat)
    BY FoundOwned
  <1>5. /\ \A i \in DOMAIN fr.pointers : fr.pointers[i].file \in DOMAIN found
        /\ \A i \in DOMAIN fr.pointers : fr.pointers[i].file = f => i = fr.next
    BY DEF FrameOK, Distinct
  <1>6. f \in DOMAIN found
    BY <1>5
  <1> HIDE DEF f
  <1>7. Distinct(found, Advanced(fr)) /\ Counted(Advanced(fr))
    BY <1>1 DEF FrameOK
  <1>8. InRange(Advanced(fr), t)
    <2> SUFFICES ASSUME NEW i \in DOMAIN fr.pointers, fr.pointers[i].version # 0
                 PROVE  fr.pointers[i].version < Len(t.owners[fr.pointers[i].file])
      BY <1>2 DEF InRange
    <2>1. fr.pointers[i].version < Len(s.owners[fr.pointers[i].file])
      BY DEF FrameOK, InRange
    <2>2. CASE fr.pointers[i].file = f
      <3>1. Len(s.owners[f]) \in Nat /\ fr.pointers[i].version \in Nat
        <4>1. fr.pointers \in Seq(Pointers)
          BY DEF FrameType
        <4>2. fr.pointers[i] \in Pointers
          BY <4>1
        <4> QED
          BY <1>4, <1>6, <4>2 DEF Pointers
      <3> QED
        BY <1>3, <2>1, <2>2, <3>1
    <2>3. CASE fr.pointers[i].file # f
      BY <1>3, <1>4, <1>5, <2>1, <2>3
    <2> QED
      BY <2>2, <2>3
  <1>9. Latest(Advanced(fr), t, d)
    <2> SUFFICES ASSUME s.effects # {}, "nested" \notin d,
                        NEW i \in DOMAIN fr.pointers, i >= fr.next + 1
                 PROVE  fr.pointers[i].version =
                            IF t.owners[fr.pointers[i].file] # <<>>
                            THEN Len(t.owners[fr.pointers[i].file]) - 1 ELSE 0
      BY <1>2, <1>3 DEF Latest
    <2>1. i >= fr.next /\ i # fr.next
      BY <1>2
    <2>2. t.owners[fr.pointers[i].file] = s.owners[fr.pointers[i].file]
      BY <1>3, <1>4, <1>5, <2>1
    <2>3. fr.pointers[i].version = IF s.owners[fr.pointers[i].file] # <<>>
                                   THEN Len(s.owners[fr.pointers[i].file]) - 1 ELSE 0
      BY <2>1 DEF FrameOK, Latest
    <2> QED
      BY <2>2, <2>3
  <1>10. Fresh(found, Advanced(fr), t, d)
    <2> SUFFICES ASSUME d = {}, NEW e \in s.effects
                 PROVE  /\ e.kind # "suppressed"
                        /\ \E g \in DOMAIN found : \E i \in DOMAIN t.owners[g] :
                              /\ e.owner = t.owners[g][i]
                              /\ \/ i = Len(t.owners[g])
                                 \/ \E k \in DOMAIN fr.pointers :
                                       k < fr.next + 1 /\ fr.pointers[k].file = g
      BY <1>2, <1>3 DEF Fresh
    <2>1. e.kind # "suppressed"
      BY DEF FrameOK, Fresh
    <2>2. PICK g \in DOMAIN found : \E i \in DOMAIN s.owners[g] :
             /\ e.owner = s.owners[g][i]
             /\ \/ i = Len(s.owners[g])
                \/ \E k \in DOMAIN fr.pointers : k < fr.next /\ fr.pointers[k].file = g
      BY DEF FrameOK, Fresh
    <2>3. PICK i \in DOMAIN s.owners[g] :
             /\ e.owner = s.owners[g][i]
             /\ \/ i = Len(s.owners[g])
                \/ \E k \in DOMAIN fr.pointers : k < fr.next /\ fr.pointers[k].file = g
      BY <2>2
    <2>4. i \in DOMAIN t.owners[g] /\ e.owner = t.owners[g][i]
      BY <1>3, <1>4, <2>3
    <2>5. CASE g = f
      <3>1. fr.next < fr.next + 1 /\ fr.pointers[fr.next].file = g
        BY <1>2, <2>5 DEF f
      <3> QED
        BY <2>1, <2>4, <3>1
    <2>6. CASE g # f
      <3>1. t.owners[g] = s.owners[g]
        BY <1>3, <1>4, <2>6
      <3>2. \A k \in DOMAIN fr.pointers : k < fr.next => k < fr.next + 1
        BY <1>2
      <3> QED
        BY <2>1, <2>3, <2>4, <3>1, <3>2
    <2> QED
      BY <2>5, <2>6
  <1> QED
    BY <1>1, <1>2, <1>7, <1>8, <1>9, <1>10 DEF FrameOK

\* Apply gives the file of a pointer a revision, or leaves it.
LEMMA ApplyKeeps ==
    ASSUME IInv, Apply
    PROVE  IInv'
  <1> DEFINE f == Pointer.file
             v == Pointer.version
             o == get_file_owner(Pointer)
             seen == [matches EXCEPT ![o] = IF @ = "none" THEN Top.ranges ELSE @]
  <1>1. /\ outcome = "running" /\ Top.place = "apply" /\ Top.next <= Len(Top.pointers)
        /\ Available(Pointer)
    BY DEF Apply, Applying, At
  <1>2. /\ lazy_files \in Seq(Lazy) /\ files \in Seq(FileOwner) /\ matches \in Seq(Marks)
        /\ Len(matches) = Len(files) /\ state \in StateType
        /\ Good(lazy_files, state, files, odd) /\ Top \in FrameType
        /\ FrameOK(lazy_files, Top, state, odd) /\ step \in 0 .. MaxSteps
        /\ odd \subseteq {"touched", "nested"}
        /\ stack \in Seq(FrameType) /\ Top = stack[Len(stack)] /\ Len(stack) \in DOMAIN stack
    BY <1>1, RunningFacts
  <1>3. /\ lazy_files' = lazy_files /\ outcome' = outcome /\ step' = step
        /\ results' = results
        /\ IF Touches(o) /\ Live # {}
           THEN \E x \in Revisions(o) :
                   /\ files' = Append(files, x) /\ matches' = Append(seen, "none")
                   /\ state' = Pushed(state, files, f)
                   /\ odd' = odd \union IF LikeAnother(f, x) THEN {"touched"} ELSE {}
           ELSE matches' = seen /\ files' = files /\ state' = state /\ odd' = odd
    BY DEF Apply, Pushed
  <1>4. stack' = [stack EXCEPT ![Len(stack)] = Advanced(Top)]
    BY <1>2 DEF Apply, Advanced
  <1>5. Top.pointers \in Seq(Pointers) /\ Top.next \in Nat \ {0} /\ Top.number \in Nat
        /\ Top.ranges \in Marks
    BY <1>2 DEF FrameType
  <1>6. Top.next \in DOMAIN Top.pointers /\ Pointer = Top.pointers[Top.next]
    BY <1>1, <1>5 DEF Pointer
  <1>7. f \in DOMAIN lazy_files /\ v \in Nat /\ v < Len(state.owners[f])
        /\ o = state.owners[f][v + 1]
    <2>1. Pointer \in Pointers
      BY <1>5, <1>6
    <2>2. f \in DOMAIN lazy_files
      BY <1>2, <1>6 DEF FrameOK, Distinct
    <2>3. v \in Nat
      BY <2>1 DEF Pointers
    <2> QED
      BY <1>1, <2>2, <2>3 DEF Available, get_file_owner, Owners
  <1>8. /\ f \in DOMAIN state.owners /\ state.owners[f] \in Seq(Nat)
        /\ Registry(lazy_files, state, files) /\ Origin(lazy_files, state, files)
        /\ Len(state.owners) >= Len(lazy_files)
    BY <1>2, <1>7, FoundOwned DEF Good, Registry
  <1> HIDE DEF f, v
  <1>9. v + 1 \in DOMAIN state.owners[f] /\ state.owners[f] # <<>>
    BY <1>7, <1>8
  <1> HIDE DEF o
  <1>10. o \in DOMAIN files /\ files[o] \in FileOwner
    <2>1. o \in DOMAIN files
      BY <1>7, <1>8, <1>9 DEF Registry
    <2> QED
      BY <1>2, <2>1
  <1>11. seen \in Seq(Marks) /\ Len(seen) = Len(matches)
    <2> DEFINE y == IF matches[o] = "none" THEN Top.ranges ELSE matches[o]
    <2>1. o \in DOMAIN matches
      BY <1>2, <1>10
    <2>2. y \in Marks
      BY <1>2, <1>5, <2>1
    <2>3. seen = [matches EXCEPT ![o] = y]
      OBVIOUS
    <2> HIDE DEF y, seen
    <2>4. /\ [matches EXCEPT ![o] = y] \in Seq(Marks)
          /\ Len([matches EXCEPT ![o] = y]) = Len(matches)
      BY <1>2, <2>1, <2>2
    <2> QED
      BY <2>3, <2>4
  <1> HIDE DEF seen
  <1>12. Advanced(Top) \in FrameType /\ Advanced(Top).clone = Top.clone
         /\ Advanced(Top).place = "apply"
    BY <1>1, <1>2, <1>6, AdvancedFacts
  <1>13. CASE ~(Touches(o) /\ Live # {})
    <2>1. matches' = seen /\ files' = files /\ state' = state /\ odd' = odd
      BY <1>3, <1>13
    <2>2. GoesOn
      <3>1. Extends(files, files)
        BY DEF Extends
      <3> QED
        BY <1>1, <1>2, <1>3, <1>11, <2>1, <3>1 DEF GoesOn
    <2>3. FrameOK(lazy_files, Advanced(Top), state, odd)
      BY <1>1, <1>2, <1>6, SkippedFrame
    <2>4. Grown(state, state)
      BY <1>2, GrownSteps
    <2>5. Moves(Advanced(Top))
      BY <1>3, <1>4, <1>12, <2>1, <2>3, <2>4 DEF Moves
    <2> QED
      BY <1>1, <2>2, <2>5, TopMoves
  <1>14. CASE Touches(o) /\ Live # {}
    <2>1. PICK x \in Revisions(o) :
             /\ files' = Append(files, x) /\ matches' = Append(seen, "none")
             /\ state' = Pushed(state, files, f)
             /\ odd' = odd \union IF LikeAnother(f, x) THEN {"touched"} ELSE {}
      BY <1>3, <1>14
    <2>2. /\ x \in FileOwner
          /\ Within(files[o], x)
          /\ Edits(o, "node") \/ Edits(o, "filename") => x.edits # {}
      BY <1>2, <1>5, <1>8, <1>10, RevisionFacts
    <2>3. odd \subseteq odd' /\ odd' \subseteq {"touched", "nested"}
      BY <1>2, <2>1
    <2>4. "nested" \notin odd => o = LastOf(state, f)
      <3> SUFFICES ASSUME "nested" \notin odd PROVE o = LastOf(state, f)
        OBVIOUS
      <3>1. state.effects # {}
        BY <1>14 DEF Touches
      <3>2. Top.next >= Top.next
        BY <1>5
      <3>3. v = Len(state.owners[f]) - 1
        BY <1>2, <1>6, <1>9, <3>1, <3>2 DEF FrameOK, Latest, f, v
      <3>4. v + 1 = Len(state.owners[f])
        BY <1>7, <1>8, <3>3
      <3> QED
        BY <1>7, <3>4 DEF LastOf
    <2>5. "nested" \notin odd' => Within(files[LastOf(state, f)], x)
      BY <2>2, <2>3, <2>4
    <2>6. odd' = {} => x.edits # {}
      <3> SUFFICES ASSUME odd' = {} PROVE x.edits # {}
        OBVIOUS
      <3>1. odd = {} /\ o = LastOf(state, f)
        BY <2>3, <2>4
      <3>2. f = Top.pointers[Top.next].file
        BY <1>6 DEF f
      <3>3. Edits(o, "node") \/ Edits(o, "filename")
        BY <1>2, <1>6, <1>7, <1>9, <1>14, <3>1, <3>2, TouchesEdits
      <3> QED
        BY <2>2, <3>3
    <2>7. "touched" \notin odd' => \A g \in DOMAIN lazy_files \ {f} :
             /\ x.text \notin TextsOf(lazy_files, state, files, g)
             /\ x.name \notin NamesOf(state, files, g)
      <3> SUFFICES ASSUME "touched" \notin odd', NEW g \in DOMAIN lazy_files \ {f}
                   PROVE  /\ x.text \notin TextsOf(lazy_files, state, files, g)
                          /\ x.name \notin NamesOf(state, files, g)
        OBVIOUS
      <3>1. ~LikeAnother(f, x)
        BY <2>1
      <3>2. x.text \notin Texts(g) /\ x.name \notin Names(g)
        BY <3>1 DEF LikeAnother
      <3>3. /\ Texts(g) = TextsOf(lazy_files, state, files, g)
            /\ Names(g) = NamesOf(state, files, g)
        BY DEF Texts, Names, TextsOf, NamesOf, FoundText, FoundName, Owners
      <3> QED
        BY <3>2, <3>3
    <2>8. /\ state' \in StateType /\ files' \in Seq(FileOwner)
           /\ Good(lazy_files, state', files', odd')
           /\ Grown(state, state') /\ Extends(files, files')
      <3>1. Extends(files, files)
        BY DEF Extends
      <3>2. Good(lazy_files, state, files, odd')
        BY <1>2, <2>3, <3>1, GoodKept
      <3> QED
        BY <1>2, <1>7, <1>9, <2>1, <2>2, <2>5, <2>6, <2>7, <3>2, PushedGood
    <2>9. OneMore(state, state', files, files', f, x)
      <3>1. \A g \in DOMAIN state.owners : \A i \in DOMAIN state.owners[g] :
               state.owners[g][i] \in DOMAIN files
        BY <1>8 DEF Registry
      <3> QED
        BY <1>2, <1>8, <2>1, <2>2, <3>1, PushedVersions
    <2>10. FrameOK(lazy_files, Advanced(Top), state', odd')
      <3>1. OneMore(state, state', files, files', Top.pointers[Top.next].file, x)
        BY <1>6, <2>9 DEF f
      <3>2. FrameOK(lazy_files, Top, state, odd')
        BY <1>2, <2>3, FrameKept
      <3> QED
        BY <1>1, <1>2, <1>6, <1>8, <2>8, <3>1, <3>2, PushedFrame
    <2>11. matches' \in Seq(Marks) /\ Len(matches') = Len(files')
      <3>1. "none" \in Marks
        BY DEF Marks
      <3>2. matches' \in Seq(Marks) /\ Len(matches') = Len(seen) + 1
        BY <1>11, <2>1, <3>1
      <3>3. Len(files') = Len(files) + 1
        BY <1>2, <2>1, <2>2
      <3> QED
        BY <1>2, <1>11, <3>2, <3>3
    <2>12. GoesOn
      BY <1>1, <1>2, <1>3, <2>3, <2>11, <2>8 DEF GoesOn
    <2>13. Moves(Advanced(Top))
      BY <1>3, <1>4, <1>12, <2>10, <2>8 DEF Moves
    <2> QED
      BY <1>1, <2>12, <2>13, TopMoves
  <1> QED
    BY <1>13, <1>14

-----------------------------------------------------------------------------
(* The invariant.                                                          *)

\* It is kept by every step.
LEMMA NextInv ==
    ASSUME IInv, [Next]_vars
    PROVE  IInv'
  <1>1. CASE Enter
    BY <1>1, EnterKeeps
  <1>2. CASE Load
    BY <1>2, LoadKeeps
  <1>3. CASE Nest
    BY <1>3, NestMoves
  <1>4. CASE GoBack
    BY <1>4, GoBackMoves
  <1>5. CASE Rewrite
    BY <1>5, RewriteKeeps
  <1>6. CASE AskFile
    BY <1>6, AskFileKeeps
  <1>7. CASE Matches
    BY <1>7, MatchesKeeps
  <1>8. CASE Raise
    <2>1. outcome = "running" /\ Ends("error")
      BY <1>8 DEF Raise, At
    <2> QED
      BY <2>1, EndsMoves
  <1>9. CASE Fails
    <2>1. outcome = "running" /\ Ends("nothing")
      BY <1>9 DEF Fails, At
    <2> QED
      BY <2>1, EndsMoves
  <1>10. CASE Undo
    BY <1>10, UndoMoves
  <1>11. CASE Panics
    <2>1. outcome = "running" /\ Ends("panicked")
      BY <1>11 DEF Panics, Applying, At
    <2> QED
      BY <2>1, EndsMoves
  <1>12. CASE Apply
    BY <1>12, ApplyKeeps
  <1>13. CASE ApplyFails
    <2>1. outcome = "running" /\ Ends("error")
      BY <1>13 DEF ApplyFails, Applying, At
    <2> QED
      BY <2>1, EndsMoves
  <1>14. CASE PushNewFiles
    BY <1>14, PushNewFilesKeeps
  <1>15. CASE NextStep
    BY <1>15, NextStepKeeps
  <1>16. CASE Return
    BY <1>16, ReturnMoves
  <1>17. CASE Collect
    BY <1>17, CollectMoves
  <1>18. CASE Stay \/ UNCHANGED vars
    <2>1. /\ lazy_files' = lazy_files /\ files' = files /\ matches' = matches /\ state' = state
          /\ stack' = stack /\ step' = step /\ outcome' = outcome /\ results' = results
          /\ odd' = odd
      BY <1>18 DEF Stay, vars
    <2>2. Shapes'
      BY <2>1 DEF IInv, Shapes
    <2>3. Frames => Frames'
      BY <2>1 DEF Frames, Top
    <2>4. (Waiting => Waiting') /\ (Saved => Saved') /\ (Growing => Growing')
          /\ (Begins => Begins')
      BY <2>1 DEF Waiting, Saved, Growing, Begins
    <2>5. Alive'
      BY <2>1, <2>3, <2>4 DEF IInv, Alive
    <2>6. Owners' = Owners /\ \A o : Kind(o)' = Kind(o) /\ Result(o)' = Result(o)
      BY <2>1 DEF Owners, Kind, Result
    <2>7. Collected'
      BY <2>1, <2>6 DEF IInv, Collected
    <2> QED
      BY <2>2, <2>5, <2>7 DEF IInv
  <1>19. CASE Clone
    BY <1>19, CloneKeeps
  <1> QED
    BY <1>1, <1>2, <1>3, <1>4, <1>5, <1>6, <1>7, <1>8, <1>9, <1>10, <1>11, <1>12, <1>13,
       <1>14, <1>15, <1>16, <1>17, <1>18, <1>19 DEF Next

\* It holds always.
LEMMA InvAlways == Spec => []IInv
  <1>1. Init => IInv
    BY InitInv
  <1>2. IInv /\ [Next]_vars => IInv'
    BY NextInv
  <1> QED
    BY <1>1, <1>2, PTL DEF Spec

-----------------------------------------------------------------------------
(* What it says of the results.                                            *)

\* Types, and a pointer into a file that is loaded is to one of its versions, in each
\* of the Sequentials that are running.
LEMMA InvTyped ==
    ASSUME IInv
    PROVE  TypeOK
  <1>1. Shapes
    BY DEF IInv
  <1>2. /\ \A i \in DOMAIN files : files[i].new \in BOOLEAN
        /\ \A i \in DOMAIN matches : matches[i] \in {"none", "some", "suppressed"}
    <2>1. \A i \in DOMAIN files : files[i] \in FileOwner
      BY <1>1 DEF Shapes
    <2>2. \A i \in DOMAIN matches : matches[i] \in Marks
      BY <1>1 DEF Shapes
    <2> QED
      BY <2>1, <2>2 DEF FileOwner, Marks
  <1>3. Len(stack) \in 0 .. MaxDepth
    BY <1>1, BoundsAssumption DEF Shapes
  <1>4. state \in StateType
    BY <1>1 DEF Shapes
  <1>5. /\ \A f \in DOMAIN Owners : Owners[f] \in Seq(DOMAIN files)
        /\ state.effects \subseteq [owner: DOMAIN files,
                                    kind: {"node", "suppressed", "filename"}]
    <2>1. CASE outcome \in {"running", "ok"}
      <3>1. Registry(lazy_files, state, files)
        BY <2>1 DEF IInv, Alive, Good
      <3>2. \A f \in DOMAIN Owners : Owners[f] \in Seq(Nat)
        BY <1>4 DEF StateType, Owners
      <3>3. \A f \in DOMAIN Owners : \A i \in DOMAIN Owners[f] : Owners[f][i] \in DOMAIN files
        BY <3>1 DEF Registry, Owners
      <3>4. \A f \in DOMAIN Owners : Owners[f] \in Seq(DOMAIN files)
        <4> SUFFICES ASSUME NEW f \in DOMAIN Owners PROVE Owners[f] \in Seq(DOMAIN files)
          OBVIOUS
        <4> DEFINE s == Owners[f]
        <4>1. s \in Seq(Nat) /\ \A i \in DOMAIN s : s[i] \in DOMAIN files
          BY <3>2, <3>3
        <4> HIDE DEF s
        <4>2. s \in Seq(DOMAIN files)
          BY <4>1
        <4> QED
          BY <4>2 DEF s
      <3>5. state.effects \subseteq [owner: DOMAIN files, kind: Kinds]
        <4>1. state.effects \in SUBSET [owner: Nat, kind: Kinds]
          BY <1>4 DEF StateType
        <4>2. \A e \in state.effects : e.owner \in DOMAIN files
          BY <3>1 DEF Registry
        <4> QED
          BY <4>1, <4>2
      <3> QED
        BY <3>4, <3>5 DEF Kinds
    <2>2. CASE outcome \notin {"running", "ok"}
      <3>1. state = NoState
        BY <1>1, <2>2 DEF Shapes
      <3> QED
        BY <3>1 DEF NoState, Owners
    <2> QED
      BY <2>1, <2>2
  <1>6. ASSUME NEW d \in DOMAIN stack
        PROVE  /\ stack[d].place \in {"enter", "match", "apply", "stepped"}
               /\ stack[d].pointers \in Seq(Pointers)
               /\ \A i \in DOMAIN stack[d].pointers :
                     is_loaded(stack[d].pointers[i].file) => Available(stack[d].pointers[i])
               /\ stack[d].next \in 1 .. Len(stack[d].pointers) + 1
    <2>1. stack \in Seq(FrameType) /\ stack # <<>>
      BY <1>1 DEF Shapes
    <2>2. outcome \in {"running", "ok"}
      <3>1. outcome \notin {"running", "ok"} => stack = <<>>
        BY <1>1 DEF Shapes
      <3> QED
        BY <2>1, <3>1
    <2>3. /\ Frames /\ Waiting /\ Growing /\ Saved
          /\ Good(lazy_files, state, files, odd)
      BY <2>2 DEF IInv, Alive
    <2>4. stack[d] \in FrameType /\ DOMAIN stack = 1 .. Len(stack) /\ Len(stack) \in Nat
      BY <2>1
    <2>5. /\ stack[d].place \in Places /\ stack[d].pointers \in Seq(Pointers)
          /\ stack[d].next \in Nat \ {0}
      BY <2>4 DEF FrameType
    <2> DEFINE fr == stack[d]
               t == IF d = Len(stack) THEN state ELSE fr.clone
    <2>6. FrameOK(lazy_files, fr, t, odd)
      <3>1. CASE d = Len(stack)
        BY <2>3, <3>1 DEF Frames, Top
      <3>2. CASE d # Len(stack)
        <4>1. d < Len(stack)
          BY <2>4, <3>2
        <4>2. stack[d].place = "match"
          BY <2>3, <4>1 DEF Waiting
        <4> QED
          BY <2>3, <3>2, <4>2 DEF Frames
      <3> QED
        BY <3>1, <3>2
    <2>7. t \in StateType /\ Good(lazy_files, t, files, odd) /\ Grown(t, state)
      <3>1. CASE d = Len(stack)
        BY <1>4, <2>3, <3>1, GrownSteps
      <3>2. CASE d # Len(stack)
        <4>1. stack[d].clone \in StateType
          BY <2>4 DEF FrameType
        <4> QED
          BY <2>3, <3>2, <4>1 DEF Saved, Growing
      <3> QED
        BY <3>1, <3>2
    <2> HIDE DEF t, fr
    <2>8. ASSUME NEW i \in DOMAIN fr.pointers, is_loaded(fr.pointers[i].file)
          PROVE  Available(fr.pointers[i])
      <3> DEFINE f == fr.pointers[i].file
                 v == fr.pointers[i].version
      <3>1. f \in DOMAIN lazy_files
        BY <2>6 DEF FrameOK, Distinct
      <3>2. v \in Nat
        <4>1. fr.pointers[i] \in Pointers
          BY <2>5 DEF fr
        <4> QED
          BY <4>1 DEF Pointers
      <3>3. v = 0 \/ v < Len(t.owners[f])
        BY <2>6 DEF FrameOK, InRange
      <3>4. Owners[f] # <<>>
        BY <2>8 DEF is_loaded
      <3> HIDE DEF f, v
      <3>5. lazy_files \in Seq(Lazy)
        BY <1>1 DEF Shapes
      <3>6. f \in DOMAIN t.owners /\ t.owners[f] \in Seq(Nat)
        BY <2>7, <3>1, <3>5, FoundOwned DEF Good, Registry
      <3>7. f \in DOMAIN Owners /\ Owners[f] \in Seq(Nat)
        BY <1>4, <2>3, <3>1, <3>5, FoundOwned DEF Good, Registry, Owners
      <3>8. Len(t.owners[f]) <= Len(Owners[f])
        BY <2>7, <3>6 DEF Grown, Owners
      <3>9. Len(t.owners[f]) \in Nat /\ Len(Owners[f]) \in Nat \ {0}
        BY <3>4, <3>6, <3>7
      <3>10. v < Len(Owners[f])
        BY <3>2, <3>3, <3>8, <3>9
      <3> QED
        BY <3>10 DEF Available, f, v
    <2>9. fr.next \in 1 .. Len(fr.pointers) + 1
      <3>1. fr.next <= Len(fr.pointers) + 1
        BY <2>6 DEF FrameOK, Counted
      <3>2. fr.next \in Nat \ {0} /\ Len(fr.pointers) \in Nat
        BY <2>5 DEF fr
      <3> QED
        BY <3>1, <3>2
    <2> QED
      BY <2>5, <2>8, <2>9 DEF fr, Places
  <1>7. state.new_files \in Nat /\ state.asked \in Nat
    BY <1>4 DEF StateType
  <1> QED
    BY <1>1, <1>2, <1>3, <1>5, <1>6, <1>7 DEF TypeOK, Shapes

\* The results, as they were collected: k is the order of the files they are of.
Reported(k) ==
    /\ DOMAIN k = DOMAIN results
    /\ \A i \in DOMAIN results : /\ k[i] \in DOMAIN Owners
                                 /\ results[i] = Result(Owners[k[i]])
    /\ \A i, j \in DOMAIN results : k[i] = k[j] => i = j
    /\ \A f \in DOMAIN Owners : Kind(Owners[f]) # "none" => \E i \in DOMAIN results : k[i] = f

\* What execute returned is a result of each file that has one.
LEMMA ResultsReported ==
    ASSUME IInv, outcome = "ok"
    PROVE  /\ \E k : Reported(k)
           /\ Good(lazy_files, state, files, odd) /\ Clean(state) /\ state \in StateType
           /\ lazy_files \in Seq(Lazy) /\ files \in Seq(FileOwner)
           /\ Owners \in Seq(Seq(Nat)) /\ DOMAIN Owners = 1 .. Len(Owners) /\ Len(Owners) \in Nat
           /\ \A f \in DOMAIN Owners : /\ Owners[f] \in Seq(Nat) /\ Len(Owners[f]) \in Nat \ {0}
                                       /\ 1 \in DOMAIN Owners[f]
                                       /\ Len(Owners[f]) \in DOMAIN Owners[f]
                                       /\ DOMAIN Owners[f] = 1 .. Len(Owners[f])
  <1> DEFINE all == [f \in DOMAIN Owners |-> Result(Owners[f])]
             K == {f \in DOMAIN Owners : Kind(Owners[f]) # "none"}
  <1>1. /\ Clean(state) /\ \A f \in DOMAIN Owners : Owners[f] # <<>>
        /\ results = Subsequence(all, K)
    BY DEF IInv, Collected
  <1>2. Good(lazy_files, state, files, odd)
    BY DEF IInv, Alive
  <1>3. state \in StateType /\ lazy_files \in Seq(Lazy) /\ files \in Seq(FileOwner)
    BY DEF IInv, Shapes
  <1>4. Owners \in Seq(Seq(Nat)) /\ DOMAIN Owners = 1 .. Len(Owners) /\ Len(Owners) \in Nat
    <2>1. Owners \in Seq(Seq(Nat))
      BY <1>3 DEF StateType, Owners
    <2> QED
      BY <2>1
  <1>5. ASSUME NEW f \in DOMAIN Owners
        PROVE  /\ Owners[f] \in Seq(Nat) /\ Len(Owners[f]) \in Nat \ {0}
               /\ 1 \in DOMAIN Owners[f] /\ Len(Owners[f]) \in DOMAIN Owners[f]
               /\ DOMAIN Owners[f] = 1 .. Len(Owners[f])
    <2> DEFINE s == Owners[f]
    <2>1. s \in Seq(Nat) /\ s # <<>>
      BY <1>1, <1>4
    <2> HIDE DEF s
    <2>2. /\ Len(s) \in Nat \ {0} /\ 1 \in DOMAIN s /\ Len(s) \in DOMAIN s
          /\ DOMAIN s = 1 .. Len(s)
      BY <2>1
    <2> QED
      BY <2>1, <2>2 DEF s
  <1>6. \E k : Reported(k)
    <2>1. K \in SUBSET (1 .. Len(Owners))
      BY <1>4
    <2>2. \A f \in K : f \in DOMAIN Owners /\ all[f] = Result(Owners[f])
      OBVIOUS
    <2>3. \A f \in DOMAIN Owners : Kind(Owners[f]) # "none" => f \in K
      OBVIOUS
    <2> HIDE DEF all, K
    <2>4. Cardinality(K) \in Nat /\ \E k : PicksInOrder(all, K, k)
      BY <1>4, <2>1, SubsequenceOrder
    <2>5. PICK k : PicksInOrder(all, K, k)
      BY <2>4
    <2>6. /\ k \in [1 .. Cardinality(K) -> K]
          /\ results = [i \in 1 .. Cardinality(K) |-> all[k[i]]]
          /\ \A i, j \in 1 .. Cardinality(K) : k[i] = k[j] => i = j
          /\ \A f \in K : \E i \in 1 .. Cardinality(K) : k[i] = f
      BY <1>1, <2>5 DEF PicksInOrder
    <2>7. DOMAIN results = 1 .. Cardinality(K) /\ DOMAIN k = 1 .. Cardinality(K)
      BY <2>6
    <2>8. \A i \in DOMAIN results : k[i] \in K /\ results[i] = all[k[i]]
      BY <2>6, <2>7
    <2>9. Reported(k)
      BY <2>2, <2>3, <2>6, <2>7, <2>8 DEF Reported
    <2> QED
      BY <2>9
  <1> QED
    BY <1>1, <1>2, <1>3, <1>4, <1>5, <1>6

\* A rewrite is from the first version of a file to its last, which is another one.
LEMMA RewritesFrom ==
    ASSUME IInv, NEW i \in Rewrites
    PROVE  \E f \in DOMAIN Owners :
              /\ Len(Owners[f]) > 1
              /\ results[i].from = Owners[f][1] /\ results[i].to = Owners[f][Len(Owners[f])]
  <1>1. outcome = "ok"
    <2>1. outcome # "ok" => results = <<>>
      BY DEF IInv, Shapes
    <2>2. results # <<>>
      BY DEF Rewrites
    <2> QED
      BY <2>1, <2>2
  <1>2. PICK k : Reported(k)
    BY <1>1, ResultsReported
  <1>3. i \in DOMAIN results /\ results[i].kind = "rewrite"
    BY DEF Rewrites
  <1> DEFINE f == k[i]
  <1>4. f \in DOMAIN Owners /\ results[i] = Result(Owners[f])
    BY <1>2, <1>3 DEF Reported
  <1> HIDE DEF f
  <1>5. /\ results[i].from = Owners[f][1] /\ results[i].to = Owners[f][Len(Owners[f])]
        /\ Kind(Owners[f]) = "rewrite"
    BY <1>3, <1>4 DEF Result
  <1>6. Len(Owners[f]) > 1
    BY <1>5 DEF Kind
  <1> QED
    BY <1>4, <1>5, <1>6

-----------------------------------------------------------------------------
(* The theorems.                                                           *)

\* The variables have their types, and a pointer into a file that is loaded is to one
\* of its versions.
THEOREM StepsTyped == Spec => []TypeOK
  <1>1. IInv => TypeOK
    BY InvTyped
  <1> QED
    BY <1>1, InvAlways, PTL

\* exec_step leaves nothing to the step behind it: an outermost step begins without
\* an effect and without a wanted file of an earlier one.
THEOREM StepStartsCleanAlways == Spec => []StepStartsClean
  <1>1. IInv => StepStartsClean
    <2> SUFFICES ASSUME IInv, At("enter"), Len(stack) = 1
                 PROVE  state.effects = {} /\ state.new_files = 0
      BY DEF StepStartsClean
    <2>1. outcome = "running" /\ stack[1].place = "enter"
      BY DEF At, Top
    <2>2. Clean(state)
      BY <2>1 DEF IInv, Alive, Begins
    <2> QED
      BY <2>2 DEF Clean
  <1> QED
    BY <1>1, InvAlways, PTL

\* What is reported for a file has the edits of all its revisions, unless a step goes
\* on to rewrite the file after a Sequential within it did.
THEOREM EditsSurviveAlways == Spec => []EditsSurvive
  <1>1. IInv => EditsSurvive
    <2> SUFFICES ASSUME IInv, "nested" \notin odd, NEW i \in Rewrites, NEW f \in DOMAIN Owners,
                        results[i].from \in Range(Owners[f]), NEW o \in Range(Owners[f])
                 PROVE  Within(files[o], files[results[i].to])
      BY DEF EditsSurvive, Within
    <2>1. outcome = "ok"
      <3>1. outcome # "ok" => results = <<>>
        BY DEF IInv, Shapes
      <3>2. results # <<>>
        BY DEF Rewrites
      <3> QED
        BY <3>1, <3>2
    <2>2. /\ Apart(state) /\ Survive(state, files)
          /\ \A g \in DOMAIN Owners : /\ 1 \in DOMAIN Owners[g] /\ Len(Owners[g]) \in Nat \ {0}
                                      /\ Len(Owners[g]) \in DOMAIN Owners[g]
                                      /\ DOMAIN Owners[g] = 1 .. Len(Owners[g])
      BY <2>1, ResultsReported DEF Good
    <2>3. PICK g \in DOMAIN Owners :
             results[i].from = Owners[g][1] /\ results[i].to = Owners[g][Len(Owners[g])]
      BY RewritesFrom
    <2>4. PICK j \in DOMAIN Owners[f] : results[i].from = Owners[f][j]
      BY DEF Range
    <2>5. f = g
      BY <2>2, <2>3, <2>4 DEF Apart, Owners
    <2>6. PICK m \in DOMAIN Owners[f] : o = Owners[f][m]
      BY DEF Range
    <2>7. m <= Len(Owners[f])
      BY <2>2
    <2> QED
      BY <2>2, <2>3, <2>5, <2>6, <2>7 DEF Survive, Owners
  <1> QED
    BY <1>1, InvAlways, PTL

\* A file is reported as rewritten only if a step edited it, whether or not that gave it
\* another text or name, when nothing happened that alone makes exec_step push a revision.
THEOREM OnlyEditedRewrittenAlways == Spec => []OnlyEditedRewritten
  <1>1. IInv => OnlyEditedRewritten
    <2> SUFFICES ASSUME IInv, odd = {}, NEW i \in Rewrites
                 PROVE  files[results[i].from].edits # files[results[i].to].edits
      BY DEF OnlyEditedRewritten
    <2>1. outcome = "ok"
      <3>1. outcome # "ok" => results = <<>>
        BY DEF IInv, Shapes
      <3>2. results # <<>>
        BY DEF Rewrites
      <3> QED
        BY <3>1, <3>2
    <2>2. /\ Revised(state, files) /\ Origin(lazy_files, state, files)
          /\ Registry(lazy_files, state, files)
          /\ lazy_files \in Seq(Lazy) /\ state \in StateType
          /\ \A g \in DOMAIN Owners : /\ 1 \in DOMAIN Owners[g] /\ Len(Owners[g]) \in Nat \ {0}
                                      /\ Len(Owners[g]) \in DOMAIN Owners[g]
                                      /\ Owners[g] \in Seq(Nat)
      BY <2>1, ResultsReported DEF Good
    <2>3. PICK f \in DOMAIN Owners :
             /\ Len(Owners[f]) > 1
             /\ results[i].from = Owners[f][1] /\ results[i].to = Owners[f][Len(Owners[f])]
      BY RewritesFrom
    <2>4. f \in DOMAIN lazy_files
      <3>1. f > Len(lazy_files) \/ f \in DOMAIN lazy_files
        BY <2>2, FoundOwned DEF Registry, Owners
      <3>2. f > Len(lazy_files) => Len(Owners[f]) = 1
        BY <2>2 DEF Registry, Owners
      <3> QED
        BY <2>3, <3>1, <3>2
    <2>5. files[results[i].from].edits = {}
      <3>1. Owners[f] # <<>>
        BY <2>3
      <3> QED
        BY <2>2, <2>3, <2>4, <3>1 DEF Origin, Owners
    <2>6. files[results[i].to].edits # {}
      BY <2>2, <2>3 DEF Revised, Owners
    <2> QED
      BY <2>5, <2>6
  <1> QED
    BY <1>1, InvAlways, PTL

\* Each new file that a step asked for is reported once, however many steps follow,
\* and none that an undone Sequential asked for.
THEOREM CreatedOnceAlways == Spec => []CreatedOnce
  <1>1. IInv => CreatedOnce
    <2> SUFFICES ASSUME IInv, outcome = "ok"
                 PROVE  Cardinality({i \in DOMAIN results : results[i].kind = "create"})
                            = state.asked
      BY DEF CreatedOnce
    <2> DEFINE C == {i \in DOMAIN results : results[i].kind = "create"}
               a == Len(lazy_files) + 1
               b == Len(Owners)
    <2>1. /\ Registry(lazy_files, state, files) /\ Clean(state) /\ state \in StateType
          /\ lazy_files \in Seq(Lazy)
          /\ Owners \in Seq(Seq(Nat)) /\ DOMAIN Owners = 1 .. b /\ b \in Nat
          /\ \A f \in DOMAIN Owners : Len(Owners[f]) \in Nat \ {0}
      BY ResultsReported DEF Good
    <2>2. PICK k : Reported(k)
      BY ResultsReported
    <2>3. /\ \A f \in DOMAIN lazy_files : f \in DOMAIN Owners
          /\ \A f \in DOMAIN Owners :
                f \in Nat \ {0} /\ (f > Len(lazy_files) \/ f \in DOMAIN lazy_files)
          /\ Len(lazy_files) \in Nat /\ DOMAIN lazy_files = 1 .. Len(lazy_files)
      BY <2>1, FoundOwned DEF Registry, Owners
    <2>4. \A f \in DOMAIN Owners : Kind(Owners[f]) = "create" <=> f \in a .. b
      <3> SUFFICES ASSUME NEW f \in DOMAIN Owners
                   PROVE  Kind(Owners[f]) = "create" <=> f \in a .. b
        OBVIOUS
      <3>1. CASE f > Len(lazy_files)
        <4>1. Len(Owners[f]) = 1 /\ files[Owners[f][1]].new
          BY <2>1, <3>1 DEF Registry, Owners
        <4>2. Kind(Owners[f]) = "create"
          BY <4>1 DEF Kind
        <4>3. f \in a .. b
          BY <2>1, <2>3, <3>1
        <4> QED
          BY <4>2, <4>3
      <3>2. CASE f \in DOMAIN lazy_files
        <4>1. Owners[f] # <<>>
          BY <2>1
        <4>2. ~files[Owners[f][1]].new
          BY <2>1, <3>2, <4>1 DEF Registry, Owners
        <4>3. Kind(Owners[f]) # "create"
          BY <4>2 DEF Kind
        <4>4. f \notin a .. b
          BY <2>3, <3>2
        <4> QED
          BY <4>3, <4>4
      <3> QED
        BY <2>3, <3>1, <3>2
    <2>5. /\ \A i \in DOMAIN results : /\ k[i] \in DOMAIN Owners
                                       /\ results[i].kind = Kind(Owners[k[i]])
          /\ \A i, j \in DOMAIN results : k[i] = k[j] => i = j
          /\ \A f \in DOMAIN Owners :
                Kind(Owners[f]) # "none" => \E i \in DOMAIN results : k[i] = f
      BY <2>2 DEF Reported, Result
    <2> DEFINE g == [i \in C |-> k[i]]
    <2>6. g \in [C -> a .. b]
      BY <2>4, <2>5
    <2>7. \A i, j \in C : g[i] = g[j] => i = j
      BY <2>5
    <2>8. \A f \in a .. b : \E i \in C : g[i] = f
      <3> SUFFICES ASSUME NEW f \in a .. b PROVE \E i \in C : g[i] = f
        OBVIOUS
      <3>1. f \in DOMAIN Owners
        BY <2>1, <2>3
      <3>2. Kind(Owners[f]) = "create"
        BY <2>4, <3>1
      <3>3. PICK i \in DOMAIN results : k[i] = f
        BY <2>5, <3>1, <3>2
      <3>4. i \in C
        BY <2>5, <3>2, <3>3
      <3> QED
        BY <3>3, <3>4
    <2> HIDE DEF g, C
    <2>9. g \in Injection(C, a .. b) /\ g \in Surjection(C, a .. b)
      <3>1. g \in Bijection(C, a .. b)
        BY <2>6, <2>7, <2>8, Fun_IsBij
      <3> QED
        BY <3>1 DEF Bijection
    <2>10. /\ a \in Int /\ b \in Int /\ IsFiniteSet(a .. b)
           /\ Cardinality(a .. b) = IF a > b THEN 0 ELSE b - a + 1
      <3>1. a \in Int /\ b \in Int
        BY <2>1, <2>3
      <3> HIDE DEF a, b
      <3> QED
        BY <3>1, FS_Interval
    <2>11. Cardinality(C) = Cardinality(a .. b)
      <3> HIDE DEF a, b
      <3> QED
        BY <2>9, <2>10, FS_Injection
    <2>12. /\ b >= Len(lazy_files) /\ b + state.new_files = Len(lazy_files) + state.asked
           /\ state.new_files = 0 /\ state.asked \in Nat
      BY <2>1 DEF Registry, Clean, Owners, StateType
    <2>13. b = Len(lazy_files) + state.asked
      BY <2>1, <2>12
    <2>14. Cardinality(C) = state.asked
      <3> DEFINE n == Len(lazy_files)
                 m == state.asked
      <3>1. n \in Nat /\ m \in Nat /\ a = n + 1 /\ b = n + m
        BY <2>3, <2>12, <2>13
      <3>2. Cardinality(C) = IF a > b THEN 0 ELSE b - a + 1
        BY <2>10, <2>11
      <3> HIDE DEF a, b, n, m
      <3>3. Cardinality(C) = m
        BY <3>1, <3>2
      <3> QED
        BY <3>3 DEF m
    <2> QED
      BY <2>14 DEF C
  <1> QED
    BY <1>1, InvAlways, PTL
=============================================================================
