------------------------------ MODULE Matching ------------------------------
(***************************************************************************)
(* How a compiled pattern is matched with a node of a syntax tree: the     *)
(* Matcher and Evaluator implementations of grit-pattern-matcher, with the *)
(* bindings they add to the State and the effects they append to it.       *)
(*                                                                         *)
(* A pattern may fail half way.  The State is one mutable value, so every  *)
(* pattern that goes on after a failure has to work on a clone and decide  *)
(* which of the two to keep; And, Every and Rewrite do not, and rely on    *)
(* the patterns around them.  Definitions have frames of their own, and a  *)
(* parameter whose argument is a variable is kept in step with it by       *)
(* "mirrors".  Execute is that code; Means, below it, is what the language *)
(* says, without frames, clones and mirrors: the two are compared.         *)
(*                                                                         *)
(* Execute is for patterns whose conditions match and rewrite variables    *)
(* that have a value, and without definitions that call themselves.        *)
(*                                                                         *)
(* Left out: constants, maps, snippets, accessors, files, what a function  *)
(* returns, errors, and the value history (it only feeds the reports).     *)
(* The replacement of a rewrite is left out too: an effect is the binding  *)
(* that gets rewritten.                                                    *)
(***************************************************************************)
EXTENDS Naturals, FiniteSets, SequencesExt, TLC

CONSTANTS
    Kind,         \* the sort of each node; nodes are numbered in pre-order
    Text,         \* the text of each node
    Kids,         \* for each node, a record of the children in each field
    FieldOrder,   \* the fields, in the order of the text
    ListFields,   \* those that hold a list
    Defs,         \* for each definition: body, variables, predicate or not
    MainVars,     \* how many variables the pattern itself has
    Patterns      \* the patterns to match

Nodes == DOMAIN Kind
Scopes == 0 .. Len(Defs)          \* scope 0 is that of the pattern itself
PredicateScopes == {d \in DOMAIN Defs : Defs[d].predicate}
VarsOf(s) == IF s = 0 THEN MainVars ELSE Defs[s].vars
Var(s, i) == [op |-> "var", scope |-> s, index |-> i]
Variables == {Var(s, i) : s \in Scopes, i \in 1 .. 3}
NoPattern == [op |-> "none"]

ASSUME TreeAssumption ==
    /\ Nodes = 1 .. Cardinality(Nodes)
    /\ \A s \in Scopes : VarsOf(s) \in 1 .. 3
    /\ \A n \in Nodes : DOMAIN Kids[n] \subseteq ToSet(FieldOrder)

-----------------------------------------------------------------------------
(* Nodes and bindings: a node, or the list in a field of a node. *)

Children == [n \in Nodes |->
    FlattenSeq([i \in DOMAIN FieldOrder |->
                    IF FieldOrder[i] \in DOMAIN Kids[n]
                    THEN Kids[n][FieldOrder[i]] ELSE <<>>])]
UpFrom[n \in Nodes] ==             \* n and its ancestors
    <<n>> \o (IF n = 1 THEN <<>>
              ELSE UpFrom[CHOOSE p \in Nodes : n \in ToSet(Children[p])])
Below == [n \in Nodes |-> {m \in Nodes : n \in ToSet(UpFrom[m])}]

NodeBinding(n) == [node |-> n, field |-> "self"]
IsNode(b) == b.field = "self"
Items(b) == IF IsNode(b) THEN <<>> ELSE Kids[b.node][b.field]
Bindings == {NodeBinding(n) : n \in Nodes}
            \union UNION {{[node |-> n, field |-> f] :
                              f \in DOMAIN Kids[n] \intersect ListFields} :
                          n \in Nodes}
FieldBinding(n, f) ==
    IF f \in ListFields THEN [node |-> n, field |-> f]
    ELSE NodeBinding(Kids[n][f][1])

\* The nodes a binding is read as when one node is needed: a list of one
\* counts as that one.
Singleton(b) ==
    IF IsNode(b) THEN {b.node}
    ELSE IF Len(Items(b)) = 1 THEN {Items(b)[1]} ELSE {}
TextsOf(b) ==
    IF IsNode(b) THEN <<Text[b.node]>>
    ELSE [i \in DOMAIN Items(b) |-> Text[Items(b)[i]]]
Equivalent(b, c) ==
    /\ TextsOf(b) = TextsOf(c)
    /\ \/ Singleton(b) # {}
       \/ ~ IsNode(b) /\ ~ IsNode(c)
\* The node, for a binding that has a parent to start a "within" from.
ParentChain(b) == IF IsNode(b) THEN Tail(UpFrom[b.node]) ELSE UpFrom[b.node]

-----------------------------------------------------------------------------
(* The State: for every scope a stack of frames, and the effects. *)

Content(v, st) == Last(st.frames[v.scope])[v.index]
WithContent(v, c, st) ==
    [st EXCEPT !.frames[v.scope][Len(st.frames[v.scope])][v.index] = c]
WithValue(v, r, st) == WithContent(v, [Content(v, st) EXCEPT !.value = r], st)
PushBinding(v, b, st) ==
    WithContent(v, [Content(v, st) EXCEPT !.value = Append(@, b)], st)
RECURSIVE Trace(_, _)
Trace(v, st) ==
    LET arg == Content(v, st).pattern
    IN  IF arg.op = "var" THEN Trace(arg, st) ELSE v
EnterScope(s, args, st) ==
    LET old == Last(st.frames[s])
        Entered(i) ==
            [pattern |-> IF i \in DOMAIN args THEN args[i] ELSE NoPattern,
             value   |-> <<>>,
             mirrors |-> IF i \in DOMAIN args /\ args[i].op = "var"
                         THEN Append(old[i].mirrors, args[i])
                         ELSE old[i].mirrors]
    IN  [st EXCEPT !.frames[s] =
            Append(@, [i \in DOMAIN old |-> Entered(i)])]
\* Mutation: the frame of the call stays on the stack.
ExitScopeOnly(s, st) == st
ExitScope(s, st) == [st EXCEPT !.frames[s] = Front(@)]
Rewritten(r, st) == [st EXCEPT !.effects = @ \o r]

Yes(st) == [ok |-> TRUE, st |-> st]
No(st) == [ok |-> FALSE, st |-> st]

-----------------------------------------------------------------------------
(* Execute: pattern p on the value r (a list of bindings, the last of which *)
(* counts) in the state st.  A predicate ignores r.                         *)

RECURSIVE Execute(_, _, _), ExecuteAssoc(_, _, _), Walk(_, _, _, _)

\* On a clone that is dropped when the pattern fails.
Try(p, r, st) ==
    LET res == Execute(p, r, st) IN IF res.ok THEN res ELSE No(st)

\* On every value in turn, keeping what the successful ones did.
TryEach(p, rs, st) ==
    FoldLeft(LAMBDA acc, r :
                LET res == Try(p, r, acc.st)
                IN  [ok |-> acc.ok \/ res.ok, st |-> res.st],
             No(st), rs)
AsValues(ns) == [i \in DOMAIN ns |-> <<NodeBinding(ns[i])>>]

And(ps, r, st) ==
    FoldLeft(LAMBDA acc, p : IF acc.ok THEN Execute(p, r, acc.st) ELSE acc,
             Yes(st), ps)
OtherKind(p, r) ==
    /\ p.op = "node"
    /\ IsNode(Last(r))
    /\ Kind[Last(r).node] # p.kind
\* Mutation: the alternatives share one state.
OrShared(ps, r, st) ==
    FoldLeft(LAMBDA acc, p :
                IF acc.ok \/ OtherKind(p, r) THEN acc
                ELSE Execute(p, r, acc.st),
             No(st), ps)
Or(ps, r, st) ==
    FoldLeft(LAMBDA acc, p :
                IF acc.ok \/ OtherKind(p, r) THEN acc
                ELSE Try(p, r, acc.st),
             No(st), ps)
AnyOf(ps, r, st) ==
    FoldLeft(LAMBDA acc, p :
                LET res == Try(p, r, acc.st)
                IN  [ok |-> acc.ok \/ res.ok, st |-> res.st],
             No(st), ps)
Not(p, r, st) == IF Execute(p, r, st).ok THEN No(st) ELSE Yes(st)
Maybe(p, r, st) == Yes(Try(p, r, st).st)
Where(p, side, r, st) ==
    LET res == Execute(p, r, st)
        con == Execute(side, r, res.st)
    IN  IF ~ res.ok \/ ~ con.ok THEN No(st) ELSE con
If(if, then, else, r, st) ==
    LET con == Execute(if, r, st)
    IN  IF con.ok THEN Execute(then, r, con.st) ELSE Execute(else, r, st)

Leaf(p, r, st) ==
    IF \E n \in Singleton(Last(r)) : Kind[n] = "id" /\ Text[n] = p.text
    THEN Yes(st) ELSE No(st)
AstNode(p, r, st) ==
    LET node == Singleton(Last(r))
        Field(acc, a) ==
            LET n == CHOOSE n \in node : TRUE
            IN  IF acc.ok
                THEN Execute(a.pattern, <<FieldBinding(n, a.field)>>, acc.st)
                ELSE acc
        res == FoldLeft(Field, Yes(st), p.args)
    IN  IF (\E n \in node : Kind[n] = p.kind) /\ res.ok THEN res ELSE No(st)

\* The cursor's walk over a node and what is below it.  Where "until" holds
\* the children are skipped; what it binds is dropped.
Walk(p, until, n, st) ==
    LET here == Try(p, <<NodeBinding(n)>>, st)
        stop == Execute(until, <<NodeBinding(n)>>, here.st).ok
    IN  IF stop THEN here
        ELSE FoldLeft(LAMBDA acc, m :
                        LET res == Walk(p, until, m, acc.st)
                        IN  [ok |-> acc.ok \/ res.ok, st |-> res.st],
                      here, Children[n])
ContainsBelow(p, until, r, st) ==
    LET b == Last(r)
    IN  IF IsNode(b) THEN Walk(p, until, b.node, st)
        ELSE FoldLeft(LAMBDA acc, n :
                        LET res == Walk(p, until, n, acc.st)
                        IN  [ok |-> acc.ok \/ res.ok, st |-> res.st],
                      No(st), Items(b))
\* Upwards, "until" is only asked where the pattern failed, and in place.
WithinAbove(p, until, r, st) ==
    LET self == Try(p, r, st)
        Up(acc, n) ==
            LET v    == <<NodeBinding(n)>>
                res  == Try(p, v, acc.st)
                stop == Execute(until, v, acc.st)
            IN  IF acc.stop THEN acc
                ELSE IF res.ok THEN [ok |-> TRUE, st |-> res.st, stop |-> FALSE]
                ELSE [ok |-> acc.ok, st |-> stop.st, stop |-> stop.ok]
        end == FoldLeft(Up, [ok |-> self.ok, st |-> self.st, stop |-> FALSE],
                        ParentChain(Last(r)))
    IN  IF end.ok THEN Yes(end.st) ELSE No(st)
SomeItem(p, r, st) == TryEach(p, AsValues(Items(Last(r))), st)
EveryItem(p, r, st) ==
    IF IsNode(Last(r)) THEN No(st)
    ELSE FoldLeft(LAMBDA acc, v :
                    IF acc.ok THEN Execute(p, v, acc.st) ELSE acc,
                  Yes(st), AsValues(Items(Last(r))))

\* List patterns.  After dots that are not the last but one, the positions of
\* the next pattern are tried in turn, all of them in one working state.
ExecuteAssoc(ps, vs, st) ==
    LET dots(i) == i \in DOMAIN ps /\ ps[i].op = "dots"
        Keep(res) == IF res.ok THEN res ELSE No(st)
        At(acc, i) ==
            LET head == Execute(ps[2], vs[i], acc.st)
            IN  IF acc.ok THEN acc
                ELSE IF ~ head.ok THEN head
                ELSE ExecuteAssoc(SubSeq(ps, 3, Len(ps)),
                                  SubSeq(vs, i + 1, Len(vs)), head.st)
        OneByOne ==
            LET head == Execute(ps[1], vs[1], st)
            IN  IF head.ok THEN ExecuteAssoc(Tail(ps), Tail(vs), head.st)
                ELSE head
    IN  CASE ps = <<>> -> IF vs = <<>> THEN Yes(st) ELSE No(st)
          [] dots(1) /\ Len(ps) = 1 -> Yes(st)
          [] ~ dots(1) /\ dots(2) /\ Len(ps) = 2 /\ vs # <<>> ->
                 Keep(Execute(ps[1], vs[1], st))
          [] dots(1) /\ Len(ps) = 2 /\ vs # <<>> ->
                 Keep(Execute(ps[2], Last(vs), st))
          [] dots(1) /\ Len(ps) > 2 ->
                 Keep(FoldLeft(At, No(st), [i \in DOMAIN vs |-> i]))
          [] ~ dots(1) /\ ~ (dots(2) /\ Len(ps) = 2) /\ vs # <<>> ->
                 Keep(OneByOne)
          [] OTHER -> No(st)
ListPattern(ps, r, st) ==
    IF IsNode(Last(r)) THEN No(st)
    ELSE ExecuteAssoc(ps, AsValues(Items(Last(r))), st)

\* Mutation: a variable that is bound takes any binding.
VariableTakesAny(v, r, st) ==
    LET c == Content(v, st)
        arg == IF c.pattern.op = "none" THEN Yes(st)
               ELSE Execute(c.pattern, r, st)
    IN  IF c.value # <<>> THEN Yes(PushBinding(v, Last(r), st))
        ELSE IF arg.ok THEN Yes(WithValue(v, r, arg.st)) ELSE arg
\* A variable.  Bound: the text must be the same, and the binding is added
\* to it and to its mirrors.  Unbound: its argument, if any, must match.
Variable(v, r, st) ==
    LET c == Content(v, st)
        b == Last(r)
        Mirror(s, m) ==
            IF Content(m, s).value = <<>> THEN s ELSE PushBinding(m, b, s)
        arg == IF c.pattern.op = "none" THEN Yes(st)
               ELSE Execute(c.pattern, r, st)
    IN  IF c.value # <<>>
        THEN IF Equivalent(Last(c.value), b)
             THEN Yes(FoldLeft(Mirror, PushBinding(v, b, st), c.mirrors))
             ELSE No(st)
        ELSE IF arg.ok THEN Yes(WithValue(v, r, arg.st)) ELSE arg

\* A pattern definition, or a bubble, leaves its frame when it is done.
Call(d, args, r, st) ==
    LET res == Execute(Defs[d].body, r, EnterScope(d, args, st))
    IN  [ok |-> res.ok, st |-> ExitScope(d, res.st)]
\* A predicate definition leaves it on the stack.
PrCall(d, args, r, st) == Execute(Defs[d].body, r, EnterScope(d, args, st))

RewritePattern(left, r, st) ==
    LET res == Execute(left, r, st)
    IN  IF res.ok THEN Yes(Rewritten(r, res.st)) ELSE res
\* "$v => ..." and "$v <: p" as conditions, for a variable that has a value.
RewriteVariable(v, st) == Yes(Rewritten(Content(Trace(v, st), st).value, st))
MatchVariable(v, p, st) == Execute(p, Content(Trace(v, st), st).value, st)

Execute(p, r, st) ==
    CASE p.op = "top"        -> Yes(st)
      [] p.op = "bottom"     -> No(st)
      [] p.op = "leaf"       -> Leaf(p, r, st)
      [] p.op = "node"       -> AstNode(p, r, st)
      [] p.op = "var"        -> Variable(p, r, st)
      [] p.op = "and"        -> And(p.ps, r, st)
      [] p.op = "or"         -> Or(p.ps, r, st)
      [] p.op = "any"        -> AnyOf(p.ps, r, st)
      [] p.op = "not"        -> Not(p.p, r, st)
      [] p.op = "maybe"      -> Maybe(p.p, r, st)
      [] p.op = "where"      -> Where(p.p, p.side, r, st)
      [] p.op = "if"         -> If(p.if, p.then, p.else, r, st)
      [] p.op = "contains"   -> ContainsBelow(p.p, p.until, r, st)
      [] p.op = "within"     -> WithinAbove(p.p, p.until, r, st)
      [] p.op = "some"       -> SomeItem(p.p, r, st)
      [] p.op = "every"      -> EveryItem(p.p, r, st)
      [] p.op = "list"       -> ListPattern(p.ps, r, st)
      [] p.op = "rewrite"    -> RewritePattern(p.p, r, st)
      [] p.op = "rewriteVar" -> RewriteVariable(p.var, st)
      [] p.op = "match"      -> MatchVariable(p.var, p.p, st)
      [] p.op = "call"       -> Call(p.def, p.args, r, st)
      [] p.op = "prcall"     -> PrCall(p.def, p.args, r, st)

-----------------------------------------------------------------------------
(* What the language says.  A state gives every variable the set of its    *)
(* bindings; the outcome is the set of the states a match may leave, which *)
(* is empty when there is no match: a failure leaves nothing behind.  "env" *)
(* says what a name stands for: a variable, its own or its caller's, and   *)
(* the argument it has to match when it is first bound.                    *)

Then(states, F(_)) == UNION {F(s) : s \in states}
Else(states, s) == IF states = {} THEN {s} ELSE states
Fold(F(_, _), s, list) ==          \* all of them, one after the other
    FoldLeft(LAMBDA states, x : Then(states, LAMBDA t : F(x, t)), {s}, list)
AtLeastOne(F(_, _), s, list) ==    \* those of them that hold, in their order
    LET end == FoldLeft(LAMBDA acc, x :
                          LET hold == F(x, acc.s)
                          IN  [some |-> acc.some \/ hold # {},
                               s |-> CHOOSE t \in Else(hold, acc.s) : TRUE],
                        [some |-> FALSE, s |-> s], list)
    IN  IF end.some THEN {end.s} ELSE {}
FirstOf(F(_, _), s, list) ==       \* the first of them that holds
    LET hold == {i \in DOMAIN list : F(list[i], s) # {}}
    IN  IF hold = {} THEN {}
        ELSE F(list[CHOOSE i \in hold : \A j \in hold : i <= j], s)

OwnName(v) == [var |-> v, arg |-> NoPattern, env |-> <<>>]
MainEnv == [v \in Variables |-> OwnName(v)]
CallEnv(d, args, env) ==
    [v \in Variables |->
        IF v.scope # d \/ v.index \notin DOMAIN args THEN OwnName(v)
        ELSE IF args[v.index].op = "var" THEN env[args[v.index]]
        ELSE [var |-> v, arg |-> args[v.index], env |-> env]]
Fresh(d, s) ==
    [s EXCEPT !.vars = [v \in Variables |-> IF v.scope = d THEN {} ELSE @[v]]]

\* Pre-order, without what is below a node that matches "until".
Reached(ns, IsStop(_)) ==
    LET all == UNION {Below[n] : n \in ns}
        stops == {k \in all : IsStop(k)}
        IsReached(m) == \A k \in stops : m \notin Below[k] \ {k}
    IN  SelectSeq([n \in Nodes |-> n], LAMBDA m : m \in all /\ IsReached(m))

RECURSIVE Means(_, _, _, _), MeansList(_, _, _, _)

\* Dots stand for any number of elements: the leftmost way to divide the
\* list that lets the rest of the pattern match.
MeansList(ps, ns, s, env) ==
    IF ps = <<>> THEN IF ns = <<>> THEN {s} ELSE {}
    ELSE IF ps[1].op = "dots"
    THEN FirstOf(LAMBDA k, t :
                    MeansList(Tail(ps), SubSeq(ns, k, Len(ns)), t, env),
                 s, [k \in 1 .. Len(ns) + 1 |-> k])
    ELSE IF ns = <<>> THEN {}
    ELSE Then(Means(ps[1], <<NodeBinding(ns[1])>>, s, env),
              LAMBDA t : MeansList(Tail(ps), Tail(ns), t, env))

MeansVar(v, r, s, env) ==
    LET e == env[v]
        bound == s.vars[e.var]
    IN  IF bound # {}
        THEN IF \E b \in bound : ~ Equivalent(b, Last(r)) THEN {}
             ELSE {[s EXCEPT !.vars[e.var] = @ \union {Last(r)}]}
        ELSE Then(IF e.arg.op = "none" THEN {s} ELSE Means(e.arg, r, s, e.env),
                  LAMBDA t : {[t EXCEPT !.vars[e.var] = ToSet(r)]})

Means(p, r, s, env) ==
    LET b == Last(r)
        At(q, t) == Means(q, r, t, env)
        AtNode(n, t) == Means(p.p, <<NodeBinding(n)>>, t, env)
        Stops(n) == Means(p.until, <<NodeBinding(n)>>, s, env) # {}
        nodes == IF IsNode(b) THEN {b.node} ELSE ToSet(Items(b))
        ValueOf(v) == SetToSortSeq(s.vars[env[v].var],
                                   LAMBDA x, y : x.node < y.node)
        Chain ==
            LET up == ParentChain(b)
                stops == {i \in DOMAIN up : Stops(up[i])}
            IN  {i \in DOMAIN up : \A j \in stops : i <= j}
    IN  CASE p.op = "top"   -> {s}
          [] p.op = "bottom" -> {}
          [] p.op = "leaf"  -> IF Leaf(p, r, s).ok THEN {s} ELSE {}
          [] p.op = "node"  ->
                 Then({n \in Singleton(b) : Kind[n] = p.kind},
                      LAMBDA n : Fold(LAMBDA a, t :
                                        Means(a.pattern,
                                              <<FieldBinding(n, a.field)>>,
                                              t, env),
                                      s, p.args))
          [] p.op = "var"   -> MeansVar(p, r, s, env)
          [] p.op = "and"   -> Fold(At, s, p.ps)
          [] p.op = "or"    -> FirstOf(At, s, p.ps)
          [] p.op = "any"   -> AtLeastOne(At, s, p.ps)
          [] p.op = "not"   -> IF At(p.p, s) = {} THEN {s} ELSE {}
          [] p.op = "maybe" -> Else(At(p.p, s), s)
          [] p.op = "where" -> Then(At(p.p, s), LAMBDA t : At(p.side, t))
          [] p.op = "if"    -> IF At(p.if, s) = {} THEN At(p.else, s)
                               ELSE Then(At(p.if, s), LAMBDA t : At(p.then, t))
          [] p.op = "contains" -> AtLeastOne(AtNode, s, Reached(nodes, Stops))
          [] p.op = "within" ->
                 AtLeastOne(LAMBDA x, t : Means(p.p, x, t, env), s,
                            <<r>> \o AsValues(SubSeq(ParentChain(b), 1,
                                                    Cardinality(Chain))))
          [] p.op = "some"  -> AtLeastOne(AtNode, s, Items(b))
          [] p.op = "every" -> IF IsNode(b) THEN {} ELSE Fold(AtNode, s, Items(b))
          [] p.op = "list"  -> IF IsNode(b) THEN {}
                               ELSE MeansList(p.ps, Items(b), s, env)
          [] p.op = "rewrite" ->
                 Then(At(p.p, s),
                      LAMBDA t : {[t EXCEPT !.effects = @ \union ToSet(r)]})
          [] p.op = "rewriteVar" ->
                 {[s EXCEPT !.effects = @ \union s.vars[env[p.var].var]]}
          [] p.op = "match" -> Means(p.p, ValueOf(p.var), s, env)
          [] p.op \in {"call", "prcall"} ->
                 Means(Defs[p.def].body, r, Fresh(p.def, s),
                       CallEnv(p.def, p.args, env))

-----------------------------------------------------------------------------
VARIABLES
    pattern,   \* the pattern
    phase,     \* "ready" or "done"
    res        \* whether it matched, and the state it left

vars == <<pattern, phase, res>>

\* $program is bound to the tree; every definition has a frame to copy.
RootVar == Var(0, 1)
EmptyContent == [pattern |-> NoPattern, value |-> <<>>, mirrors |-> <<>>]
Start ==
    WithValue(RootVar, <<NodeBinding(1)>>,
              [frames  |-> [s \in Scopes |->
                              << [i \in 1 .. VarsOf(s) |-> EmptyContent] >>],
               effects |-> <<>>])
\* A state without its frames.
Meaning(st) ==
    [vars    |-> [v \in Variables |->
                    IF v.scope = 0 /\ v.index <= MainVars
                    THEN ToSet(Content(v, st).value) ELSE {}],
     effects |-> ToSet(st.effects)]

Init == pattern \in Patterns /\ phase = "ready" /\ res = No(Start)
Match ==
    /\ phase = "ready"
    /\ phase' = "done"
    /\ res' = Execute(pattern, <<NodeBinding(1)>>, Start)
    /\ UNCHANGED pattern
Next == Match
Spec == Init /\ [][Next]_vars

-----------------------------------------------------------------------------
\* The frames have their shape, all that is bound is part of the tree, and
\* every pattern definition has left its frame (pattern_definition.rs:77-97).
TypeOK ==
    /\ phase \in {"ready", "done"}
    /\ res.ok \in BOOLEAN
    /\ ToSet(res.st.effects) \subseteq Bindings
    /\ \A s \in Scopes :
          /\ s \notin PredicateScopes => Len(res.st.frames[s]) = 1
          /\ \A f \in ToSet(res.st.frames[s]) :
                /\ DOMAIN f = 1 .. VarsOf(s)
                /\ \A i \in DOMAIN f : ToSet(f[i].value) \subseteq Bindings

\* A pattern matches what the language says it matches, and binds and
\* rewrites exactly what a match binds and rewrites: nothing that an
\* alternative, an element or an argument did before it failed is left.
AsMeant ==
    phase = "done" =>
        LET means == {[t EXCEPT !.vars =
                          [v \in Variables |-> IF v.scope = 0 THEN @[v] ELSE {}]] :
                      t \in Means(pattern, <<NodeBinding(1)>>,
                                  Meaning(Start), MainEnv)}
        IN  means = IF res.ok THEN {Meaning(res.st)} ELSE {}

\* A variable keeps the value it was bound to: all that it stands for at the
\* end of a match, and so all that rewriting it rewrites, is the same code
\* (docs/src/pages/language/bubble.mdoc:5).
OneText ==
    res.ok => \A i \in 1 .. MainVars :
                \A b, c \in ToSet(Content(Var(0, i), res.st).value) :
                    Equivalent(b, c)
=============================================================================
