---------------------------- MODULE MCMatching -----------------------------
(***************************************************************************)
(* The tree of "f(a, f(b), b) = b" and patterns of three levels.           *)
(***************************************************************************)
EXTENDS Matching

AssignKind == <<"assign", "call", "id", "call", "id", "id", "id">>
AssignText == <<"f(a,f(b),b)=b", "f(a,f(b),b)", "a", "f(b)", "b", "b", "b">>
AssignKids ==
    <<[left |-> <<2>>, right |-> <<7>>], [args |-> <<3, 4, 6>>], <<>>,
      [args |-> <<5>>], <<>>, <<>>, <<>>>>
Fields == <<"left", "right", "args">>

x == Var(0, 2)
y == Var(0, 3)
Top == [op |-> "top"]
Never == [op |-> "bottom"]
IdA == [op |-> "leaf", text |-> "a"]
IdB == [op |-> "leaf", text |-> "b"]
Leaves == {IdA, IdB, x, y}

Many(op, ps) == [op |-> op, ps |-> ps]
One(op, p) == [op |-> op, p |-> p]
ContainsP(p, until) == [op |-> "contains", p |-> p, until |-> until]
WithinP(p, until) == [op |-> "within", p |-> p, until |-> until]
WhereP(p, side) == [op |-> "where", p |-> p, side |-> side]
IfP(if, then, else) == [op |-> "if", if |-> if, then |-> then, else |-> else]
MatchP(v, p) == [op |-> "match", var |-> v, p |-> p]
RewriteVarP(v) == [op |-> "rewriteVar", var |-> v]
CallP(d, args) == [op |-> "call", def |-> d, args |-> args]
PrCallP(d, args) == [op |-> "prcall", def |-> d, args |-> args]
CallNode(p) == [op |-> "node", kind |-> "call",
                args |-> <<[field |-> "args", pattern |-> p]>>]
AssignNode(p, q) == [op |-> "node", kind |-> "assign",
                     args |-> <<[field |-> "left", pattern |-> p],
                                [field |-> "right", pattern |-> q]>>]

\* pattern d1($p) { contains $p, contains $q } with a $q of its own, which
\* takes the first node and then all with the text of that one;
\* predicate d2($p) { $program <: contains $p }.
SomeDefs ==
    <<[predicate |-> FALSE, vars |-> 2,
       body |-> Many("and", <<ContainsP(Var(1, 1), Never),
                              ContainsP(Var(1, 2), Never)>>)],
      [predicate |-> TRUE, vars |-> 1,
       body |-> MatchP(RootVar, ContainsP(Var(2, 1), Never))]>>

AnyCall == CallNode(Top)
Unary(P) ==
    UNION {{One(op, p) : p \in P} :
             op \in {"not", "maybe", "some", "every", "rewrite"}}
    \union {CallNode(p) : p \in P}
    \union {ContainsP(p, u) :
              p \in P, u \in {Never, IdA, CallNode(Many("list", <<IdB>>))}}
    \union {WithinP(p, Never) : p \in P}
    \union {CallP(1, <<p>>) : p \in P}
Binary(P, Q) ==
    UNION {{Many(op, <<p, q>>) : p \in P, q \in Q} :
             op \in {"and", "or", "any", "list"}}
    \union {AssignNode(p, q) : p \in P, q \in Q}
    \union {IfP(MatchP(RootVar, p), q, Top) : p \in P, q \in Q}
    \union {WhereP(p, MatchP(RootVar, q)) : p \in P, q \in Q}
    \union {WhereP(ContainsP(Many("and", <<p, x>>), Never), q) :
              p \in P, q \in {RewriteVarP(x), PrCallP(2, <<x>>)}}
Second == Unary(Leaves) \union Binary(Leaves, Leaves)
Third == Unary(Second) \union Binary(Second, Leaves) \union Binary(Leaves, Second)
\* A node and what is around it.
Around ==
    {ContainsP(Many("and", <<p, WithinP(q, u)>>), Never) :
        p \in Leaves, u \in {Never, AnyCall},
        q \in Unary(Leaves) \union {CallNode(s) : s \in Unary(Leaves)}}
\* x and y bound on the left of "=", and then given to two calls.
Bind(v, p) ==
    MatchP(RootVar, AssignNode(ContainsP(Many("and", <<p, v>>), Never), Top))
Twice(F(_)) ==
    {WhereP(Top,
            Many("and", <<Bind(x, p), Bind(y, q), F(v), F(w)>>)) :
        p, q \in {IdA, IdB}, v, w \in {x, y}}
CallD1(v) == MatchP(RootVar, CallP(1, <<v>>))
CallD2(v) == PrCallP(2, <<v>>)

\* Lists with dots in front of, behind and between variables and names.
Dots == [op |-> "dots"]
ListsOf(P) ==
    {AssignNode(CallNode(Many("list", ps)), Top) :
        ps \in {ps \in UNION {[1 .. n -> P \union {Dots}] : n \in 1 .. 4} :
                  \A i \in 1 .. Len(ps) - 1 : ps[i] = Dots => ps[i + 1] # Dots}}

ThreeLevels ==
    Leaves \union Second \union Third \union {ContainsP(p, Never) : p \in Third}
        \union Around \union Twice(CallD1) \union ListsOf({IdA, IdB})

AllLists == ListsOf(Leaves)
PredicateCalls == Twice(CallD2)
=============================================================================
