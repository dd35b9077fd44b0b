--------------------------- MODULE MCGeneratedCode ---------------------------
(***************************************************************************)
(* Two functions of two parameters, of which one is a C parameter.  The    *)
(* body of f is any term that binds up to DEPTH_F variables, or ends in a  *)
(* case of which each branch binds one; that of g is one of three.         *)
(***************************************************************************)
EXTENDS GeneratedCode

CONSTANT DEPTH_F

E0 == Ctor(0, 0)
E1 == Ctor(0, 1)
B0 == Ctor(1, 0)
B1 == Ctor(2, 1)

Pairs(S) == {<<u, v>> : u \in S, v \in S}

Ends(S) == {Ehalt(v) : v \in S} \cup {Eapp("g", p) : p \in Pairs(S)}

\* One variable more, and then a term of ends.
Binds(direct, x, S, ends) ==
         {Econstr(x, E1, <<>>, e) : e \in ends}
    \cup {Econstr(x, B1, p, e) : p \in {q \in Pairs(S) : q[1] < q[2]}, e \in ends}
    \cup IF direct THEN {Eletapp(x, "g", p, e) : p \in Pairs(S), e \in ends} ELSE {}

\* A case on a value of the type with E0, B1, E1, B0.
CaseOn(v, x, S, e1, e2) ==
    Ecase(v, <<[c |-> E0, e |-> Ehalt(v)],
               [c |-> B1, e |-> Eproj(x, 2, v, e1)],
               [c |-> E1, e |-> e2],
               [c |-> B0, e |-> Econstr(x + 2, B0, <<v>>, Ehalt(x + 2))]>>)

Cases(direct, x, S) ==
    UNION {{CaseOn(v, x, S, e1, e2) :
            e1 \in {Eapp("f", <<x, Max(S)>>)} \cup
                  (IF direct THEN {Eletapp(x + 3, "g", <<v, x>>, Ehalt(Min(S)))} ELSE {}),
            e2 \in {Ehalt(Max(S)), Econstr(x + 1, B1, <<v, Min(S)>>, Ehalt(x + 1))}} :
           v \in S}

\* The bodies of f, when the variables bound so far are 1 .. x - 1.
Bodies(direct) ==
    LET From[x \in 3 .. 3 + DEPTH_F] ==
            LET S == 1 .. x - 1 IN
            Ends(S) \cup Cases(direct, x, S) \cup
                IF x = 3 + DEPTH_F THEN {} ELSE Binds(direct, x, S, From[x + 1])
    IN  From[3]

GBodies ==
    {Ehalt(22), Econstr(23, B1, <<22, 21>>, Ehalt(23)), Eproj(23, 1, 22, Ehalt(23))}

P0 == Value(B0, <<Value(E1, <<>>)>>)
P1 == Value(B1, <<P0, Value(E0, <<>>)>>)

MCPrograms == [s \in Schemes |->
    {[f |-> [vs |-> <<1, 2>>, e |-> ef],
      g |-> [vs |-> <<21, 22>>, e |-> eg]] :
        ef \in Bodies(s = "direct"), eg \in GBodies}]

MCInputs == {<<P1, P0>>, <<Value(E1, <<>>), P1>>}

MCData == {P0, P1} \cup {Value(E0, <<>>), Value(E1, <<>>)}

MCNames == {"f", "g"}
MCArity == [n \in MCNames |-> 2]

\* These terms and their subterms; the longest case has three constructs.
Closure(bodies) ==
    LET Below[n \in 0 .. DEPTH_F + 3] ==
            IF n = 0 THEN bodies ELSE UNION {Subterms(e) : e \in Below[n - 1]}
    IN  {e \in UNION {Below[n] : n \in 0 .. DEPTH_F + 3} : TRUE}

\* TLC keeps the values of these definitions, but not of what a constant stands for.
Occurring == Closure(GBodies \cup Bodies(TRUE) \cup Bodies(FALSE))
CallFree  == Closure(GBodies \cup Bodies(FALSE))
Depth[e \in Occurring] == Max({0} \cup {1 + Depth[s] : s \in Subterms(e)})

MCTerms    == Occurring
MCCPSTerms == CallFree
MCHeight   == Depth

MCVars == 1 .. 10 \cup 21 .. 23
=============================================================================
