------------------------------ MODULE GRParser ------------------------------
(***************************************************************************)
(* grtags' parser (GRParser.cpp): it goes once through the tokens of a file *)
(* with a stack of what it believes to be in, and finds what is declared   *)
(* and what is called without knowing the types.  A token is [kind, text]; *)
(* its place in the file stands for its offset.                            *)
(***************************************************************************)
EXTENDS Integers, Sequences, SequencesExt, FiniteSets

KeyWords == {"if", "do", "for", "new", "void", "case", "while", "switch", "return", "delete",
             "operator", "const_cast", "static_cast", "dynamic_cast", "reinterpret_cast"}
isKeyWord(text) == text \in KeyWords
Scopes == {"class", "union", "struct", "namespace"}

State(type, brace, name, pending) ==
    [type |-> type, braceIndex |-> brace, name |-> name, pendingIndex |-> pending]
Entry(name, tilde, at, ref) == [name |-> name, tilde |-> tilde, at |-> at, ref |-> ref]

Start(tokens) ==
    [mTokens |-> tokens, mCurrentToken |-> 0, mState |-> <<State("Global", -1, "", -1)>>,
     mBraceCount |-> 0, mContainerScope |-> <<>>, mEntries |-> {}]

Kind(p, i) == IF i \in DOMAIN p.mTokens THEN p.mTokens[i].kind ELSE "NUM_TOKENS"
Text(p, i) == p.mTokens[i].text
Top(p) == Last(p.mState)
Previous(p) == p.mCurrentToken - 1

Push(p, s) == [p EXCEPT !.mState = Append(@, s)]
Pop(p) == [p EXCEPT !.mState = Front(@)]

\* addEntry(): the name alone and with each part of its scope before it.
Qualified(scope, name) == {s \o <<name>> : s \in Suffixes(scope)}

addEntry(p, name, tilde, scope, at) ==
    [p EXCEPT !.mEntries = @ \cup {Entry(n, tilde, at, FALSE) : n \in Qualified(scope, name)}]

addReference(p, at) ==
    IF isKeyWord(Text(p, at)) THEN p
    ELSE [p EXCEPT !.mEntries = @ \cup {Entry(<<Text(p, at)>>, FALSE, at, TRUE)}]

\* addContext(): the A::B:: before the token at i.
ContextStart(p, i) ==
    LET Chain(j) == \A k \in 0 .. (i - j) \div 2 - 1 :
                      Kind(p, i - 2 * k - 1) = "::" /\ Kind(p, i - 2 * k - 2) = "id"
    IN CHOOSE j \in 1 .. i : /\ (i - j) % 2 = 0 /\ Chain(j)
                             /\ \A h \in 1 .. j - 1 : (i - h) % 2 = 0 => ~Chain(h)

addContext(p, i) ==
    LET j == ContextStart(p, i)
    IN p.mContainerScope \o [k \in 1 .. (i - j) \div 2 |-> Text(p, j + 2 * (k - 1))]

\* findMatching() from a ">" backwards; -1 when there is no "<" for it.
Count(p, i, j, kind) == Cardinality({k \in i .. j : Kind(p, k) = kind})
findMatching(p, i) ==
    LET Closed(j) == Kind(p, j) = "<" /\ Count(p, j, i, "<") = Count(p, j, i, ">")
    IN IF \E j \in 1 .. i : Closed(j)
       THEN CHOOSE j \in 1 .. i : Closed(j) /\ \A k \in j + 1 .. i : ~Closed(k)
       ELSE -1

-----------------------------------------------------------------------------
handleRawIdentifier(p) ==
    IF /\ Top(p).type \in {"Global", "Container", "FunctionBody"}
       /\ Kind(p, Previous(p)) \notin {",", "<"}
       /\ Text(p, p.mCurrentToken) \in Scopes
    THEN Push(p, State("ContainerPending", -1, "", -1)) ELSE p

OpenContainer(p) ==
    LET pending == Top(p).pendingIndex
        i == IF pending = -1 /\ Kind(p, Previous(p)) = "id" THEN Previous(p) ELSE pending
        name == Text(p, i)
    IN IF i = -1 \/ isKeyWord(name) THEN Pop(p)
       ELSE [Push(addEntry(Pop(p), name, FALSE, addContext(p, i), i),
                  State("Container", p.mBraceCount, name, -1))
               EXCEPT !.mContainerScope = Append(@, name)]

OpenFunction(p) ==
    LET i == Top(p).pendingIndex
        tilde == Kind(p, i - 1) = "~"
        at == IF tilde THEN i - 1 ELSE i
        found == IF isKeyWord(Text(p, i)) THEN p
                 ELSE addEntry(p, Text(p, i), tilde, addContext(p, at), at)
    IN Push(Pop(found), State("FunctionBody", p.mBraceCount, "", -1))

handleLeftBrace(p) ==
    [CASE Top(p).type = "ContainerPending" -> OpenContainer(p)
       [] Top(p).type = "FunctionPending"  -> OpenFunction(p)
       [] OTHER -> p
       EXCEPT !.mBraceCount = @ + 1]

\* The name before the ":" of a base clause.
handleColon(p) ==
    IF Top(p).type = "ContainerPending" /\ Top(p).pendingIndex = -1 /\ Kind(p, Previous(p)) = "id"
    THEN [p EXCEPT !.mState[Len(p.mState)].pendingIndex = Previous(p)] ELSE p

\* f(...) or f<...>(...)
Called(p) ==
    LET i == IF Kind(p, Previous(p)) = ">" THEN findMatching(p, Previous(p)) - 1 ELSE Previous(p)
    IN IF Kind(p, i) = "id" THEN i ELSE -1

handleLeftParen(p) ==
    CASE Top(p).type = "FunctionBody" /\ Called(p) # -1 -> addReference(p, Called(p))
      [] Top(p).type \in {"Container", "Global"} /\ Kind(p, Previous(p)) = "id" ->
           Push(p, State("FunctionPending", -1, "", Previous(p)))
      [] OTHER -> p

handleRightBrace(p) ==
    LET braces == IF p.mBraceCount > 0 THEN p.mBraceCount - 1 ELSE 0
        q == [p EXCEPT !.mBraceCount = braces]
    IN IF Top(p).braceIndex # braces THEN q
       ELSE IF Top(p).type = "Container" THEN [Pop(q) EXCEPT !.mContainerScope = Front(@)]
       ELSE Pop(q)

\* A forward declaration, or a prototype.
handleSemi(p) ==
    LET i == Top(p).pendingIndex
        tilde == Kind(p, i - 1) = "~"
    IN CASE Top(p).type = "ContainerPending" -> Pop(p)
         [] Top(p).type = "FunctionPending" ->
              IF Kind(p, Previous(p)) \in {"=", ")"} /\ (tilde \/ ~isKeyWord(Text(p, i)))
              THEN Pop(addEntry(p, Text(p, i), tilde, p.mContainerScope, IF tilde THEN i - 1 ELSE i))
              ELSE Pop(p)
         [] OTHER -> p

Handle(before, token) ==
    LET p == [before EXCEPT !.mCurrentToken = @ + 1]
    IN CASE token.kind = "id" -> handleRawIdentifier(p)
         [] token.kind = "{"  -> handleLeftBrace(p)
         [] token.kind = ":"  -> handleColon(p)
         [] token.kind = "}"  -> handleRightBrace(p)
         [] token.kind = "("  -> handleLeftParen(p)
         [] token.kind = ";"  -> handleSemi(p)
         [] OTHER -> p

\* after[n] is the set of the one state after n tokens: TLC evaluates an element
\* of a set at once, and a state, otherwise, only when its last token is met.
parse(tokens) ==
    LET after[n \in 0 .. Len(tokens)] ==
            IF n = 0 THEN {Start(tokens)} ELSE {Handle(p, tokens[n]) : p \in after[n - 1]}
    IN UNION {p.mEntries : p \in after[Len(tokens)]}

-----------------------------------------------------------------------------
(* What a program declares.  A program is a sequence of declarations, a body   *)
(* a sequence of statements:                                                  *)
(*   [d |-> "scope", word, name, base, body]    class A : public B { ... };    *)
(*   [d |-> "forward", word, name]              class A;                       *)
(*   [d |-> "function", context, name, tilde, template, body]  A::f() { ... }   *)
(*   [d |-> "prototype", name, tilde]           int f();                       *)
(*   [d |-> "call", name, args]                 f<T>(x);                       *)
(*   [d |-> "block", word, body]                if (x) { ... }                 *)
Id(text) == [kind |-> "id", text |-> text]
Sign(s) == [kind |-> s, text |-> s]
Unless(b, s) == IF b THEN <<>> ELSE s
When(b, s) == IF b THEN s ELSE <<>>

RECURSIVE Tokens(_)
HeadTokens(d) ==
    CASE d.d = "scope" ->
           <<Id(d.word), Id(d.name)>>
           \o Unless(d.base = "", <<Sign(":"), Id("public"), Id(d.base)>>) \o <<Sign("{")>>
      [] d.d = "forward" -> <<Id(d.word), Id(d.name), Sign(";")>>
      [] d.d = "function" ->
           When(d.template, <<Id("template"), Sign("<"), Id("class"), Id("T"), Sign(">")>>)
           \o Unless(d.tilde, <<Id("int")>>)
           \o FlattenSeq([k \in DOMAIN d.context |-> <<Id(d.context[k]), Sign("::")>>])
           \o When(d.tilde, <<Sign("~")>>) \o <<Id(d.name), Sign("("), Sign(")"), Sign("{")>>
      [] d.d = "prototype" ->
           (IF d.tilde THEN <<Sign("~")>> ELSE <<Id("int")>>)
           \o <<Id(d.name), Sign("("), Id("int"), Sign(")"), Sign(";")>>
      [] d.d = "call" ->
           <<Id(d.name)>> \o When(d.args, <<Sign("<"), Id("T"), Sign(">")>>)
           \o <<Sign("("), Id("x"), Sign(")"), Sign(";")>>
      [] d.d = "block" -> <<Id(d.word), Sign("("), Id("x"), Sign(")"), Sign("{")>>
Enclosing(d) == d.d \in {"scope", "function", "block"}
TailTokens(d) == CASE d.d = "scope" -> <<Sign("}"), Sign(";")>>
                   [] d.d \in {"function", "block"} -> <<Sign("}")>>
                   [] OTHER -> <<>>
Tokens(program) ==
    FlattenSeq([k \in DOMAIN program |->
        HeadTokens(program[k]) \o (IF Enclosing(program[k]) THEN Tokens(program[k].body) ELSE <<>>)
        \o TailTokens(program[k])])

\* The place of a declaration's own name, as one of its first tokens.
NameAt(d) ==
    CASE d.d \in {"scope", "forward"} -> 2
      [] d.d = "call" -> 1
      [] d.d = "prototype" -> IF d.tilde THEN 1 ELSE 2
      [] d.d = "function" -> Len(HeadTokens(d)) - (IF d.tilde THEN 4 ELSE 3)

RECURSIVE Declared(_, _, _)
Declared(program, before, scope) ==
    IF program = <<>> THEN {}
    ELSE LET d == Head(program)
             at == before + NameAt(d)
             All(s, tilde) == {Entry(n, tilde, at, FALSE) : n \in Qualified(s, d.name)}
             own == CASE d.d = "scope" -> All(scope, FALSE)
                      [] d.d = "prototype" -> All(scope, d.tilde)
                      [] d.d = "function" -> All(scope \o d.context, d.tilde)
                      [] d.d = "call" -> {Entry(<<d.name>>, FALSE, at, TRUE)}
                      [] OTHER -> {}
             inner == IF Enclosing(d)
                      THEN Declared(d.body, before + Len(HeadTokens(d)),
                                    IF d.d = "scope" THEN Append(scope, d.name) ELSE scope)
                      ELSE {}
         IN own \cup inner \cup Declared(Tail(program), before + Len(Tokens(<<d>>)), scope)
=============================================================================
