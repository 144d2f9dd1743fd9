----------------------------- MODULE MCSymbols -----------------------------
(***************************************************************************)
(* Two sources, a (file 1) and b (3), and two headers, h (2) and g (4): a  *)
(* includes h, b includes g, which includes h.  h declares a function f,   *)
(* which a defines, and a class C; g derives D from it; b uses them.       *)
(* Every file has a second text in which its symbols have moved and one of *)
(* them is gone or new.                                                    *)
(***************************************************************************)
EXTENDS Queries

Cursor(offset, length, kind) ==
    [offset |-> offset, length |-> length, kind |-> kind, extent |-> <<offset, offset + length>>,
     definition |-> FALSE, implicit |-> FALSE, usr |-> "", name |-> <<>>, class |-> "",
     overrides |-> {}, ref |-> "", includes |-> 0]

Decl(offset, kind, usr, name) ==
    [Cursor(offset, 1, kind) EXCEPT !.usr = usr, !.name = name]
Def(offset, end, kind, usr, name) ==
    [Decl(offset, kind, usr, name) EXCEPT !.definition = TRUE, !.extent = <<offset, end>>]
Use(offset, kind, usr) == [Cursor(offset, 1, kind) EXCEPT !.ref = usr]
Include(f) == [Cursor(1, 3, "InclusionDirective") EXCEPT !.includes = f]
Method(c, class, overrides) == [c EXCEPT !.class = class, !.overrides = overrides]

a == 1
h == 2
b == 3
g == 4

\* class C { C(); virtual void m(); };  void f();
HText(o) == <<Def(o, o + 6, "ClassDecl", "C", <<"C">>),
              Method(Decl(o + 1, "Constructor", "C::C", <<"C", "C">>), "C", {}),
              Method(Decl(o + 3, "CXXMethod", "C::m", <<"C", "m">>), "C", {}),
              Decl(o + 8, "FunctionDecl", "f", <<"f">>)>>

\* #include "h"  class D : C { void m(); };
GText(o) == <<Include(h),
              Def(o, o + 8, "ClassDecl", "D", <<"D">>),
              Use(o + 2, "TypeRef", "C"),
              Method(Decl(o + 4, "CXXMethod", "D::m", <<"D", "m">>), "D", {"C::m"})>>

\* #include "h"  void f() { C c; c.m(); f(); }  void C::m() {}
AText(o) == <<Include(h),
              Def(o, o + 9, "FunctionDecl", "f", <<"f">>),
              Use(o + 1, "TypeRef", "C"),
              Decl(o + 3, "VarDecl", "f::c", <<"c">>),
              Use(o + 3, "CallExpr", "C::C"),
              Use(o + 5, "CallExpr", "C::m"), Use(o + 6, "MemberRefExpr", "C::m"),
              Use(o + 8, "CallExpr", "f"), Use(o + 8, "DeclRefExpr", "f")>>
ADefinesM(o) == <<Use(o, "TypeRef", "C"),
                  Method(Def(o + 2, o + 4, "CXXMethod", "C::m", <<"C", "m">>), "C", {})>>

\* #include "g"  void k() { f(); D d; d.m(); }
BText(o) == <<Include(g),
              Def(o, o + 9, "FunctionDecl", "k", <<"k">>),
              Use(o + 2, "CallExpr", "f"), Use(o + 2, "DeclRefExpr", "f"),
              Use(o + 4, "TypeRef", "D"),
              Use(o + 6, "MemberRefExpr", "D::m")>>

In1(f, stack) == [file |-> f, stack |-> stack]
mcInclusions == (a :> <<In1(h, {a}), In1(a, {})>>)
             @@ (b :> <<In1(h, {g, b}), In1(g, {b}), In1(b, {})>>)
\* b includes h before g: clang enters h once, from b.
mcHeaderFirst == [mcInclusions EXCEPT ![b] = <<In1(h, {b}), In1(g, {b}), In1(b, {})>>]
mcTexts == (h :> {HText(10), HText(13), SubSeq(HText(10), 1, 3)})
        @@ (g :> {GText(10), GText(12)})
        @@ (a :> {AText(10) \o ADefinesM(30), AText(12), <<Include(h)>>})
        @@ (b :> {BText(10), BText(11) \o <<Use(25, "TypeRef", "C")>>})
mcUnits == {a, b}
mcHeaders == {h, g}
============================================================================
