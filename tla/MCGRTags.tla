------------------------------ MODULE MCGRTags ------------------------------
(* Two sources and two texts, which share names at other places.              *)
EXTENDS GRTags

Scope(word, name, base, body) ==
    [d |-> "scope", word |-> word, name |-> name, base |-> base, body |-> body]
Forward(word, name) == [d |-> "forward", word |-> word, name |-> name]
Function(context, name, body) ==
    [d |-> "function", context |-> context, name |-> name, tilde |-> FALSE, template |-> FALSE,
     body |-> body]
Destructor(context, name, body) == [Function(context, name, body) EXCEPT !.tilde = TRUE]
Template(name, body) == [Function(<<>>, name, body) EXCEPT !.template = TRUE]
Prototype(name, tilde) == [d |-> "prototype", name |-> name, tilde |-> tilde]
Call(name, args) == [d |-> "call", name |-> name, args |-> args]
Block(word, body) == [d |-> "block", word |-> word, body |-> body]

(* namespace N { class B; class A : public B { int m(int); ~A() { f(x); }      *)
(*   struct C { int m() { if (x) { f<T>(x); } } }; }; }                        *)
(* int N::A::m() { m(x); }                                                    *)
First ==
    <<Scope("namespace", "N", "",
        <<Forward("class", "B"),
          Scope("class", "A", "B",
            <<Prototype("m", FALSE), Destructor(<<>>, "A", <<Call("f", FALSE)>>),
              Scope("struct", "C", "",
                <<Function(<<>>, "m", <<Block("if", <<Call("f", TRUE)>>)>>)>>)>>)>>),
      Function(<<"N", "A">>, "m", <<Call("m", FALSE)>>)>>

(* class A { ~A(int); };  template <class T> int f() { while (x) { m(x); } }    *)
(* A::~A() { f<T>(x); }  int f(int);                                           *)
Second ==
    <<Scope("class", "A", "", <<Prototype("A", TRUE)>>),
      Template("f", <<Block("while", <<Call("m", FALSE)>>)>>),
      Destructor(<<"A">>, "A", <<Call("f", TRUE)>>),
      Prototype("f", FALSE)>>

MCPrograms == <<First, Second>>
=============================================================================
