------------------------------ MODULE MCFormat ------------------------------
(***************************************************************************)
(* Format with words of eight bits and buffers of six bytes.               *)
(***************************************************************************)
EXTENDS Format

MCAlphabet == {"0", "x", "n", "u", "p", "c", "k", "s", "T", "R", "%", "d", "l", "a", "b", "e", "f", "g"}

Is(char)             == [directive |-> FALSE, char |-> char, zero |-> FALSE, args |-> <<>>]
Directive(char, arg) == [directive |-> TRUE, char |-> char, zero |-> FALSE, args |-> <<arg>>]
ZeroFilled(char, arg) == [Directive(char, arg) EXCEPT !.zero = TRUE]
Bare(char)           == [Directive(char, 0) EXCEPT !.args = <<>>]

\* Every directive, numbers of every length, a message as long as the buffer,
\* one that ends past it, kassert's line, and the %p without argument of
\* serial_set_default_port.
MCMessages ==
  << <<Is("0"), Is("x"), ZeroFilled("x", 10), Is("n")>>,
     <<Directive("u", 200), Directive("x", 165)>>,
     <<Directive("p", 0), Directive("c", <<"k">>)>>,
     <<Directive("s", <<"T", "R">>), Bare("%"), Directive("d", 96), Bare("l")>>,
     <<ZeroFilled("d", 7)>>,
     <<ZeroFilled("d", 255)>>,
     <<Bare("p")>>,
     <<Is("a"), Is("b"), Is("c"), Is("d"), Is("e"), Is("f"), Is("g")>>,
     <<Directive("s", <<"a", "b", "c", "d", "e">>), Directive("p", 18), Is("n")>> >>

=============================================================================
