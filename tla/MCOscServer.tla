---------------------------- MODULE MCOscServer ----------------------------
(* A small instance of OscServer for TLC: digits to the base 4. *)
EXTENDS OscServer, TLC

CONSTANTS tablet, mac

\* "/a", "/ab", "/c/d", "/*", "/a*"
A == <<47, 97>>
AB == <<47, 97, 98>>
CD == <<47, 99, 47, 100>>
AnyTop == <<47, 42>>
AnyA == <<47, 97, 42>>

SomeHandlers == <<AB, CD, A>>
Now == <<0, 0, 0, 0, 0, 0, 0, 1>>
Text(n) == Str([k \in 1..n |-> 96 + k])

Alone ==
    {Message(A, <<>>),
     Message(A, <<PyInt(-128), PyInt(127), PyInt(256), PyInt(-32768), PyInt(32767)>>),
     Message(A, <<PyInt(200)>>),
     Message(AB, <<Text(0), Text(3), Text(4), Bool(TRUE), None>>),
     Message(AB, <<List(<<Text(1), List(<<PyInt(-1)>>), List(<<>>)>>), Bool(FALSE)>>),
     Message(CD, <<Bytes(<<0, 3, 0>>), Midi(<<1, 0, 2, 3>>), Float(<<1, 2, 3, 0>>)>>),
     Message(AnyTop, <<Text(2), Bytes(<<1, 2, 3, 0>>)>>),
     Message(AnyA, <<>>)}
Bundled ==
    {Bundle(Now, <<Message(AB, <<PyInt(5)>>), Bundle(Now, <<Message(CD, <<>>)>>), Message(A, <<None>>)>>),
     Bundle(Now, <<>>)}
\* ",dtrf" with the float's last zeros left out; and tags without their comma.
Foreign ==
    {Packed(CD, <<44, 100, 116, 114, 102>>, <<1, 2, 3, 0, 3, 2, 1, 0>> \o Now \o <<3, 0, 0, 1>> \o <<2, 1>>,
            <<Float(<<1, 2, 3, 0, 3, 2, 1, 0>>), TimeTag(Now), PyInt(193), Float(<<2, 1, 0, 0>>)>>),
     Packed(AB, <<115, 120, 78>>, WriteString(<<97, 98, 99, 100>>), <<Str(<<97, 98, 99, 100>>), None>>)}
SomeRequests == Alone \cup Bundled \cup Foreign

GetCues == Message(CD, <<>>)

\* Cut short, without an end, a stray bracket, not text, a bundle cut short.
SomeNoise ==
    {<<>>, A, <<47, 97, 0, 0, 44, 93, 0, 0>>, <<47, 97, 0, 0, 44, 105, 0, 0, 1, 1>>,
     <<47, 130, 0, 0>>, BundlePrefix \o Now \o <<0, 0, 1>>}
=============================================================================
