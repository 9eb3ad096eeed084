----------------------------- MODULE MCLanguage -----------------------------
(* Programs for TLC: Plain ones, each a statement behind definitions it     *)
(* uses, and ones that define and send messages in turn.                   *)
EXTENDS Language

a == Sym("a")  f == Sym("f")  g == Sym("g")  h == Sym("h")  k == Sym("k")
p == Sym("p")  q == Sym("q")  x == Sym("x")  y == Sym("y")
n1 == Num(1)   n2 == Num(2)   n3 == Num(3)

Lambda(params, rhs) == Send(params, "::", rhs)
Assign(lhs, rhs)    == Send(lhs, ":=", rhs)
CallOf(v, args)     == Send(<<v>>, "", args)
Infix2(l, op, r)    == Send(<<l>>, op, <<r>>)
Lst(vals)           == Send(<<Msg("gab\\list")>>, "make", vals)
Dict(vals)          == Send(<<Msg("gab\\record")>>, "make", vals)
Shp(vals)           == Send(<<Msg("gab\\shape")>>, "make", vals)
Rest(name)          == Send(<<Sym(name)>>, "*", <<>>)
Opts(name)          == Send(<<Sym(name)>>, "**", <<>>)
Splat(v)            == Send(<<v>>, "*", <<>>)
Many(n)             == [i \in 1..n |-> Num(i % 10)]

(* a is a number, f passes its argument on with a, g packs.                *)
Prelude ==
  << <<Assign(<<a>>, <<Num(5)>>)>>,
     <<Assign(<<f>>, <<Lambda(<<x>>, <<x, a>>)>>)>>,
     <<Assign(<<g>>, <<Lambda(<<x, Rest("y")>>, <<y, x>>)>>)>> >>

(* Statements; none of them loops.                                         *)
Statements ==
  { <<n1, n2>>, <<>>, <<a, a, f>>, <<CallOf(f, <<n1>>)>>, <<CallOf(f, <<>>)>>,
    <<CallOf(f, <<n1, n2>>), n3>>,
    <<n1, CallOf(f, <<CallOf(f, <<n2>>)>>), a, n3>>,
    <<CallOf(g, <<n1, n2, n3>>), CallOf(g, <<>>)>>,
    <<CallOf(g, <<CallOf(f, <<n1>>), CallOf(f, <<n2>>)>>)>>,
    <<Str("gab\\number"), Str("a\nb"), Msg("b"), Msg("+")>>,
    <<Lst(<<n1, CallOf(f, <<n2>>)>>), Lst(<<>>)>>,
    <<Dict(<<Msg("b"), n1, Msg("c"), n2>>), Dict(<<n1, n2, n3>>)>>,
    <<Splat(Lst(<<n1, n2>>)), Splat(Shp(<<n1, n2>>)), a>>,
    <<CallOf(g, <<Splat(Lst(Many(12))), n1>>)>>,
    <<Send(<<Dict(<<>>)>>, "**", <<>>), n1>>,
    <<Send(<<Dict(<<Msg("b"), n1>>)>>, "b", <<>>), Send(<<Lst(<<n1>>)>>, "cons", <<n2>>),
      Send(<<n1>>, "cons", <<n2>>)>>,
    <<Send(<<Shp(<<Msg("b"), Msg("c")>>)>>, "make", <<n1, n2>>)>>,
    <<Send(<<n1>>, "?", <<>>), Send(<<f>>, "?", <<>>), Send(<<Lst(<<n1>>)>>, "?", <<>>)>>,
    <<Infix2(Infix2(n1, "+", n2), "-", n3), Infix2(n1, "+", Infix2(n2, "*", n3))>>,
    <<Infix2(Infix2(n1, "<", n2), "&", Infix2(n2, "<=", n1)),
      Infix2(Infix2(n1, ">", n2), "|", Infix2(n2, ">=", n1))>>,
    <<Send(<<Infix2(a, "==", Num(5))>>, "!", <<>>), Send(<<a>>, "~", <<>>)>>,
    <<Infix2(Str("a"), "+", Str("b")), Infix2(Dict(<<n1, n2>>), "==", Dict(<<n1, n2>>))>>,
    <<Infix2(a, "+", CallOf(f, <<n1>>)), Infix2(CallOf(f, <<n1>>), "==", Send(<<n1>>, "~", <<>>))>>,
    <<CallOf(Lambda(<<x>>, <<Body(<< <<Assign(<<p, q>>, <<x, a>>)>> >>)>>), <<n1>>)>>,
    <<CallOf(Lambda(<<x>>, <<Body(<< <<Assign(<<p>>, <<x>>)>> >>)>>), <<n1>>), a>>,
    <<Infix2(Infix2(a, "+", a), "+", a), a>>, <<Infix2(n1, "+", Msg("b"))>>, <<Infix2(Msg("b"), "+", n1)>>, <<Send(<<a>>, "zzz", <<>>)>>,
    <<CallOf(Lambda(<<x>>, <<Lambda(<<>>, <<x, a>>)>>), <<n1>>)>>,
    <<CallOf(CallOf(Lambda(<<x>>, <<Lambda(<<y>>, <<x, a, y>>)>>), <<n1>>), <<n2>>)>>,
    <<CallOf(CallOf(CallOf(Lambda(<<x>>, <<Lambda(<<>>, <<Lambda(<<>>, <<a, x>>)>>)>>), <<n1>>),
                    <<>>), <<>>)>>,
    <<CallOf(Lambda(<<x>>, Many(11) \o <<x>>), <<n2>>), a>>,
    <<CallOf(Lambda(<<>>, <<CallOf(f, <<n1, n2>>)>>), <<>>), a>>,
    <<CallOf(Lambda(<<x>>, <<Body(<< <<Assign(<<p>>, <<x>>)>>, <<CallOf(f, <<p>>)>>,
                                     <<p, n1>> >>)>>), <<n2>>)>>,
    <<CallOf(Lambda(<<>>, <<>>), <<>>), n1>>,
    <<Body(<< <<n1, n2>>, <<CallOf(f, <<n1>>)>>, <<n3>> >>), a>>,
    <<Lambda(<<x, y>>, <<Sym("unbound")>>)>>,
    <<CallOf(Lambda(<<>>, <<Body(<< <<a>>, <<Assign(<<a>>, <<n1>>)>>, <<a>> >>)>>), <<>>)>>,
    <<CallOf(Lambda(<<>>, <<Body(<< <<Assign(<<a>>, <<n1>>)>>, <<a>> >>)>>), <<>>), a>>,
    <<Lambda(<<Rest("x"), Rest("y")>>, <<x>>)>>, <<Lambda(<<n1>>, <<n1>>)>> }

Assigns ==
  { <<Assign(t, v)>> :
      t \in { <<p>>, <<p, q>>, <<p, Rest("q")>>, <<Rest("p"), q>>, <<p, Opts("q")>>,
              <<a, q>>, <<p, Rest("x"), q>> },
      v \in { <<n1, n2>>, <<n1, n2, n3, a>>, <<CallOf(f, <<n1>>)>>, <<CallOf(g, <<n1, n2>>), n3>>,
              <<a, CallOf(f, <<n1>>)>>, <<Splat(Lst(Many(13)))>>, <<Lambda(<<>>, <<a>>), n2>>,
              <<n1, CallOf(f, <<n2>>), CallOf(f, <<n3>>)>> } }

(* What an assignment leaves, seen from the next statement.                *)
Uses == { <<p, a>>, <<q, p>>, <<x, p>>, <<CallOf(p, <<>>), a>>,
          <<CallOf(Lambda(<<>>, <<p, a>>), <<>>), q>> }

Plain ==
  {Prelude \o <<s>> : s \in Statements} \cup
  {Prelude \o <<s, t>> : s \in Assigns, t \in Uses}

-----------------------------------------------------------------------------
(* Sites: h sends m last, k in the middle; each remembers what it met.     *)
Sites ==
  << <<Assign(<<h>>, <<Lambda(<<x>>, <<Send(<<x>>, "m", <<n1>>)>>)>>)>>,
     <<Assign(<<k>>, <<Lambda(<<x>>, <<Send(<<x>>, "m", <<>>), n2>>)>>)>> >>

Def(types, spec) == <<Send(<<Msg("m")>>, "def", types \o <<spec>>)>>
Number == Str("gab\\number")
Says(v) == Lambda(<<x>>, <<v, x>>)

Receivers == {n1, Msg("b"), Dict(<<Msg("m"), n3>>)}
Calls(site) == {<<CallOf(site, <<r>>)>> : r \in Receivers}

General0 == Def(<<>>, Says(Str("any")))
Defs ==
  { Def(<<Number>>, Says(Str("number"))),
    Def(<<Number>>, n2), Def(<<Msg("b")>>, Says(Str("b"))),
    Def(<<Msg("b"), Msg("c"), Number>>, Says(Str("several"))),
    <<Send(<<Msg("m")>>, "defcase",
           <<Dict(<<Msg("b"), Says(Str("case")), Number, Says(Str("case"))>>)>>)>> }

(* The message is defined, sent, and defined or sent again.  What holds for*)
(* any value is only defined first: see StalePrograms.                             *)
Changes ==
  UNION {{Sites \o <<d, c, e, c2>> :
            d \in Defs \cup {General0}, c \in Calls(s), e \in Defs \cup Calls(s), c2 \in Calls(s)}
         : s \in {h, k}}

(* A number is sent where the message is defined for any value; that is     *)
(* then redefined, another value makes the send a match over blocks, and    *)
(* the number is sent again.                                               *)
StalePrograms ==
  {Sites \o << General0, <<CallOf(k, <<n1>>)>>, Def(<<>>, Says(Str("new"))),
              Def(<<Msg("b")>>, Says(Str("b"))), <<CallOf(k, <<Msg("b")>>)>>,
              <<CallOf(k, <<n1>>)>> >>}

Samples == Plain \cup Changes
=============================================================================
