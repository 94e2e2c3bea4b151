--------------------------- MODULE MCRegionRender ---------------------------
(***************************************************************************)
(* Bounds for model-checking RegionRender: an image of 3 x 2 pixels,       *)
(* regions that lie inside, stick out, miss it or are far too large, tiles *)
(* of one to three pixels, masks of the right and of a wrong size, chains  *)
(* of up to seven adjustments.  Floats have six significant bits, enough   *)
(* for the roundings of eight nodes with samples up to six; exposures are  *)
(* in steps of half an EV, a node is limited to four EV, and the floats    *)
(* end five EV above and nine below 1.0.                                   *)
(***************************************************************************)
EXTENDS RegionRender

\* Opaque pixels, a transparent one and a half-transparent one: the upper row
\* is bright, the lower one dark.
SmallSource ==
  [o \in 0..5 |-> CASE o = 1 -> [colour |-> 0, alpha |-> 0]
                    [] o = 4 -> [colour |-> ToFloat(Unit, 8), alpha |-> Unit \div 2]
                    [] o = 0 -> Opaque(5)
                    [] o = 2 -> Opaque(6)
                    [] o = 3 -> Opaque(1)
                    [] OTHER -> Opaque(3)]

Gradient == [o \in 0..5 |-> <<0, 6, 3, 1, 0, 5>>[o + 1]]

SmallMasks ==
  [h1 |-> [width |-> 3, height |-> 2, samples |-> Gradient],
   h2 |-> [width |-> 3, height |-> 2, samples |-> [o \in 0..5 |-> Maximum - Gradient[o]]],
   h3 |-> [width |-> 2, height |-> 3, samples |-> Gradient]]

\* std::exp2 in steps of half an EV, the root of two being 181/128.
HalfSteps ==
  [e \in -24..24 |->
     LET whole == e \div 2
         root  == IF e % 2 = 0 THEN <<1, 1>> ELSE <<181, 128>>
     IN  IF whole >= 0 THEN <<root[1] * PowerOfTwo[whole], root[2]>>
         ELSE <<root[1], root[2] * PowerOfTwo[-whole]>>]

Lifted ==
  [kind |-> "curve", ev |-> 0, enabled |-> TRUE, opacity |-> <<1, 2>>, mask |-> NoMask,
   points |-> <<[x |-> 0, y |-> 1], [x |-> 2, y |-> 2], [x |-> 4, y |-> 4]>>]

OnlyThrough(node, id, hash, inverted) ==
  [node EXCEPT !.mask = [id |-> id, hash |-> hash, inverted |-> inverted]]

Masked1 == <<OnlyThrough(Lifted, "m1", "h1", FALSE)>>

View(id, claimed, content) == [id |-> id, claimed |-> claimed, content |-> content]
Right == <<View("m2", "h2", "h2"), View("m1", "h1", "h1")>>
Rectangle(x, y, w, h) == [x |-> x, y |-> y, width |-> w, height |-> h]

Ask(roi, size, workers, graph, views) ==
  [roi |-> roi, size |-> size, workers |-> workers, graph |-> graph, views |-> views]

\* Regions against tile sizes.
GeometryRequests ==
  {Ask(Rectangle(x, y, w, h), size, workers, Masked1, Right) :
     x \in 0..3, y \in 0..1, w \in {0, 1, 2, 3, 7}, h \in {1, 7}, size \in 0..4, workers \in {1, 2}}

\* Graphs and masks, on the whole image and on a part of it.
GraphRequests ==
  {Ask(roi, 2, 2, graph, views) :
     roi \in {Rectangle(0, 0, 3, 2), Rectangle(1, 0, 2, 2)},
     graph \in {<<>>,
                <<Exposure(3), Exposure(-5)>>,
                <<Exposure(7), Exposure(5)>>,
                <<[Exposure(1) EXCEPT !.enabled = FALSE], Lifted>>,
                <<OnlyThrough(Exposure(1), "m1", "h1", TRUE)>>,
                Masked1},
     views \in {<<>>,
                Right,
                <<View("m1", "h1", "h2")>>,
                <<View("m1", "h2", "h2"), View("m1", "h1", "h1")>>,
                <<View("m1", "h2", "h2")>>,
                <<View("m1", "h3", "h3")>>}}

Steps == {-8, -5, -1, 1, 3, 7}
Chain(evs) == [i \in DOMAIN evs |-> Exposure(evs[i])]
Alternating(n, e, f) == [i \in 1..n |-> IF i % 2 = 1 THEN e ELSE f]
ThereAndBack(n, e) == [i \in 1 .. 2 * n |-> IF i <= n THEN e ELSE -e]

Turns == {<<-5, 6>>, <<-4, 5>>, <<-2, 2>>, <<-1, 1>>, <<1, -2>>, <<2, -3>>, <<3, -5>>, <<-3, -1>>, <<3, 1>>}

\* Chains of exposures: every two steps, two in turn on five and seven nodes, one
\* several times and back again, and what a migration makes of a v1 exposure.
Chains ==
  {Chain(Alternating(2, e, f)) : e, f \in Steps}
    \cup {Chain(Alternating(n, t[1], t[2])) : n \in {5, 7}, t \in Turns}
    \cup {Chain(ThereAndBack(n, e)) : n \in 2..3, e \in {-8, -3, -1, 1, 3}}
    \cup {MigratedGraph(total) : total \in {-17, -11, 9, 17}}

\* Each on the bright row and on the dark one.
ChainRequests ==
  {Ask(Rectangle(0, y, 3, 1), 3, 1, graph, <<>>) : y \in 0..1, graph \in Chains}

SmallRequests == GeometryRequests \cup GraphRequests \cup ChainRequests
=============================================================================
