------------------------------- MODULE MCScanf -------------------------------
EXTENDS Scanf

D == Directive("d")
Set(s) == [Directive("class") EXCEPT !.set = s]
Dot == Literal(46)
Padded(conv, width) == [Wide(conv, width) EXCEPT !.zero = TRUE]

MCFormats ==
  {<<D, Dot, D>>, <<Padded("x", 2), Dot, Padded("d", 3)>>, <<Directive("u"), Literal(Minus), D>>,
   <<Directive("i"), Directive("space"), D>>, <<Directive("x")>>, <<Directive("p"), Dot>>,
   <<Wide("d", 1), Wide("d", 2), D>>, <<[D EXCEPT !.suppress = TRUE], D>>,
   <<Set(<<Zero, Minus, Zero + 9, Close>>), D>>, <<Set(<<Caret, Minus, 46, Close>>), Directive("space"), D>>,
   <<[Wide("class", 2) EXCEPT !.set = <<Close, Minus, LowerX, Close>>], Dot>>,
   <<Directive("c"), D>>, <<Directive("s"), D>>}

MCTexts == UNION {[1 .. n -> {Space, Minus, 46, Zero, Zero + 1, Zero + 9, LowerX, LowerA}] : n \in 0 .. 4}
MCArguments == {0, 1, 9, 16, 31, -1, -9, -10, -32}
==============================================================================
