---------------------------------- MODULE Avl ---------------------------------
(***************************************************************************)
(* The balanced trees of avl.c.  A node carries an entry (the structure it *)
(* is embedded in), two subtrees and the skew the insertion maintains.     *)
(* Compare orders two entries, Match a key and an entry; the two are       *)
(* separate functions in the source, and need not agree.                   *)
(***************************************************************************)
EXTENDS Integers, Sequences, FiniteSetsExt

CONSTANTS Compare(_, _), Match(_, _)

Null == [skew |-> "null"]

Leaf(e) == [entry |-> e, left |-> Null, right |-> Null, skew |-> "none"]

-----------------------------------------------------------------------------
RotateRight(t) == [t.left EXCEPT !.right = [t EXCEPT !.left = t.left.right]]
RotateLeft(t) == [t.right EXCEPT !.left = [t EXCEPT !.right = t.right.left]]

(* What insertion returns: the tree, and whether it has grown.             *)
Result(t, grown) == [tree |-> t, grown |-> grown]

(* The left subtree of t has grown by one.                                 *)
GrownLeft(t) ==
  CASE t.skew = "right" -> Result([t EXCEPT !.skew = "none"], FALSE)
    [] t.skew = "none"  -> Result([t EXCEPT !.skew = "left"], TRUE)
    [] t.skew = "left" /\ t.left.skew = "left" ->
         Result(RotateRight([t EXCEPT !.skew = "none", !.left.skew = "none"]), FALSE)
    [] OTHER ->
         LET lean == t.left.right.skew
             s == [t EXCEPT !.skew = IF lean = "left" THEN "right" ELSE "none",
                            !.left.skew = IF lean = "right" THEN "left" ELSE "none",
                            !.left.right.skew = "none"]
         IN  Result(RotateRight([s EXCEPT !.left = RotateLeft(@)]), FALSE)

(* Mutant: a single rotation leaves the skews as they were.                *)
GrownRightNoReset(t) ==
  CASE t.skew = "left" -> Result([t EXCEPT !.skew = "none"], FALSE)
    [] t.skew = "none" -> Result([t EXCEPT !.skew = "right"], TRUE)
    [] OTHER           -> Result(RotateLeft(t), FALSE)

GrownRight(t) ==
  CASE t.skew = "left" -> Result([t EXCEPT !.skew = "none"], FALSE)
    [] t.skew = "none" -> Result([t EXCEPT !.skew = "right"], TRUE)
    [] t.skew = "right" /\ t.right.skew = "right" ->
         Result(RotateLeft([t EXCEPT !.skew = "none", !.right.skew = "none"]), FALSE)
    [] OTHER ->
         LET lean == t.right.left.skew
             s == [t EXCEPT !.skew = IF lean = "right" THEN "left" ELSE "none",
                            !.right.skew = IF lean = "left" THEN "right" ELSE "none",
                            !.right.left.skew = "none"]
         IN  Result(RotateLeft([s EXCEPT !.right = RotateRight(@)]), FALSE)

RECURSIVE Added(_, _)
Added(e, t) ==
  IF t = Null THEN Result(Leaf(e), TRUE)
  ELSE LET c == Compare(e, t.entry)
           sub == Added(e, IF c < 0 THEN t.left ELSE t.right)
       IN  CASE c = 0 -> Result(t, FALSE)
             [] c < 0 -> LET s == [t EXCEPT !.left = sub.tree]
                         IN  IF sub.grown THEN GrownLeft(s) ELSE Result(s, FALSE)
             [] c > 0 -> LET s == [t EXCEPT !.right = sub.tree]
                         IN  IF sub.grown THEN GrownRight(s) ELSE Result(s, FALSE)

(* avl_add                                                                 *)
Add(e, t) == Added(e, t).tree

(* avl_find: the entry that matches the key, as a set of at most one.      *)
RECURSIVE Find(_, _)
Find(key, t) ==
  IF t = Null THEN {}
  ELSE LET m == Match(key, t.entry)
       IN  IF m = 0 THEN {t.entry} ELSE Find(key, IF m < 0 THEN t.left ELSE t.right)

-----------------------------------------------------------------------------
RECURSIVE Height(_), InOrder(_), Balanced(_)
Height(t) == IF t = Null THEN 0 ELSE 1 + Max({Height(t.left), Height(t.right)})
InOrder(t) == IF t = Null THEN <<>> ELSE InOrder(t.left) \o <<t.entry>> \o InOrder(t.right)

(* The skew of every node is the difference of the heights below it, which *)
(* is at most one.                                                         *)
Balanced(t) ==
  t # Null => /\ Height(t.right) - Height(t.left) =
                   CASE t.skew = "left" -> -1 [] t.skew = "none" -> 0 [] t.skew = "right" -> 1
              /\ Balanced(t.left) /\ Balanced(t.right)
===============================================================================
