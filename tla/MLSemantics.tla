----------------------------- MODULE MLSemantics -----------------------------
(***************************************************************************)
(* What the interpreter promises to compute: call-by-value reduction of    *)
(* the program by substitution, without environments and without a stack.  *)
(* A name that nothing binds is marked as free when the program is loaded, *)
(* so that what is substituted has no name that a function could capture.  *)
(***************************************************************************)
EXTENDS Integers, Sequences

CONSTANT Width

VARIABLES program, term, status

vars == <<program, term, status>>

LOCAL INSTANCE MLParse

Free(x) == [type |-> "free", name |-> x]

IsValue(t) == t.type \in {"num", "fn"}

(* t with s in the place of the name x.                                    *)
RECURSIVE Subst(_, _, _)
Subst(t, x, s) ==
    CASE t.type = "name" -> IF t.name = x THEN s ELSE t
      [] t.type = "fn" -> IF t.name = x THEN t ELSE Fn(t.name, Subst(t.body, x, s))
      [] t.type = "if" -> If(Subst(t.cond, x, s), Subst(t.a, x, s), Subst(t.b, x, s))
      [] t.type = "op" -> Op(t.op, Subst(t.a, x, s), Subst(t.b, x, s))
      [] OTHER -> t

(* t with the names marked that are not in bound.                          *)
RECURSIVE Mark(_, _)
Mark(t, bound) ==
    CASE t.type = "name" -> IF t.name \in bound THEN t ELSE Free(t.name)
      [] t.type = "fn" -> Fn(t.name, Mark(t.body, bound \cup {t.name}))
      [] t.type = "if" -> If(Mark(t.cond, bound), Mark(t.a, bound), Mark(t.b, bound))
      [] t.type = "op" -> Op(t.op, Mark(t.a, bound), Mark(t.b, bound))
      [] OTHER -> t

Abs(n) == IF n < 0 THEN -n ELSE n

(* C's quotient: the remainder is smaller than the divisor and has the     *)
(* sign of the dividend.  The interpreter makes it 0 for the divisor 0.    *)
Quotient(a, b) ==
    IF b = 0 THEN 0
    ELSE CHOOSE q \in (-Abs(a)) .. Abs(a) :
            Abs(a - q * b) < Abs(b) /\ (a - q * b) * a >= 0

Truth(p) == IF p THEN 1 ELSE 0

Arithmetic(op, a, b) ==
    CASE op = <<"<">> -> Truth(a < b)
      [] op = <<">">> -> Truth(a > b)
      [] op = <<"+">> -> Wrap(a + b)
      [] op = <<"-">> -> Wrap(a - b)
      [] op = <<"*">> -> Wrap(a * b)
      [] op = <<"/">> -> Wrap(Quotient(a, b))
      [] op = <<":", ":">> -> 0

(* Why t cannot be reduced: a free name or a type error where the next     *)
(* reduction would be, or "none".                                          *)
RECURSIVE Stuck(_)
Stuck(t) ==
    CASE t.type = "free" -> "unbound"
      [] t.type = "if" ->
            IF ~IsValue(t.cond) THEN Stuck(t.cond)
            ELSE IF t.cond.type = "fn" THEN "type" ELSE "none"
      [] t.type = "op" ->
            IF ~IsValue(t.a) THEN Stuck(t.a)
            ELSE IF ~IsValue(t.b) THEN Stuck(t.b)
            ELSE IF t.op = App
                 THEN IF t.a.type = "fn" THEN "none" ELSE "type"
                 ELSE IF t.a.type = "num" /\ t.b.type = "num" THEN "none" ELSE "type"
      [] OTHER -> "none"

(* t after one reduction: the left operand first, no operand left out.     *)
RECURSIVE Reduced(_)
Reduced(t) ==
    CASE t.type = "if" ->
            IF ~IsValue(t.cond) THEN If(Reduced(t.cond), t.a, t.b)
            ELSE IF t.cond.num # 0 THEN t.a ELSE t.b
      [] t.type = "op" ->
            IF ~IsValue(t.a) THEN Op(t.op, Reduced(t.a), t.b)
            ELSE IF ~IsValue(t.b) THEN Op(t.op, t.a, Reduced(t.b))
            ELSE IF t.op = App THEN Subst(t.a.body, t.a.name, t.b)
            ELSE Num(Arithmetic(t.op, t.a.num, t.b.num))

-----------------------------------------------------------------------------
Init == status = "loading" /\ program = NoExpr /\ term = NoExpr

(* The program is read, and accepted or not.                               *)
Load ==
    /\ status = "loading"
    /\ \/ status' = "running" /\ term' = Mark(program', {})
       \/ status' = "syntax" /\ UNCHANGED <<program, term>>

Reduce ==
    /\ status = "running" /\ ~IsValue(term) /\ Stuck(term) = "none"
    /\ term' = Reduced(term)
    /\ UNCHANGED <<program, status>>

(* The program ends with an error.                                         *)
Fail ==
    /\ status = "running" /\ ~IsValue(term) /\ Stuck(term) # "none"
    /\ status' = Stuck(term)
    /\ UNCHANGED <<program, term>>

(* It is evaluated again, or ends with its value.                          *)
Finish ==
    /\ status = "running" /\ IsValue(term)
    /\ \/ term' = Mark(program, {}) /\ UNCHANGED <<program, status>>
       \/ status' = "value" /\ UNCHANGED <<program, term>>

(* Memory runs out.                                                        *)
Abort ==
    /\ status \in {"loading", "running"} /\ status' \in {"memory", "trap"}
    /\ UNCHANGED <<program, term>>

Next == Load \/ Reduce \/ Fail \/ Finish \/ Abort

Spec == Init /\ [][Next]_vars
=============================================================================
