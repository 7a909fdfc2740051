------------------------------ MODULE MLInterp ------------------------------
(***************************************************************************)
(* The ML interpreter (ml/ml.c, ml/eval.c): it reads a program, parses it  *)
(* and evaluates it a fixed number of times.                               *)
(*                                                                         *)
(* eval is a recursive C function.  Its activations that wait for another  *)
(* one are the frames of stack; the one that runs either begins to         *)
(* evaluate cur, an expression in an environment, or returns val.  A call  *)
(* whose result is returned at once leaves no frame.  An environment is    *)
(* the sequence of its entries, the newest first.                          *)
(***************************************************************************)
EXTENDS MLGrammar

CONSTANTS
    Programs,   \* the programs that are given to the interpreter
    Repeats     \* how many times main evaluates the expression: 10 in the code

ASSUME RepeatsAssumption == Repeats \in Nat \ {0}

VARIABLES
    file,       \* lex_state.file
    status,     \* "loading", "running", or how the interpreter has ended
    tok,        \* the parser's state after parse()
    expr,       \* the expression that main evaluates
    pc,         \* "eval": cur is to be evaluated, "return": val is returned
    cur,
    val,
    stack,      \* the frames, the innermost first
    round       \* evaluations that are finished

vars == <<file, status, tok, expr, pc, cur, val, stack, round>>

NumVal(n) == [type |-> "num", num |-> n]
FnVal(name, body, env) == [type |-> "fn", name |-> name, body |-> body, env |-> env]

Init ==
    /\ file \in Programs
    /\ status = "loading" /\ tok = Exit /\ expr = NoExpr
    /\ pc = "eval" /\ cur = [expr |-> NoExpr, env |-> <<>>] /\ val = NumVal(0)
    /\ stack = <<>> /\ round = 0

-----------------------------------------------------------------------------
(* lex_read_string, parse_init, parse.                                     *)
Parse ==
    LET r == ParseProgram(file) IN
    /\ status = "loading"
    /\ \/ /\ r.tok = Exit
          /\ status' = "syntax"
          /\ UNCHANGED <<tok, expr, cur>>
       \/ /\ r.tok # Exit
          /\ status' = "running" /\ tok' = r.tok /\ expr' = r.expr
          /\ cur' = [expr |-> r.expr, env |-> <<>>]
    /\ UNCHANGED <<file, pc, val, stack, round>>

Evaluating(type) == status = "running" /\ pc = "eval" /\ cur.expr.type = type

Main == <<file, tok, expr, round>>

Fail(why) == status' = why /\ UNCHANGED <<file, tok, expr, pc, cur, val, stack, round>>

(* The activation that runs returns v.                                     *)
Return(v) ==
    /\ val' = v /\ pc' = "return"
    /\ UNCHANGED <<Main, status, cur, stack>>

(* The activation that runs calls eval(e, env) and waits for it.           *)
Call(e, env, frame) ==
    /\ stack' = <<frame>> \o stack
    /\ cur' = [expr |-> e, env |-> env]
    /\ UNCHANGED <<Main, status, pc, val>>

EvalIf ==
    /\ Evaluating("if")
    /\ Call(cur.expr.cond, cur.env,
            [at |-> "cond", expr |-> cur.expr, env |-> cur.env])

EvalOp ==
    /\ Evaluating("op")
    /\ Call(cur.expr.a, cur.env,
            [at |-> "left", expr |-> cur.expr, env |-> cur.env])

EvalNum == Evaluating("num") /\ Return(NumVal(cur.expr.num))

EvalFn ==
    /\ Evaluating("fn")
    /\ Return(FnVal(cur.expr.name, cur.expr.body, cur.env))

(* The value of the newest entry of the name.                              *)
lookup(name, env) ==
    env[Min({i \in DOMAIN env : env[i].name = name})].val

EvalName ==
    LET name == cur.expr.name IN
    /\ Evaluating("name")
    /\ \/ /\ \E i \in DOMAIN cur.env : cur.env[i].name = name
          /\ Return(lookup(name, cur.env))
       \/ /\ \A i \in DOMAIN cur.env : cur.env[i].name # name
          /\ Fail("unbound")

-----------------------------------------------------------------------------
Returning(at) ==
    status = "running" /\ pc = "return" /\ stack # <<>> /\ Head(stack).at = at

(* return eval(e, env): the activation ends with the call.                 *)
Continue(e, env) ==
    /\ cur' = [expr |-> e, env |-> env] /\ pc' = "eval"
    /\ stack' = Tail(stack)
    /\ UNCHANGED <<Main, status, val>>

ReturnCond ==
    LET f == Head(stack) IN
    /\ Returning("cond")
    /\ \/ val.type # "num" /\ Fail("type")
       \/ /\ val.type = "num"
          /\ Continue(IF val.num # 0 THEN f.expr.a ELSE f.expr.b, f.env)

(* The left operand is known; the right one is always evaluated, too.      *)
ReturnLeft ==
    LET f == Head(stack) IN
    /\ Returning("left")
    /\ cur' = [expr |-> f.expr.b, env |-> f.env] /\ pc' = "eval"
    /\ stack' = <<[at |-> "right", expr |-> f.expr, env |-> f.env, a |-> val]>>
                \o Tail(stack)
    /\ UNCHANGED <<Main, status, val>>

(* C's a / b.                                                              *)
Divide(a, b) ==
    LET q == (IF a < 0 THEN -a ELSE a) \div (IF b < 0 THEN -b ELSE b) IN
    IF (a < 0) = (b < 0) THEN q ELSE -q

(* The switch on the first character of the operator.                      *)
OpResult(op, a, b) ==
    CASE op = ":" -> 0
      [] op = "<" -> IF a < b THEN 1 ELSE 0
      [] op = ">" -> IF a > b THEN 1 ELSE 0
      [] op = "+" -> Wrap(a + b)
      [] op = "-" -> Wrap(a - b)
      [] op = "*" -> Wrap(a * b)
      [] op = "/" -> IF b # 0 THEN Wrap(Divide(a, b)) ELSE 0

(* The values of the operands of frame f are of the type that it needs.    *)
WellTyped(f) ==
    IF f.expr.op = App THEN f.a.type = "fn"
    ELSE f.a.type = "num" /\ val.type = "num"

Operate(f) ==
    /\ val' = NumVal(OpResult(f.expr.op[1], f.a.num, val.num))
    /\ stack' = Tail(stack)
    /\ UNCHANGED <<Main, status, pc, cur>>

(* Defect: the body is evaluated in the environment of the caller.         *)
ApplyDynamic(f) ==
    Continue(f.a.body, <<[name |-> f.a.name, val |-> val]>> \o f.env)

(* The body is evaluated in the function's own environment, with a new     *)
(* entry for the argument.                                                 *)
Apply(f) ==
    Continue(f.a.body, <<[name |-> f.a.name, val |-> val]>> \o f.a.env)

ReturnRight ==
    LET f == Head(stack) IN
    /\ Returning("right")
    /\ \/ ~WellTyped(f) /\ Fail("type")
       \/ WellTyped(f) /\ f.expr.op # App /\ Operate(f)
       \/ WellTyped(f) /\ f.expr.op = App /\ Apply(f)

(* The loop of main.                                                       *)
Finish ==
    /\ status = "running" /\ pc = "return" /\ stack = <<>>
    /\ round' = round + 1
    /\ \/ /\ round + 1 < Repeats
          /\ pc' = "eval" /\ cur' = [expr |-> expr, env |-> <<>>]
          /\ UNCHANGED status
       \/ /\ round + 1 = Repeats
          /\ status' = "value"
          /\ UNCHANGED <<pc, cur>>
    /\ UNCHANGED <<file, tok, expr, val, stack>>

(* ml_malloc fails.  All the callers test for that and exit, except for    *)
(* lex, which then writes through the invalid capability.                  *)
OutOfMemory ==
    \/ status = "loading" /\ \E why \in {"memory", "trap"} : Fail(why)
    \/ (Evaluating("num") \/ Evaluating("fn")) /\ Fail("memory")
    \/ Returning("right") /\ WellTyped(Head(stack)) /\ Fail("memory")

Next ==
    \/ Parse
    \/ EvalIf \/ EvalOp \/ EvalNum \/ EvalFn \/ EvalName
    \/ ReturnCond \/ ReturnLeft \/ ReturnRight
    \/ Finish
    \/ OutOfMemory

Spec == Init /\ [][Next]_vars

-----------------------------------------------------------------------------
(* Properties.                                                             *)

(* The tokens of the program without what ends them.                       *)
AllTokens == LET ts == Tokens(file, 1) IN SubSeq(ts, 1, Len(ts) - 1)

LexesWholly == LET ts == Tokens(file, 1) IN ts[Len(ts)].type = "TKEOF"

(* The tokens that the parser has made an expression of.                   *)
Consumed ==
    IF tok.type = "TKEOF" THEN AllTokens
    ELSE LET Before(t) == t.next < tok.next IN SelectSeq(AllTokens, Before)

(* Parse has just been made.  The properties below need not be evaluated   *)
(* in later states, since tok and expr no longer change.                   *)
AfterParse ==
    \/ status = "syntax"
    \/ /\ status = "running" /\ round = 0 /\ pc = "eval"
       /\ stack = <<>> /\ cur = [expr |-> expr, env |-> <<>>]

(* Every program that the grammar has a reading of is accepted, as a       *)
(* whole, and gets that reading: precedence, grouping to the left, and     *)
(* bodies that go on as far as they can (parse_op, parse_if, parse_fn).    *)
ParseComplete ==
    AfterParse /\ LexesWholly /\ Reading(AllTokens) # NoExpr =>
        /\ status = "running"
        /\ tok.type = "TKEOF" /\ expr = Reading(AllTokens)

(* What the parser accepts is the reading of the tokens that it consumed,  *)
(* unless it took a keyword for a name; an incomplete program is never     *)
(* accepted (parse_expect, parse_eof_error).                               *)
ParseSound ==
    AfterParse /\ tok # Exit /\ ~NamesKeyword(expr) => Reading(Consumed) = expr

(* The closed term for e in the environment env, where the names in bound  *)
(* are bound by functions around e.                                        *)
RECURSIVE Closed(_, _, _)
Closed(e, env, bound) ==
    CASE e.type = "name" ->
            IF e.name \in bound THEN e
            ELSE IF \E i \in DOMAIN env : env[i].name = e.name
                 THEN LET i == Min({j \in DOMAIN env : env[j].name = e.name})
                          v == env[i].val
                      IN IF v.type = "num" THEN Num(v.num)
                         ELSE Fn(v.name, Closed(v.body, v.env, {v.name}))
                 ELSE [type |-> "free", name |-> e.name]
      [] e.type = "fn" -> Fn(e.name, Closed(e.body, env, bound \cup {e.name}))
      [] e.type = "if" -> If(Closed(e.cond, env, bound), Closed(e.a, env, bound),
                             Closed(e.b, env, bound))
      [] e.type = "op" -> Op(e.op, Closed(e.a, env, bound), Closed(e.b, env, bound))
      [] OTHER -> e

ValueTerm(v) ==
    IF v.type = "num" THEN Num(v.num)
    ELSE Fn(v.name, Closed(v.body, v.env, {v.name}))

(* The term t in the place for which the frames wait.                      *)
RECURSIVE Plug(_, _)
Plug(frames, t) ==
    IF frames = <<>> THEN t
    ELSE LET f == Head(frames)
             e == f.expr
         IN Plug(Tail(frames),
                 CASE f.at = "cond" -> If(t, Closed(e.a, f.env, {}), Closed(e.b, f.env, {}))
                   [] f.at = "left" -> Op(e.op, t, Closed(e.b, f.env, {}))
                   [] f.at = "right" -> Op(e.op, ValueTerm(f.a), t))

Term == Plug(stack, IF pc = "eval" THEN Closed(cur.expr, cur.env, {})
                                   ELSE ValueTerm(val))

Semantics == INSTANCE MLSemantics WITH program <- expr, term <- Term

(* eval computes what call-by-value reduction by substitution computes,    *)
(* step by step, and reports an unbound variable or a type error exactly   *)
(* when the reduction cannot go on (ml.c:130-133): an environment that is  *)
(* saved in a function value, extended by a call and looked up later means *)
(* the same as substitution.                                               *)
ImplementsSemantics == Semantics!Spec
=============================================================================
