------------------------------- MODULE MLParse -------------------------------
(***************************************************************************)
(* The lexer and the parser of the ML interpreter (ml/lex.c, ml/parse.c).  *)
(*                                                                         *)
(* A program is a sequence of characters, which are strings of length 1;   *)
(* its positions are counted from 1.  The parser asks the lexer for one    *)
(* token at a time.  Its state is that token together with the position    *)
(* after it (lex_state.index); the state Exit stands for exit(1).  Each    *)
(* parse function maps a state to an expression and the state after it.    *)
(* From Exit they all lead to Exit, since it matches no token.             *)
(***************************************************************************)
EXTENDS Integers, Sequences

CONSTANT Width      \* bits of num_t: 32 in the code

ASSUME WidthAssumption == Width \in Nat \ {0}

Symbols == {"<", ">", "+", "-", "*", "/", "(", ")", "=", ":", "|", ";", "."}
Letters == {"a", "b", "c", "d", "e", "f", "g", "h", "i", "j", "k", "l", "m",
            "n", "o", "p", "q", "r", "s", "t", "u", "v", "w", "x", "y", "z",
            "A", "B", "C", "D", "E", "F", "G", "H", "I", "J", "K", "L", "M",
            "N", "O", "P", "Q", "R", "S", "T", "U", "V", "W", "X", "Y", "Z"}
Digits == <<"0", "1", "2", "3", "4", "5", "6", "7", "8", "9">>
Whitespace == {" ", "\t", "\n", "\r"}

DigitChars == {Digits[i] : i \in DOMAIN Digits}

(* What a num_t holds after an operation with the result n: the build's    *)
(* arithmetic wraps around.                                                *)
Wrap(n) == ((n + 2 ^ (Width - 1)) % 2 ^ Width) - 2 ^ (Width - 1)

-----------------------------------------------------------------------------
(* The lexer.                                                              *)

Token(type, str, next) == [type |-> type, str |-> str, next |-> next]

Exit == Token("exit", <<>>, 0)

(* The first position from i on whose character is not in C.               *)
EndOfRun(file, i, C) ==
    CHOOSE j \in i .. (Len(file) + 1) :
        /\ \A k \in i .. (j - 1) : file[k] \in C
        /\ j <= Len(file) => file[j] \notin C

(* The token of the type that begins at i and goes on while there are      *)
(* characters of C.                                                        *)
Lexeme(type, file, i, C) ==
    LET j == EndOfRun(file, i + 1, C) IN Token(type, SubSeq(file, i, j - 1), j)

(* lex() with lex_state.index at index.                                    *)
lex(file, index) ==
    LET i == EndOfRun(file, index, Whitespace) IN
    IF i > Len(file) THEN Token("TKEOF", <<>>, i)
    ELSE CASE file[i] \in Symbols -> Lexeme("TKSYM", file, i, {">", ":"})
           [] file[i] \in Letters -> Lexeme("TKWORD", file, i, Letters)
           [] file[i] \in DigitChars -> Lexeme("TKINT", file, i, DigitChars)
           [] OTHER -> Exit

-----------------------------------------------------------------------------
(* The parser's tests on the token.                                        *)

parse_tok_eq(tok, type, str) == tok.type = type /\ tok.str = str

parse_get_next_tok(file, tok) ==
    IF tok = Exit THEN Exit ELSE lex(file, tok.next)

parse_eof_error(tok) == IF tok.type = "TKEOF" THEN Exit ELSE tok

(* Defect: any token will do.                                              *)
parse_expectAny(tok, type, str) == tok

parse_expect(tok, type, str) ==
    IF parse_tok_eq(tok, type, str) THEN tok ELSE Exit

(* parse_expect(TKWORD, any string).                                       *)
ExpectName(tok) == IF tok.type = "TKWORD" THEN tok ELSE Exit

(* The next token, which must not be the end of the file.                  *)
Advance(file, tok) == parse_eof_error(parse_get_next_tok(file, tok))

parser_is_at_start_of_expression(tok) ==
    \/ tok.type = "TKWORD" /\ tok.str \notin {<<"t", "h", "e", "n">>, <<"e", "l", "s", "e">>}
    \/ parse_tok_eq(tok, "TKSYM", <<"(">>)
    \/ tok.type = "TKINT"

-----------------------------------------------------------------------------
(* Expressions.                                                            *)

NoExpr == [type |-> "none"]
Num(n) == [type |-> "num", num |-> n]
Name(x) == [type |-> "name", name |-> x]
Fn(x, body) == [type |-> "fn", name |-> x, body |-> body]
If(cond, a, b) == [type |-> "if", cond |-> cond, a |-> a, b |-> b]
Op(op, a, b) == [type |-> "op", op |-> op, a |-> a, b |-> b]

App == <<>>       \* the operator "" of a function application

(* Defect: + binds tighter than -.                                         *)
OperatorsSwapped == <<<<":", ":">>, <<">">>, <<"<">>, <<"-">>, <<"+">>,
                      <<"*">>, <<"/">>, App>>

(* parse_cons ... parse_app: the operators from the one that binds least   *)
(* to the one that binds most.                                             *)
Operators == <<<<":", ":">>, <<">">>, <<"<">>, <<"+">>, <<"-">>,
               <<"*">>, <<"/">>, App>>

Parsed(expr, tok) == [expr |-> expr, tok |-> tok]

parse_num_value[str \in Seq(DigitChars)] ==
    IF str = <<>> THEN 0
    ELSE LET n == Len(str) IN
         Wrap(parse_num_value[SubSeq(str, 1, n - 1)] * 10
              + (CHOOSE d \in DOMAIN Digits : Digits[d] = str[n]) - 1)

(* Is the token the operator of the level?                                 *)
AtOperator(level, tok) ==
    IF Operators[level] = App THEN parser_is_at_start_of_expression(tok)
    ELSE parse_tok_eq(tok, "TKSYM", Operators[level])

(* The state in which the right operand is parsed.                         *)
AfterOperator(level, file, tok) ==
    IF Operators[level] = App THEN tok ELSE Advance(file, tok)

RECURSIVE parse_op(_, _, _)
RECURSIVE OpLoop(_, _, _, _)
RECURSIVE parse_base_expr(_, _)

parse(file, tok) == parse_op(1, file, tok)

(* parse_op for the operator of the level, which is that of parse_base_expr *)
(* after the last of them.                                                 *)
parse_op(level, file, tok) ==
    IF level > Len(Operators) THEN parse_base_expr(file, tok)
    ELSE LET a == parse_op(level + 1, file, tok) IN
         OpLoop(level, file, a.expr, a.tok)

(* The while loop of parse_op: as long as the operator follows, what was   *)
(* parsed so far becomes the left operand.                                 *)
OpLoop(level, file, a, tok) ==
    IF AtOperator(level, tok)
    THEN LET b == parse_op(level + 1, file, AfterOperator(level, file, tok)) IN
         OpLoop(level, file, Op(Operators[level], a, b.expr), b.tok)
    ELSE Parsed(a, tok)

(* The else branch is not optional, and takes in all that follows.         *)
parse_if(file, tok) ==
    LET cond == parse(file, Advance(file, tok))
        then == parse_expect(cond.tok, "TKWORD", <<"t", "h", "e", "n">>)
        a == parse(file, Advance(file, then))
        else == parse_expect(a.tok, "TKWORD", <<"e", "l", "s", "e">>)
        b == parse(file, Advance(file, else))
    IN Parsed(If(cond.expr, a.expr, b.expr), b.tok)

parse_fn(file, tok) ==
    LET name == ExpectName(Advance(file, tok))
        dot == parse_expect(Advance(file, name), "TKSYM", <<".">>)
        body == parse(file, Advance(file, dot))
    IN Parsed(Fn(name.str, body.expr), body.tok)

(* ( E )                                                                   *)
Group(file, tok) ==
    LET e == parse(file, parse_get_next_tok(file, tok)) IN
    Parsed(e.expr,
           parse_get_next_tok(file, parse_expect(e.tok, "TKSYM", <<")">>)))

parse_base_expr(file, tok) ==
    CASE parse_tok_eq(tok, "TKWORD", <<"i", "f">>) -> parse_if(file, tok)
      [] parse_tok_eq(tok, "TKWORD", <<"f", "n">>) -> parse_fn(file, tok)
      [] tok.type = "TKWORD" /\ tok.str \notin {<<"i", "f">>, <<"f", "n">>} ->
            Parsed(Name(tok.str), parse_get_next_tok(file, tok))
      [] tok.type = "TKINT" ->
            Parsed(Num(parse_num_value[tok.str]), parse_get_next_tok(file, tok))
      [] parse_tok_eq(tok, "TKSYM", <<"(">>) -> Group(file, tok)
      [] OTHER -> Parsed(NoExpr, Exit)        \* parse_unexpected()

(* main: parse_init(), then one parse().  What follows the expression is   *)
(* not looked at, except for the one token that ended it.                  *)
ParseProgram(file) == parse(file, lex(file, 1))
=============================================================================
