------------------------------ MODULE MCInterp ------------------------------
(***************************************************************************)
(* Programs for MLInterp: all short sequences of lexemes, for the parser;  *)
(* applications of curried functions to functions, for the environments;   *)
(* and some longer programs, most of them from the comments of ml.c.       *)
(***************************************************************************)
EXTENDS MLInterp, SequencesExt

CONSTANTS
    MaxLexemes,     \* the length of the short programs
    MaxIfLexemes    \* the length of the short programs with conditionals

Chars(s) == [i \in 1 .. Len(s) |-> SubSeq(s, i, i)]

Join(lexemes) ==
    FlattenSeq([i \in DOMAIN lexemes |-> Chars(lexemes[i]) \o <<" ">>])

ShortPrograms ==
    {Join(s) : s \in SeqOf({"x", "1", "(", ")", "-", "+", ".", "fn"}, MaxLexemes)}
    \cup {Join(s) : s \in SeqOf({"if", "then", "else", "x"}, MaxIfLexemes)}

Bodies == {"x", "y", "x y", "y x", "x 1", "fn x . y", "fn z . x", "x - y", "y / x",
           "if x then y else 1", "(fn x . y) 1", "(fn y . x y) 1", "z"}

Arguments == {"0", "2", "(fn x . x)", "(fn y . x)", "(fn z . fn y . z)"}

CurriedPrograms ==
    {Chars("(fn x . fn y . ") \o Chars(b) \o Chars(") ") \o Chars(p)
        \o Chars(" ") \o Chars(q) : b \in Bodies, p \in Arguments, q \in Arguments}

LongPrograms ==
    {Chars(s) : s \in
        {"(fn x . ((fn x . x) 3) + x) 2",
         "((fn f . fn n . if n then n * f (n-1) else 1) (fn n . n)) 5",
         "(fn g . g g 3) (fn g . fn n . if n then n * g g (n-1) else 1)",
         "if if 0 then 1 else 0 then 2 else if 1 then 3 else x",
         "(0-7)/2 + 7/(0-2) * 2", "31 + 1", "99", "1 :: 2 > 1 < 2", "1 ? 2", "1 )",
         "8 / 4 / 2 - 3 - 2", "2 * 3 / 2", "(fn x . x) > 1"}}

MCPrograms == ShortPrograms \cup CurriedPrograms \cup LongPrograms
=============================================================================
