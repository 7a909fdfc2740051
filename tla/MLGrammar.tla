------------------------------ MODULE MLGrammar ------------------------------
(***************************************************************************)
(* The grammar of the interpreter's language, as the comment in ml.c has   *)
(* it, and which of its readings of an ambiguous program is meant:         *)
(*                                                                         *)
(*   E ::= x | n | if E then E else E | fn x . E | E E | E op E | (E)      *)
(*                                                                         *)
(* This is a reference for the parser.  It does not go through the tokens  *)
(* in their order but looks for the operator at which to split them.       *)
(***************************************************************************)
EXTENDS MLParse, FiniteSets, FiniteSetsExt

Keywords == {<<"i", "f">>, <<"f", "n">>, <<"t", "h", "e", "n">>,
             <<"e", "l", "s", "e">>}

(* The operators from the one that binds least to the one that binds most. *)
Precedence == <<<<":", ":">>, <<">">>, <<"<">>, <<"+">>, <<"-">>,
                <<"*">>, <<"/">>, App>>

(* The tokens of a file from index on, and what ends them.                 *)
RECURSIVE Tokens(_, _)
Tokens(file, index) ==
    LET t == lex(file, index) IN
    IF t.type \in {"TKEOF", "exit"} THEN <<t>>
    ELSE <<t>> \o Tokens(file, t.next)

IsSymbol(t, str) == parse_tok_eq(t, "TKSYM", str)
IsWord(t, str) == parse_tok_eq(t, "TKWORD", str)
IsName(t) == t.type = "TKWORD" /\ t.str \notin Keywords
OpensBody(t) == IsWord(t, <<"f", "n">>) \/ IsWord(t, <<"i", "f">>)

(* The number of parentheses that are open before token i.                 *)
Depth(ts, i) == Cardinality({j \in 1 .. (i - 1) : IsSymbol(ts[j], <<"(">>)})
                - Cardinality({j \in 1 .. (i - 1) : IsSymbol(ts[j], <<")">>)})

(* Neither in parentheses nor in the body of a function or conditional,    *)
(* which goes on as far as it can.                                         *)
TopLevel(ts, i) ==
    /\ Depth(ts, i) = 0
    /\ \A j \in 1 .. (i - 1) : Depth(ts, j) = 0 => ~OpensBody(ts[j])

StartsOperand(t) ==
    IsName(t) \/ OpensBody(t) \/ t.type = "TKINT" \/ IsSymbol(t, <<"(">>)
EndsOperand(t) == IsName(t) \/ t.type = "TKINT" \/ IsSymbol(t, <<")">>)

(* The places where ts may be split at an operator of the level.           *)
Splits(ts, level) ==
    {i \in DOMAIN ts :
        /\ TopLevel(ts, i)
        /\ IF Precedence[level] = App
           THEN i > 1 /\ StartsOperand(ts[i]) /\ EndsOperand(ts[i - 1])
           ELSE IsSymbol(ts[i], Precedence[level])}

(* The `then' or `else' that belongs to what begins after token i.         *)
Matches(ts, i, j, word) ==
    /\ IsWord(ts[j], word) /\ Depth(ts, j) = Depth(ts, i)
    /\ Cardinality({k \in (i + 1) .. (j - 1) : IsWord(ts[k], <<"i", "f">>)})
       = Cardinality({k \in (i + 1) .. (j - 1) : IsWord(ts[k], <<"e", "l", "s", "e">>)})

Branches(ts) ==
    {<<i, j>> \in (DOMAIN ts) \X (DOMAIN ts) :
        /\ 1 < i /\ i < j
        /\ Matches(ts, 1, i, <<"t", "h", "e", "n">>)
        /\ Matches(ts, i, j, <<"e", "l", "s", "e">>)
        /\ \A k \in 2 .. (i - 1) : ~Matches(ts, 1, k, <<"t", "h", "e", "n">>)
        /\ \A k \in (i + 1) .. (j - 1) : ~Matches(ts, i, k, <<"e", "l", "s", "e">>)}

Build(op, a, b) == IF a = NoExpr \/ b = NoExpr THEN NoExpr ELSE Op(op, a, b)

(* The expression that the tokens ts stand for, or NoExpr: an operator     *)
(* that binds less is split at first, and of several the last one.         *)
RECURSIVE Reading(_)
Reading(ts) ==
    LET n == Len(ts)
        levels == {l \in DOMAIN Precedence : Splits(ts, l) # {}}
        Part(i, j) == Reading(SubSeq(ts, i, j))
    IN
    CASE n = 0 -> NoExpr
      [] n > 0 /\ levels # {} ->
            LET op == Precedence[Min(levels)]
                i == Max(Splits(ts, Min(levels)))
            IN Build(op, Part(1, i - 1), Part(IF op = App THEN i ELSE i + 1, n))
      [] n = 1 /\ levels = {} ->
            IF IsName(ts[1]) THEN Name(ts[1].str)
            ELSE IF ts[1].type = "TKINT" THEN Num(parse_num_value[ts[1].str])
            ELSE NoExpr
      [] n > 1 /\ levels = {} ->
            IF IsSymbol(ts[1], <<"(">>)
            THEN IF IsSymbol(ts[n], <<")">>) /\ \A i \in 2 .. n : Depth(ts, i) > 0
                 THEN Part(2, n - 1) ELSE NoExpr
            ELSE IF IsWord(ts[1], <<"f", "n">>)
            THEN IF n > 3 /\ IsName(ts[2]) /\ IsSymbol(ts[3], <<".">>)
                    /\ Part(4, n) # NoExpr
                 THEN Fn(ts[2].str, Part(4, n)) ELSE NoExpr
            ELSE IF IsWord(ts[1], <<"i", "f">>) /\ Branches(ts) # {}
            THEN LET b == CHOOSE b \in Branches(ts) : TRUE
                     parts == <<Part(2, b[1] - 1), Part(b[1] + 1, b[2] - 1),
                                Part(b[2] + 1, n)>>
                 IN IF \E i \in 1 .. 3 : parts[i] = NoExpr THEN NoExpr
                    ELSE If(parts[1], parts[2], parts[3])
            ELSE NoExpr

(* A keyword is used as a name.                                            *)
RECURSIVE NamesKeyword(_)
NamesKeyword(e) ==
    CASE e.type = "name" -> e.name \in Keywords
      [] e.type = "fn" -> e.name \in Keywords \/ NamesKeyword(e.body)
      [] e.type = "op" -> NamesKeyword(e.a) \/ NamesKeyword(e.b)
      [] e.type = "if" -> \E x \in {e.cond, e.a, e.b} : NamesKeyword(x)
      [] OTHER -> FALSE
=============================================================================
