---------------------------- MODULE QueryLanguage ----------------------------
(***************************************************************************)
(* brolga-query: the expression of a search (parse.rs), what it is made of *)
(* (syntax.rs) and the typed filter it compiles to (compile.rs), which the *)
(* search of the command line widens by its flags (graph_commands.rs).     *)
(*                                                                         *)
(* An expression is a sequence of pieces, each what the lexer makes of the *)
(* bytes there: "word" and "quoted" with their text, a mark or a keyword   *)
(* as itself, "space", and "bad" for what is no piece.                     *)
(***************************************************************************)
EXTENDS Absence, Integers, Sequences, SequencesExt

EntityKinds == {"actor", "tool"}             \* EntityKind::all
LifecycleStatuses == {"active", "revoked"}   \* LifecycleStatus::all

Named == [kind |-> EntityKinds, status |-> LifecycleStatuses]
Fields == DOMAIN Named
Operators == {"=", "!="}

Refused(why) == [refused |-> why]
IsRefused(result) == "refused" \in DOMAIN result

-----------------------------------------------------------------------------
(* The limit is looked at before each byte, so also before a space.        *)
LexPiece(lexed, piece, limits) ==
  IF IsRefused(lexed) \/ Len(lexed.tokens) >= limits.max_tokens
  THEN IF IsRefused(lexed) THEN lexed ELSE Refused("limit")
  ELSE CASE piece.is = "space" -> lexed
         [] piece.is = "bad"   -> Refused("lex")
         [] OTHER               -> [tokens |-> Append(lexed.tokens, piece)]

EndOfInput == [is |-> "eof"]

Ended(lexed, limits) ==
  CASE IsRefused(lexed) -> lexed
    [] OTHER -> IF Len(lexed.tokens) + 1 > limits.max_tokens THEN Refused("limit")
                ELSE [tokens |-> Append(lexed.tokens, EndOfInput)]

Lex(input, limits) ==
  Ended(FoldLeft(LAMBDA lexed, piece : LexPiece(lexed, piece, limits), [tokens |-> <<>>], input), limits)

-----------------------------------------------------------------------------
(* What is parsed so far: an expression, and the token that is next.  An   *)
(* expression keeps its depth, which depth() counts whenever it is asked.  *)
Parsed(expr, at) == [expr |-> expr, at |-> at]
Bump(tokens, at) == IF at < Len(tokens) THEN at + 1 ELSE at
Deeper(a, b) == 1 + (IF a > b THEN a ELSE b)

Joined(op, left, right) ==
  IF IsRefused(right) THEN right
  ELSE Parsed([op |-> op, left |-> left.expr, right |-> right.expr,
               depth |-> Deeper(left.expr.depth, right.expr.depth)], right.at)

Grouped(tokens, inner) ==
  CASE IsRefused(inner) -> inner
    [] OTHER -> IF tokens[inner.at].is # ")" THEN Refused("parse")
                ELSE Parsed([op |-> "group", inner |-> inner.expr, depth |-> 1 + inner.expr.depth],
                            Bump(tokens, inner.at))

ComparisonAt(tokens, field, op, value) ==
  IF tokens[field].text \in Fields /\ tokens[op].is \in Operators /\ tokens[value].is \in {"word", "quoted"}
  THEN Parsed([op |-> tokens[op].is, field |-> tokens[field].text, value |-> tokens[value].text, depth |-> 1],
              Bump(tokens, value))
  ELSE Refused("parse")

(* parse_and and parse_or: to the left of an operator there is what was    *)
(* joined so far, to its right one operand.                                *)
Chain(tokens, op, operand, at) ==
  FoldLeft(LAMBDA left, token :
             IF IsRefused(left) THEN left
             ELSE IF tokens[left.at].is # op THEN left
             ELSE Joined(op, left, operand[Bump(tokens, left.at)]),
           operand[at], tokens)

ParsePrimary(tokens, at, whole) ==
  CASE tokens[at].is = "("    -> Grouped(tokens, whole[Bump(tokens, at)])
    [] tokens[at].is = "word" -> ComparisonAt(tokens, at, Bump(tokens, at), Bump(tokens, Bump(tokens, at)))
    [] OTHER                  -> Refused("parse")

(* What each of the three reads from a token on.                           *)
ParseOr(tokens, from) ==
  LET Read[p \in {"or", "and", "primary"} \X DOMAIN tokens] ==
        LET From(level) == [i \in p[2] .. Len(tokens) |-> Read[<<level, i>>]] IN
        CASE p[1] = "or"      -> Chain(tokens, "or", From("and"), p[2])
          [] p[1] = "and"     -> Chain(tokens, "and", From("primary"), p[2])
          [] p[1] = "primary" -> ParsePrimary(tokens, p[2], From("or")) IN
  Read[<<"or", from>>]

Whole(tokens, parsed, limits) ==
  CASE IsRefused(parsed) -> parsed
    [] OTHER -> IF tokens[parsed.at].is # "eof" THEN Refused("parse")
                ELSE IF parsed.expr.depth > limits.max_depth THEN Refused("limit")
                ELSE [expr |-> parsed.expr]

Parse(input, limits) ==
  CASE Len(input) > limits.max_input_bytes -> Refused("limit")
    [] OTHER -> LET lexed == Lex(input, limits) IN
                IF IsRefused(lexed) THEN lexed
                ELSE Whole(lexed.tokens, ParseOr(lexed.tokens, 1), limits)

-----------------------------------------------------------------------------
Unfiltered == [kinds |-> {}, statuses |-> {}, last_seen_from |-> None, last_seen_before |-> None]

Admitting(query, field, value) ==
  IF field = "kind" THEN [query EXCEPT !.kinds = @ \union {value}]
  ELSE [query EXCEPT !.statuses = @ \union {value}]

(* What either side admits of a field, both together do.                   *)
MergeAnd(a, b) ==
  [kinds |-> a.kinds \union b.kinds, statuses |-> a.statuses \union b.statuses,
   last_seen_from |-> IF a.last_seen_from = None THEN b.last_seen_from ELSE a.last_seen_from,
   last_seen_before |-> IF a.last_seen_before = None THEN b.last_seen_before ELSE a.last_seen_before]

BothOf(a, b) == IF IsRefused(a) THEN a ELSE IF IsRefused(b) THEN b ELSE MergeAnd(a, b)

CompileComparison(expr) ==
  IF expr.op = "=" /\ expr.value \in Named[expr.field] THEN Admitting(Unfiltered, expr.field, expr.value)
  ELSE Refused("compile")

(* An expression with all it is made of.                                   *)
PartsOf(expr) ==
  LET Down[n \in 0 .. expr.depth] ==
        IF n = 0 THEN {expr}
        ELSE UNION {{e[side] : side \in DOMAIN e \cap {"left", "right", "inner"}} : e \in Down[n - 1]} IN
  UNION {Down[n] : n \in 0 .. expr.depth}

CompileExpr(expr) ==
  LET Compiled[e \in PartsOf(expr)] ==
        CASE e.op = "group"      -> Compiled[e.inner]
          [] e.op \in Operators -> CompileComparison(e)
          [] e.op = "and"        -> BothOf(Compiled[e.left], Compiled[e.right])
          [] e.op = "or"         -> Refused("compile") IN
  Compiled[expr]

CompileEntityQuery(input, limits) ==
  LET parsed == Parse(input, limits) IN
  IF IsRefused(parsed) THEN parsed ELSE CompileExpr(parsed.expr)

(* brolga search: a flag names a kind or a status in any spelling, where an *)
(* expression has the one; it admits more of a field the expression has.   *)
Wanted == [actor |-> "actor", tool |-> "tool", Tool |-> "tool",
           active |-> "active", Active |-> "active", revoked |-> "revoked"]
NamedBy(flags) == {IF f \in DOMAIN Wanted THEN Wanted[f] ELSE None : f \in flags}

WithFlags(query, kinds, statuses) ==
  CASE IsRefused(query) -> query
    [] OTHER -> IF ~(NamedBy(kinds) \subseteq EntityKinds /\ NamedBy(statuses) \subseteq LifecycleStatuses)
                THEN Refused("usage")
                ELSE [query EXCEPT !.kinds = @ \union NamedBy(kinds), !.statuses = @ \union NamedBy(statuses)]

SearchFilter(input, limits, kinds, statuses) ==
  WithFlags(IF input = None THEN Unfiltered ELSE CompileEntityQuery(input, limits), kinds, statuses)
=============================================================================
