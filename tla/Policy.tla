------------------------------- MODULE Policy -------------------------------
(***************************************************************************)
(* brolga-config/src/policy.rs over the markings of                        *)
(* brolga-model/src/marking.rs: what an identity may do with what is       *)
(* marked how.  A marking is a kind with a level, a caveat or a source.    *)
(***************************************************************************)
EXTENDS Absence, Integers, FiniteSets, Sequences

TlpLevel == <<"clear", "green", "amber", "amber_strict", "red">>
PapLevel == <<"clear", "green", "amber", "red">>

Tlp(level)         == <<"tlp", level>>
Pap(level)         == <<"pap", level>>
Handling(caveat)   == <<"handling", caveat>>
Attribution(whose) == <<"attribution", whose>>

(* A level of a later build ranks above all of this one's.                 *)
RankOf(levels, level) ==
  IF \E i \in DOMAIN levels : levels[i] = level
  THEN CHOOSE i \in DOMAIN levels : levels[i] = level
  ELSE Len(levels) + 1

TlpRank(level) == RankOf(TlpLevel, level)
PapRank(level) == RankOf(PapLevel, level)

LevelsIn(markings, kind) == {m[2] : m \in {n \in markings : n[1] = kind}}

MostRestrictive(markings, kind, levels) ==
  LET found == LevelsIn(markings, kind) IN
  IF found = {} THEN None
  ELSE CHOOSE l \in found : \A k \in found : RankOf(levels, k) <= RankOf(levels, l)

MostRestrictiveTlp(markings) == MostRestrictive(markings, "tlp", TlpLevel)
MostRestrictivePap(markings) == MostRestrictive(markings, "pap", PapLevel)

-----------------------------------------------------------------------------
Capabilities == {"read", "expand_canonical", "expand_source", "redistribute"}

Identity(name, tlp, pap, capabilities, cleared) ==
  [name |-> name, max_tlp |-> tlp, max_pap |-> pap, capabilities |-> capabilities,
   cleared |-> cleared]

Anonymous == Identity("anonymous", "clear", "clear", {"read"}, {})
LocalOperator == Identity("local-operator", "red", "red", Capabilities, {})

WithMaxTlp(identity, level) == [identity EXCEPT !.max_tlp = level]
WithCapability(identity, c) == [identity EXCEPT !.capabilities = @ \union {c}]
ClearedFor(identity, caveat) == [identity EXCEPT !.cleared = @ \union {caveat}]

Can(identity, capability) == capability \in identity.capabilities

(* What one marking has against it.  A caveat that is not cleared denies;  *)
(* attribution constrains redistribution alone.                            *)
Denial(identity, marking, capability) ==
  CASE marking[1] = "tlp" /\ TlpRank(marking[2]) > TlpRank(identity.max_tlp)
         -> "tlp_above_ceiling"
    [] marking[1] = "pap" /\ PapRank(marking[2]) > PapRank(identity.max_pap)
         -> "pap_above_ceiling"
    [] marking[1] = "handling" /\ marking[2] \notin identity.cleared
         -> "handling_not_cleared"
    [] marking[1] = "attribution" /\ capability = "redistribute"
         -> "attribution_required"
    [] OTHER -> None

(* Every reason is collected, not the first.                               *)
Denials(identity, markings, capability) ==
  {<<None, "missing_capability">> : c \in {capability} \ identity.capabilities}
  \union {<<m, Denial(identity, m, capability)>> :
            m \in {n \in markings : Denial(identity, n, capability) # None}}

Allowed(identity, markings, capability) == Denials(identity, markings, capability) = {}

(* Records with their markings: those allowed, in their order, and as many *)
(* denials as the others meet, of the first n records.                     *)
Split(identity, records, capability) ==
  LET split[n \in 0..Len(records)] ==
        IF n = 0 THEN [allowed |-> <<>>, denials |-> 0]
        ELSE LET found == Denials(identity, records[n].markings, capability)
             IN IF found = {}
                THEN [split[n - 1] EXCEPT !.allowed = Append(@, records[n])]
                ELSE [split[n - 1] EXCEPT !.denials = @ + Cardinality(found)]
  IN split

Partition(identity, records, capability) ==
  Split(identity, records, capability)[Len(records)]
=============================================================================
