--------------------------------- MODULE Guards ---------------------------------
(***************************************************************************)
(* brolga-security and the transport of brolga-connectors: what stops an   *)
(* operation.  Tokens of cancellation (cancel.rs), ranges of limits        *)
(* (limits.rs), the trust of a value (trust.rs), the addresses that may be *)
(* reached (network.rs) and the requests made under it (transport.rs).     *)
(*                                                                         *)
(* The tokens are a state machine: they are shared by threads, any of      *)
(* which may cancel one or make another of it, while the clock runs.       *)
(***************************************************************************)
EXTENDS Absence, Integers, FiniteSets, Sequences, SequencesExt, FiniteSetsExt

CONSTANTS
  TokenBudgets,   \* what a token may be given, None for a token without
  MaxTokens,      \* bound on the tokens made
  EndOfTime       \* the last instant the clock can say

ASSUME GuardsAssumption ==
  /\ MaxTokens \in Nat /\ EndOfTime \in Nat
  /\ TokenBudgets \subseteq Nat \union {None}
  /\ None \notin Nat /\ None \notin {"requested", "deadline_exceeded"}

VARIABLES
  tokens,   \* Inner of each: [cancelled, deadline, parent]
  clock     \* Instant::now

guardVars == <<tokens, clock>>

-----------------------------------------------------------------------------
(* checked_add: a budget beyond the end of time is no deadline.            *)
DeadlineOf(budget) ==
  IF budget = None \/ clock + budget > EndOfTime THEN None ELSE clock + budget

(* A token's ancestors, itself among them: each was made before its child. *)
Line(t) ==
  LET Up[n \in 0 .. Len(tokens)] ==
        IF n = 0 THEN {t}
        ELSE Up[n - 1] \union ({tokens[u].parent : u \in Up[n - 1]} \ {None}) IN
  Up[Len(tokens)]

(* Mutant: a token of its own deadline has no other.                       *)
EffectiveDeadlineOwn(t) ==
  LET inherited == {tokens[u].deadline : u \in Line(t)} \ {None} IN
  IF tokens[t].deadline # None THEN tokens[t].deadline
  ELSE IF inherited = {} THEN None ELSE Min(inherited)

(* A child may have less time than its parent and never more.              *)
EffectiveDeadline(t) ==
  LET inherited == {tokens[u].deadline : u \in Line(t)} \ {None} IN
  IF inherited = {} THEN None ELSE Min(inherited)

InnerIsCancelled(t) == \E u \in Line(t) : tokens[u].cancelled

Reason(t) ==
  CASE InnerIsCancelled(t)    -> "requested"
    [] ~InnerIsCancelled(t)
         /\ EffectiveDeadline(t) # None /\ clock >= EffectiveDeadline(t) -> "deadline_exceeded"
    [] OTHER                  -> None

IsCancelled(t) == Reason(t) # None
HasDeadline(t) == EffectiveDeadline(t) # None
Remaining(t) == IF ~HasDeadline(t) THEN None ELSE Max({EffectiveDeadline(t) - clock, 0})

MakeToken(parent, budget, cancelled) ==
  /\ Len(tokens) < MaxTokens
  /\ tokens' = Append(tokens, [cancelled |-> cancelled, deadline |-> DeadlineOf(budget), parent |-> parent])
  /\ UNCHANGED clock

NeverCancelled == MakeToken(None, None, FALSE)
WithBudget(budget) == MakeToken(None, budget, FALSE)
AlreadyCancelled == MakeToken(None, None, TRUE)
ChildWithBudget(t, budget) == t \in DOMAIN tokens /\ MakeToken(t, budget, FALSE)
Child(t) == ChildWithBudget(t, None)

Cancel(t) ==
  /\ t \in DOMAIN tokens
  /\ tokens' = [tokens EXCEPT ![t].cancelled = TRUE]
  /\ UNCHANGED clock

Elapse == clock < EndOfTime /\ clock' = clock + 1 /\ UNCHANGED tokens

GuardsInit == tokens = <<>> /\ clock = 0

GuardsNext ==
  \/ NeverCancelled
  \/ AlreadyCancelled
  \/ \E b \in TokenBudgets \ {None} : WithBudget(b)
  \/ \E t \in 1 .. MaxTokens : \/ Child(t)
                               \/ \E b \in TokenBudgets \ {None} : ChildWithBudget(t, b)
                               \/ Cancel(t)
  \/ Elapse

GuardsSpec == GuardsInit /\ [][GuardsNext]_guardVars

(* A token stops no later than the one it is of: when that is cancelled it *)
(* is too, and it never has more time left (cancel.rs:77).                 *)
StopsWithItsParent ==
  \A t \in DOMAIN tokens :
    LET p == tokens[t].parent IN
    p # None =>
      /\ IsCancelled(p) => IsCancelled(t)
      /\ HasDeadline(p) => HasDeadline(t) /\ Remaining(t) <= Remaining(p)

-----------------------------------------------------------------------------
(* Limits: each has a range of the build, a default within it.             *)
Between(min, max, default) == [min |-> min, max |-> max, default |-> default]
InputBounds ==
  [max_bytes |-> Between(1, 2, 1), max_depth |-> Between(1, 2, 1),
   max_records |-> Between(1, 2, 1), max_field_bytes |-> Between(1, 2, 1)]
ArchiveBounds ==
  [max_total_output_bytes |-> Between(1, 4, 2), max_entry_bytes |-> Between(1, 4, 2),
   max_entries |-> Between(1, 2, 2), max_expansion_ratio |-> Between(2, 4, 3),
   max_nesting |-> Between(0, 2, 1)]
XmlBounds ==
  [max_depth |-> Between(1, 2, 1), max_elements |-> Between(1, 4, 2), max_attribute_bytes |-> Between(1, 2, 1)]
ResponseBounds ==
  [max_body_bytes |-> Between(1, 4, 2), max_redirects |-> Between(0, 3, 2), timeout_seconds |-> Between(1, 2, 1)]
ResourceBounds ==
  [input |-> InputBounds, archive |-> ArchiveBounds, xml |-> XmlBounds, response |-> ResponseBounds]

CheckLimit(bounds, value) == value \in bounds.min .. bounds.max
ValidatedLimits(bounds, limits) == \A n \in DOMAIN bounds : CheckLimit(bounds[n], limits[n])
DefaultLimits(bounds) == [n \in DOMAIN bounds |-> bounds[n].default]

ResourceLimitsValidated(limits) ==
  \A part \in DOMAIN ResourceBounds : ValidatedLimits(ResourceBounds[part], limits[part])

Word == 16   \* 2^64, of the u64 an archive's expansion is computed in

(* What nothing expands to is nothing; a ratio beyond the word permits all.*)
RatioPermits(ratio, inputBytes, outputBytes) ==
  IF inputBytes = 0 THEN outputBytes = 0
  ELSE inputBytes * ratio >= Word \/ outputBytes <= inputBytes * ratio

-----------------------------------------------------------------------------
(* Trust: what is made of two values is trusted as the lesser of them.     *)
TrustLevels == <<"internal", "operator", "upstream", "untrusted">>
TrustOf(level) == CHOOSE i \in DOMAIN TrustLevels : TrustLevels[i] = level
MayBeInstruction(level) == level = "internal"
RequiresDelimiting(level) == level # "internal"
Combine(a, b) == IF TrustOf(a) >= TrustOf(b) THEN a ELSE b

Classified(value, level) == [value |-> value, trust |-> level]
CombinedWith(one, other) == [one EXCEPT !.trust = Combine(@, other.trust)]
MappedTo(one, value) == [one EXCEPT !.value = value]

(* expose_for: imported text is never an instruction.                      *)
ExposeFor(classified, use) ==
  IF use = "instruction" /\ ~MayBeInstruction(classified.trust) THEN None
  ELSE [value |-> classified.value, trust |-> classified.trust,
        delimited |-> use = "model_context" /\ RequiresDelimiting(classified.trust)]

-----------------------------------------------------------------------------
(* AddressCategory::of: an address is told by what it stands for; one of   *)
(* version 6 that maps one of version 4 is judged as that.                 *)
CategoryOf(address) ==
  IF "mapped" \in DOMAIN address THEN address.mapped ELSE address.category

PermitsScheme(policy, scheme) ==
  scheme \in {"http", "https"} /\ (scheme = "http" => policy.allow_plaintext_http)

PermitsAddress(policy, address) ==
  LET category == CategoryOf(address) IN
  \/ category = "public"
  \/ category = "cloud_metadata" /\ policy.allow_cloud_metadata
  \/ category \in {"loopback", "private", "link_local"} /\ policy.allow_private_addresses

(* Mutant: a redirect may lead from a secure place to one that is not.     *)
PermitsRedirectDown(policy, soFar, from, to) == soFar < policy.max_redirects /\ PermitsScheme(policy, to)

PermitsRedirect(policy, soFar, from, to) ==
  /\ soFar < policy.max_redirects
  /\ (from = "https" /\ to = "http") => policy.allow_redirect_downgrade
  /\ PermitsScheme(policy, to)

Strict == [allow_plaintext_http |-> FALSE, allow_private_addresses |-> FALSE,
           allow_cloud_metadata |-> FALSE, max_redirects |-> 3, allow_redirect_downgrade |-> FALSE]
InternalNetwork == [Strict EXCEPT !.allow_private_addresses = TRUE]

MaxResponseBytes == 4   \* MAX_RESPONSE_BYTES, 64 MiB

-----------------------------------------------------------------------------
(* A URL: [scheme, userinfo, host, port]; None parts are missing ones.     *)
SplitUrl(url) == url.scheme # None /\ url.host # None /\ ~url.userinfo

(* resolve_relative: an absolute location, or one on the same host.        *)
ResolveRelative(base, location) ==
  CASE location.scheme # None                                        -> location
    [] location.scheme = None /\ location.host # None                -> [location EXCEPT !.scheme = base.scheme]
    [] OTHER -> IF location.absolute THEN [location EXCEPT !.scheme = base.scheme, !.host = base.host] ELSE None

(* A request looks its host up twice: `checked` is what check_url is told, *)
(* `connected` where the HTTP client, which looks it up again, then goes.  *)
(* Nothing ties the one answer to the other.                               *)

(* check_url: every address its host resolves to has to be one that may be *)
(* reached.                                                                *)
CheckUrl(policy, url, lookup) ==
  /\ SplitUrl(url)
  /\ PermitsScheme(policy, url.scheme)
  /\ lookup[url.host].checked # {}
  /\ \A a \in lookup[url.host].checked : PermitsAddress(policy, a)

IsRedirect(status) == status \in {301, 302, 303, 307, 308}

(* Where a reply leads: nowhere when it names no place.                    *)
Leads(from, reply) == IF reply.location = None THEN None ELSE ResolveRelative(from, reply.location)

(* A redirect followed is another request, allowed or refused as one.      *)
Follow(policy, s, reply) ==
  LET target == Leads(s.url, reply) IN
  IF target = None THEN [s EXCEPT !.result = "transport"]
  ELSE IF ~SplitUrl(target) \/ ~PermitsRedirect(policy, s.redirects, s.url.scheme, target.scheme)
       THEN [s EXCEPT !.result = "denied"]
  ELSE [s EXCEPT !.url = target, !.redirects = @ + 1]

(* The locals of fetch before its first turn.                              *)
Unsent(url, redirects) ==
  [url |-> url, redirects |-> redirects, contacted |-> <<>>, result |-> None]

(* One turn of fetch's loop: checked, sent, and read or followed.  The     *)
(* n-th request looks up lookups[n].                                       *)
FetchOnce(policy, s, lookups, replies) ==
  LET reply == replies[s.url]
      lookup == lookups[Len(s.contacted) + 1] IN
  IF ~CheckUrl(policy, s.url, lookup) THEN [s EXCEPT !.result = "denied"]
  ELSE LET sent == [s EXCEPT !.contacted =
                      Append(@, [url |-> s.url, to |-> lookup[s.url.host].connected])] IN
    CASE reply.status = None        -> [sent EXCEPT !.result = "transport"]
      [] reply.status # None /\ IsRedirect(reply.status) -> Follow(policy, sent, reply)
      [] OTHER -> IF reply.status >= 400 THEN [sent EXCEPT !.result = [status |-> reply.status, size |-> 0]]
                  ELSE IF reply.size > MaxResponseBytes THEN [sent EXCEPT !.result = "too_large"]
                  ELSE [sent EXCEPT !.result = [status |-> reply.status, size |-> reply.size]]

(* PolicyTransport::fetch.                                                 *)
FetchUrl(policy, url, lookups, replies) ==
  LET Turn[n \in 0 .. policy.max_redirects + 1] ==
        IF n = 0 THEN Unsent(url, 0)
        ELSE IF Turn[n - 1].result # None THEN Turn[n - 1]
        ELSE FetchOnce(policy, Turn[n - 1], lookups, replies) IN
  Turn[policy.max_redirects + 1]

(* fetch_query: a body is not sent to a place the server chose.            *)
FetchQuery(policy, url, lookups, replies) ==
  LET s == FetchOnce(policy, Unsent(url, policy.max_redirects), lookups, replies) IN
  IF s.contacted # <<>> /\ replies[url].status # None /\ IsRedirect(replies[url].status)
  THEN [s EXCEPT !.result = "transport", !.url = url] ELSE s
=============================================================================
