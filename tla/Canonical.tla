------------------------------- MODULE Canonical -------------------------------
(***************************************************************************)
(* brolga-ingest/canon and brolga-model/observable: the one form a value   *)
(* is known by, whatever form it was published in.                         *)
(*                                                                         *)
(* A text is a record of its parts: what it says, and how it is spelled    *)
(* (`upper` letters, `padded` with blanks, a `control` character in it,    *)
(* its `size`).  A result is the value with the text it came from, where   *)
(* that is spelled otherwise, or the reason there is none.                 *)
(***************************************************************************)
EXTENDS Absence, Integers, FiniteSets, Sequences, SequencesExt

(* The bounds, scaled down.                                                *)
MaxText == 4        \* DOMAIN_MAX_BYTES, URL_MAX_BYTES, PATH_MAX_BYTES, IDENTIFIER_MAX_BYTES
MaxLabel == 3       \* DOMAIN_LABEL_MAX_BYTES, 63
Width(family) == IF family = "v4" THEN 3 ELSE 4   \* 32 and 128

Bad(why) == [error |-> why]
IsBad(result) == "error" \in DOMAIN result

(* trimmed, no_control_characters, within.                                 *)
Unprepared(text) ==
  CASE text.size = 0                                      -> "empty"
    [] text.size > 0 /\ text.control                      -> "forbidden_character"
    [] text.size > MaxText /\ ~text.control               -> "too_long"
    [] OTHER                                              -> None

Plain(text) == [text EXCEPT !.padded = FALSE, !.upper = FALSE]

(* Canonical: the original is kept only where it differs.                  *)
Known(value, form, raw) == [value |-> value, form |-> form, original |-> IF form = raw THEN None ELSE raw]

Prepared(text, Then(_)) == IF Unprepared(text) # None THEN Bad(Unprepared(text)) ELSE Then(text)

-----------------------------------------------------------------------------
(* An IPv6 address that is an IPv4 one is stored as what it is, or not.    *)
NewIpv6Address(t) == ~t.holds_v4

IpAddress(text) == Prepared(text, LAMBDA t :
  IF \/ t.family \notin {"v4", "v6"} \/ t.prefix # None
     \/ t.family = "v6" /\ ~NewIpv6Address(t)
  THEN Bad("malformed") ELSE Known(<<"ip", t.family, t.bits>>, Plain(t), text))

(* The host bits go, all of them for a prefix of nothing.                  *)
MaskHostBits(family, bits, prefix) ==
  IF prefix = 0 THEN 0
  ELSE LET host == IF prefix > Width(family) THEN 0 ELSE Width(family) - prefix IN bits - (bits % (2 ^ host))

(* IpRange::new: a prefix of the family's width at most, no host bit set.  *)
NewIpRange(family, bits, prefix) ==
  /\ prefix <= Width(family)
  /\ bits % (2 ^ (Width(family) - prefix)) = 0

IpRange(text) == Prepared(text, LAMBDA t :
  LET masked == MaskHostBits(t.family, t.bits, t.prefix) IN
  IF t.family \notin {"v4", "v6"} \/ t.prefix = None THEN Bad("malformed")
  ELSE IF ~NewIpRange(t.family, masked, t.prefix) THEN Bad("malformed")
  ELSE Known(<<"range", t.family, masked, t.prefix>>, [Plain(t) EXCEPT !.bits = masked], text))

-----------------------------------------------------------------------------
(* DomainName::new, over a name's labels.                                  *)
DomainLabels(labels, dot) ==
  /\ Len(labels) >= 2
  /\ \A i \in DOMAIN labels : labels[i].size \in 1 .. MaxLabel /\ labels[i].letters
  /\ ~labels[Len(labels)].digits

DomainName(text) == Prepared(text, LAMBDA t :
  IF ~DomainLabels(t.labels, t.dot) THEN Bad("malformed")
  ELSE Known(<<"domain", t.labels>>, [Plain(t) EXCEPT !.dot = FALSE], text))

(* The domain is folded, the local part is somebody else's to compare.     *)
NewEmailAddress(t) == t.at = 1 /\ t.local # "" /\ DomainLabels(t.labels, FALSE)

EmailAddress(text) == Prepared(text, LAMBDA t :
  IF ~NewEmailAddress(t) THEN Bad("malformed")
  ELSE Known(<<"email", t.local, t.labels>>, Plain(t), text))

(* What the URL library parses, in a scheme that is fetched from.          *)
NewCanonicalUrl(t) == t.scheme \in {"http", "https", "ftp", "ftps"} /\ t.host # None

Url(text) == Prepared(text, LAMBDA t :
  IF ~NewCanonicalUrl(t) THEN Bad("malformed")
  ELSE Known(<<"url", t.scheme, t.host>>, Plain(t), text))

-----------------------------------------------------------------------------
HexLength(algorithm) == CASE algorithm = "md5" -> 1 [] algorithm = "sha1" -> 2
                          [] algorithm = "sha256" -> 3 [] algorithm = "sha512" -> 4   \* 32, 40, 64, 128
Algorithms == {"md5", "sha1", "sha256", "sha512"}
AlgorithmByName(name) == IF name \in Algorithms THEN name ELSE None
AlgorithmForLength(n) == IF \E a \in Algorithms : HexLength(a) = n
                         THEN CHOOSE a \in Algorithms : HexLength(a) = n ELSE None

(* FileHash::new: as many hexadecimal digits as the algorithm makes.       *)
NewFileHash(algorithm, t) == t.hex /\ t.digits = HexLength(algorithm)

(* Mutant: a digest is told by its length, and only that.                  *)
FileHashByLength(text) == Prepared(text, LAMBDA t :
  LET algorithm == AlgorithmForLength(t.digits) IN
  IF t.stated # None \/ ~t.hex \/ algorithm = None THEN Bad("malformed")
  ELSE Known(<<"hash", algorithm, t.of>>, [Plain(t) EXCEPT !.stated = algorithm], text))

(* What is stated wins over what the length suggests.                      *)
FileHash(text) == Prepared(text, LAMBDA t :
  LET algorithm == IF t.stated # None THEN AlgorithmByName(t.stated) ELSE AlgorithmForLength(t.digits) IN
  CASE t.stated # None /\ algorithm = None                         -> Bad("malformed")
    [] ~t.hex /\ (t.stated = None \/ algorithm # None)              -> Bad("forbidden_character")
    [] t.hex /\ t.stated = None /\ algorithm = None                -> Bad("malformed")
    [] OTHER -> IF ~NewFileHash(algorithm, t) THEN Bad("malformed")
                ELSE Known(<<"hash", algorithm, t.of>>, [Plain(t) EXCEPT !.stated = algorithm], text))

FileHashWithAlgorithm(algorithm, text) == Prepared(text, LAMBDA t :
  IF t.stated # None \/ ~NewFileHash(algorithm, t) THEN Bad("malformed")
  ELSE Known(<<"hash", algorithm, t.of>>, [Plain(t) EXCEPT !.stated = algorithm], text))

FileName(text) == Prepared(text, LAMBDA t :
  IF t.separator # None THEN Bad("malformed") ELSE Known(<<"file", t.of>>, [t EXCEPT !.padded = FALSE], text))

PathFlavour(text) == IF text.drive # None \/ text.unc THEN "windows" ELSE "posix"

(* A path is told apart by its family: the same text on two systems is two *)
(* paths.  Its form names the family, which no source writes.              *)
FilePath(text) == Prepared(text, LAMBDA t :
  LET bare == [t EXCEPT !.padded = FALSE]
      body == IF PathFlavour(t) = "windows"
              THEN [bare EXCEPT !.separator = "\\", !.drive = IF @ = "c" THEN "C" ELSE @] ELSE bare IN
  Known(<<"path", PathFlavour(t), body>>, [flavour |-> PathFlavour(t), body |-> body], text))

-----------------------------------------------------------------------------
(* Identifiers: a prefix, numbers with their digits and leading zeros.     *)
Cve(text) == Prepared(text, LAMBDA t :
  IF t.prefix # "CVE" \/ t.year # 4 \/ t.digits < 4 THEN Bad("malformed")
  ELSE Known(<<"cve", t.of, t.digits>>, Plain(t), text))

Cwe(text) == Prepared(text, LAMBDA t :
  IF t.prefix # "CWE" \/ t.digits = 0 THEN Bad("malformed")
  ELSE Known(<<"cwe", t.of>>, [Plain(t) EXCEPT !.digits = 1], text))

(* Only a technique has a part.                                            *)
AttackId(text) == Prepared(text, LAMBDA t :
  IF t.prefix \notin {"T", "TA", "S", "G", "M"} \/ t.digits < 4 THEN Bad("malformed")
  ELSE IF t.sub # None /\ (t.sub # 3 \/ t.prefix # "T") THEN Bad("malformed")
  ELSE Known(<<"attack", t.prefix, t.of, t.sub>>, Plain(t), text))

(* What folds in an identifier of parts, and what is somebody's name.      *)
FoldedParts(kind) ==
  CASE kind = "cpe"        -> {"scheme", "part"}
    [] kind = "purl"       -> {"type"}
    [] kind = "image"      -> {"name"}
    [] kind = "arn"        -> {"partition", "service", "region", "account"}
    [] kind = "azure"      -> {"keywords"}
    [] kind = "gcp"        -> {}
    [] kind = "kubernetes" -> {"kind"}

PartsOf(kind) ==
  CASE kind = "cpe" -> {"scheme", "part", "product"} [] kind = "purl" -> {"type", "name"}
    [] kind = "image" -> {"name", "tag", "digest"}
    [] kind = "arn" -> {"partition", "service", "region", "account", "resource"}
    [] kind = "azure" -> {"keywords", "names"} [] kind = "gcp" -> {"names"}
    [] kind = "kubernetes" -> {"kind", "namespace", "name"}

(* A part is absent, empty, or a word in one case or the other.            *)
Optional(kind) == CASE kind = "image" -> {"tag", "digest"} [] kind = "kubernetes" -> {"namespace"} [] OTHER -> {}

Parted(kind, text) == Prepared(text, LAMBDA t :
  LET Fold(p) == IF p \in FoldedParts(kind) /\ t.parts[p] # None
                 THEN [t.parts[p] EXCEPT !.upper = FALSE] ELSE t.parts[p]
      form == [p \in PartsOf(kind) |-> Fold(p)] IN
  IF \E p \in PartsOf(kind) : \/ t.parts[p] = None /\ p \notin Optional(kind)
                              \/ t.parts[p] # None /\ t.parts[p].word = ""
  THEN Bad("malformed")
  ELSE Known(<<kind, form>>, [t EXCEPT !.padded = FALSE, !.parts = form], text))

(* rfc3339: one instant, the offset it was written with in the original.   *)
Timestamp(text) == Prepared(text, LAMBDA t :
  IF t.offset = None THEN Bad("malformed")
  ELSE Known(<<"time", t.at - t.offset>>, [t EXCEPT !.padded = FALSE, !.at = t.at - t.offset, !.offset = 0], text))

-----------------------------------------------------------------------------
(* Observable::id: the kind and the canonical value, and nothing else.     *)
KindOf(result) == result.value[1]
CanonicalValue(result) == Tail(result.value)
ObservableId(result) == <<KindOf(result), CanonicalValue(result)>>

(* MacAddress::new: six octets, apart by colons or else by hyphens.        *)
MacAddress(t) ==
  IF t.octets # 6 \/ ~t.hex THEN Bad("malformed")
  ELSE Known(<<"mac", t.of>>, [t EXCEPT !.upper = FALSE, !.separator = ":"], t)

(* any_network: told by its punctuation, a range before an address.        *)
AnyNetwork(text) ==
  CASE text.slash /\ ~text.scheme_mark /\ ~IsBad(IpRange(text)) -> IpRange(text)
    [] ~(text.slash /\ ~text.scheme_mark /\ ~IsBad(IpRange(text))) /\ ~IsBad(IpAddress(text)) -> IpAddress(text)
    [] OTHER -> IF text.scheme_mark THEN Url(text)
                ELSE IF text.at > 0 THEN EmailAddress(text) ELSE DomainName(text)
=============================================================================
