------------------------------ MODULE Versions ------------------------------
(***************************************************************************)
(* The order of semantic versions (launcher/src-tauri/src/versions.rs) and *)
(* the requirements content packs state with it                            *)
(* (content_packs.rs, VersionRequirement and VersionOperator).             *)
(*                                                                         *)
(* A version is its text after the splits at '+', '-' and '.': core and    *)
(* prerelease are sequences of identifiers, build the sequence of what     *)
(* follows each '+'.  An identifier is its bytes, because the order is     *)
(* computed on bytes: a number is never converted.                         *)
(***************************************************************************)
EXTENDS Integers, Sequences

CONSTANT Texts  \* the texts that are compared

Bytes == 0 .. 127
Text == [core : Seq(Seq(Bytes)), prerelease : Seq(Seq(Bytes)), build : Seq(Seq(Seq(Bytes)))]

ASSUME TextsAreText == Texts \subseteq Text

Digits == 48 .. 57
Alphanumeric == Digits \cup (65 .. 90) \cup (97 .. 122)
Zero == <<48>>

Positions(s) == 1 .. Len(s)

IsNumeric(identifier) == \A i \in Positions(identifier) : identifier[i] \in Digits

ValidNumeric(identifier) ==
    /\ identifier # <<>>
    /\ IsNumeric(identifier)
    /\ identifier = Zero \/ identifier[1] # Zero[1]

ValidIdentifier(identifier) ==
    /\ identifier # <<>>
    /\ \A i \in Positions(identifier) : identifier[i] \in Alphanumeric \cup {45}

(* parse_semantic_version: whether a text is a semantic version.  A version *)
(* that may be empty after its '-' is not one: the split then leaves one    *)
(* empty identifier.                                                       *)
Parses(version) ==
    /\ Len(version.core) = 3
    /\ \A i \in 1 .. 3 : ValidNumeric(version.core[i])
    /\ \A i \in Positions(version.prerelease) :
           LET identifier == version.prerelease[i]
           IN  /\ ValidIdentifier(identifier)
               /\ IsNumeric(identifier) => ValidNumeric(identifier)
    /\ Len(version.build) <= 1
    /\ \A i \in Positions(version.build) :
           \A j \in Positions(version.build[i]) : ValidIdentifier(version.build[i][j])

-----------------------------------------------------------------------------
(* Comparing: an ordering is the sign of a difference.                     *)

Less == -1
Equal == 0
Greater == 1

Ordering(m, n) == IF m < n THEN Less ELSE IF m > n THEN Greater ELSE Equal

(* The first comparison that decides, of a sequence of them. *)
FirstUnequal(comparisons) ==
    LET deciding == {i \in Positions(comparisons) : comparisons[i] # Equal}
    IN  IF deciding = {} THEN Equal
        ELSE comparisons[CHOOSE i \in deciding : \A j \in deciding : i <= j]

Longer(s, t) == IF Len(s) > Len(t) THEN Len(s) ELSE Len(t)

(* str::cmp: byte by byte, and a prefix comes first. *)
CompareText(s, t) ==
    FirstUnequal([i \in 1 .. Longer(s, t) |->
        IF i > Len(s) THEN Less ELSE IF i > Len(t) THEN Greater ELSE Ordering(s[i], t[i])])

(* Faulty: numbers as text. *)
CompareNumericAsText(s, t) == CompareText(s, t)

CompareNumeric(s, t) ==
    FirstUnequal(<<Ordering(Len(s), Len(t)), CompareText(s, t)>>)

ComparePrereleaseIdentifier(s, t) ==
    IF IsNumeric(s) /\ IsNumeric(t) THEN CompareNumeric(s, t)
    ELSE IF IsNumeric(s) THEN Less
    ELSE IF IsNumeric(t) THEN Greater
    ELSE CompareText(s, t)

(* Faulty: the prerelease is a text like another, and the empty one is first. *)
ComparePrereleaseAsList(s, t) ==
    FirstUnequal([i \in 1 .. Longer(s, t) |->
        IF i > Len(s) THEN Less
        ELSE IF i > Len(t) THEN Greater
        ELSE ComparePrereleaseIdentifier(s[i], t[i])])

(* A version without a prerelease follows those that have one. *)
ComparePrerelease(s, t) ==
    IF s = <<>> /\ t = <<>> THEN Equal
    ELSE IF s = <<>> THEN Greater
    ELSE IF t = <<>> THEN Less
    ELSE FirstUnequal([i \in 1 .. Longer(s, t) |->
             IF i > Len(s) THEN Less
             ELSE IF i > Len(t) THEN Greater
             ELSE ComparePrereleaseIdentifier(s[i], t[i])])

CompareVersions(a, b) ==
    IF ~Parses(a) \/ ~Parses(b) THEN Equal
    ELSE FirstUnequal([i \in 1 .. 3 |-> CompareNumeric(a.core[i], b.core[i])]
                      \o <<ComparePrerelease(a.prerelease, b.prerelease)>>)

VersionGt(a, b) == CompareVersions(a, b) = Greater

-----------------------------------------------------------------------------
(* Requirements: alternatives, each a conjunction of constraints, each an  *)
(* operator and the version it compares with.                              *)

(* Faulty: an inclusive bound excludes. *)
PassingStrictly == [op \in {"=", ">", ">=", "<", "<="} |->
                        CASE op = "=" -> {Equal}
                          [] op \in {">", ">="} -> {Greater}
                          [] op \in {"<", "<="} -> {Less}]

Passing == [op \in {"=", ">", ">=", "<", "<="} |->
                CASE op = "="  -> {Equal}
                  [] op = ">"  -> {Greater}
                  [] op = ">=" -> {Equal, Greater}
                  [] op = "<"  -> {Less}
                  [] op = "<=" -> {Less, Equal}]

ValidRequirement(requirement) ==
    /\ requirement # {}
    /\ \A conjunction \in requirement :
           conjunction # {} /\ \A c \in conjunction : Parses(c.version)

IsSatisfiedBy(requirement, version) ==
    /\ ValidRequirement(requirement)
    /\ Parses(version)
    /\ \E conjunction \in requirement : \A c \in conjunction :
           CompareVersions(version, c.version) \in Passing[c.op]

-----------------------------------------------------------------------------
(* What semantic versioning asks for, said in another way.                 *)

(* The number a numeral stands for. *)
ValueOf(numeral) ==
    LET prefix[n \in 0 .. Len(numeral)] ==
            IF n = 0 THEN 0 ELSE 10 * prefix[n - 1] + numeral[n] - Zero[1]
    IN  prefix[Len(numeral)]

(* One list precedes another: it does at the first place where they differ, *)
(* or is a beginning of the other.                                          *)
ListPrecedes(s, t, Precedes(_, _)) ==
    \E n \in 0 .. Len(s) :
        /\ n <= Len(t)
        /\ SubSeq(s, 1, n) = SubSeq(t, 1, n)
        /\ n < Len(t)
        /\ n < Len(s) => Precedes(s[n + 1], t[n + 1])

Smaller(m, n) == m < n
NumberPrecedes(s, t) == ValueOf(s) < ValueOf(t)

IdentifierPrecedes(s, t) ==
    IF IsNumeric(t) THEN IsNumeric(s) /\ NumberPrecedes(s, t)
    ELSE IsNumeric(s) \/ ListPrecedes(s, t, Smaller)

VersionPrecedes(a, b) ==
    \/ ListPrecedes(a.core, b.core, NumberPrecedes)
    \/ /\ a.core = b.core
       /\ a.prerelease # <<>>
       /\ b.prerelease = <<>> \/ ListPrecedes(a.prerelease, b.prerelease, IdentifierPrecedes)

(* compare_versions orders versions as semantic versioning says, numbers by *)
(* value however long they are, and calls equal what has no order.         *)
OrderIsSemantic ==
    \A a, b \in Texts :
        IF Parses(a) /\ Parses(b)
        THEN CompareVersions(a, b) = IF VersionPrecedes(a, b) THEN Less
                                     ELSE IF VersionPrecedes(b, a) THEN Greater ELSE Equal
        ELSE ~VersionGt(a, b) /\ ~VersionGt(b, a)

Constraint(op, version) == [op |-> op, version |-> version]

(* A requirement of two alternatives, a range and a version, is satisfied  *)
(* exactly by what is in the range or is that version, and by no text that *)
(* is not a version, although that compares equal with all of them.        *)
RangeIsExact ==
    \A low, high, other \in {v \in Texts : Parses(v)}, v \in Texts :
        LET requirement == {{Constraint(">=", low), Constraint("<", high)},
                            {Constraint("=", other)}}
        IN  IsSatisfiedBy(requirement, v) <=>
                /\ Parses(v)
                /\ \/ ~VersionPrecedes(v, low) /\ VersionPrecedes(v, high)
                   \/ ~VersionPrecedes(v, other) /\ ~VersionPrecedes(other, v)
=============================================================================
