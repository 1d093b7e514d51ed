---------------------- MODULE ResumableDownloadProofs ----------------------
(* What a download promises for every file, every number of attempts and   *)
(* every behaviour of the server, the network and the machine.             *)
EXTENDS ResumableDownload, TLAPS

(* The states that use the response have one. *)
HasResponse ==
    \/ pc \in {"headers", "remember size", "remember etag", "body"}
    \/ pc = "reset" /\ then = "headers"
    => response # None

TypeInv == TypeOK /\ HasResponse

LEMMA WholeIsSequence == \A v \in Versions : Whole(v) \in Seq(Versions)
  BY SizesArePositive DEF Whole

LEMMA InitialValues ==
    <<>> \in Seq(Versions) /\ 0 \in 0 .. MaxAttempts - 1 /\ None \in Totals
  BY AttemptsArePositive DEF Totals

LEMMA ExpectedSizeIsTotal == TypeOK => ExpectedSize \in Totals
  BY DEF TypeOK, ExpectedSize, Totals

LEMMA TypeInit == Init => TypeInv
  BY WholeIsSequence, AttemptsArePositive
     DEF Init, TypeInv, TypeOK, HasResponse, Totals, Responses

LEMMA CountersGrow ==
  ASSUME torn \in Nat, crashes \in Nat, faults \in Nat, changes \in Nat, [Next]_vars
  PROVE  torn' \in Nat /\ crashes' \in Nat /\ faults' \in Nat /\ changes' \in Nat
<1>1. UNCHANGED bounds
      \/ /\ torn' \in {torn, torn + 1} /\ crashes' \in {crashes, crashes + 1}
         /\ faults' \in {faults, faults + 1} /\ changes' \in {changes, changes + 1}
  <2>1. CASE Fault \/ Crash \/ TearSize \/ TearEtag \/ Publish
    BY <2>1 DEF Fault, Crash, TearSize, TearEtag, Kill, Publish
  <2>2. CASE Call \/ Step \/ Discard \/ UNCHANGED vars
    BY <2>2 DEF vars, setting, bounds, Step, Call, Check, Reset, Retry, ResetTooLong, AnsweredInPart,
       AnsweredInFull, Answered, RangeRefused, RejectHeaders, AcceptHeaders, RememberSize,
       RememberEtag, Receive, EndBody, Promote, RejectHash, EndedShort, Discard, Forget
  <2>3. QED
    BY <2>1, <2>2 DEF Next
<1>2. QED
  BY <1>1 DEF bounds

LEMMA TypeStep == TypeInv /\ [Next]_vars => TypeInv'
<1> SUFFICES ASSUME TypeOK, HasResponse, [Next]_vars
             PROVE  TypeInv'
  BY DEF TypeInv
<1>0. /\ torn' \in Nat /\ crashes' \in Nat
      /\ faults' \in Nat /\ changes' \in Nat
  <2>1. torn \in Nat /\ crashes \in Nat /\ faults \in Nat /\ changes \in Nat
    BY DEF TypeOK
  <2>2. QED
    BY <2>1, CountersGrow
<1> USE <1>0, InitialValues DEF TypeInv, TypeOK, HasResponse, disk, setting, call, bounds
<1>1. CASE Call
  BY <1>1, ExpectedSizeIsTotal DEF Call
<1>2. CASE Check
  BY <1>2 DEF Check
<1>3. CASE Reset
  BY <1>3, ExpectedSizeIsTotal DEF Reset
<1>4. CASE Retry
  <2>1. attempt' \in 0 .. MaxAttempts - 1
    BY <1>4, AttemptsArePositive DEF Retry
  <2>2. QED
    BY <1>4, <2>1 DEF Retry
<1>5. CASE ResetTooLong
  BY <1>5 DEF ResetTooLong, StartReset
<1>6. ASSUME NEW ranged \in BOOLEAN, Answered(ranged)
      PROVE  /\ response' \in Responses /\ response' # None
             /\ UNCHANGED <<disk, setting, attempt, known, served, bounds>>
  <2>1. (IF tells THEN Size[served] ELSE None) \in Totals
    BY DEF Totals
  <2>2. response' \in Responses
    BY <1>6, <2>1 DEF Answered, Responses
  <2>3. response' # None
    BY <1>6, <2>2, NoneIsNoResponse DEF Answered
  <2>4. QED
    BY <1>6, <2>2, <2>3 DEF Answered
<1>7. CASE AnsweredInPart
  BY <1>7, <1>6 DEF AnsweredInPart
<1>8. CASE AnsweredInFull
  BY <1>8, <1>6 DEF AnsweredInFull, StartReset
<1>9. CASE RangeRefused
  BY <1>9 DEF RangeRefused, StartReset
<1>10. CASE RejectHeaders
  BY <1>10 DEF RejectHeaders, StartReset
<1>11. CASE AcceptHeaders
  BY <1>11 DEF AcceptHeaders, Responses
<1>12. CASE RememberSize
  BY <1>12 DEF RememberSize, Responses
<1>13. CASE RememberEtag
  BY <1>13 DEF RememberEtag, Responses
<1>14. CASE Receive
  <2>1. partial' \in Seq(Versions)
    BY <1>14 DEF Receive, Responses
  <2>2. QED
    BY <1>14, <2>1 DEF Receive
<1>15. CASE EndBody
  BY <1>15 DEF EndBody
<1>16. CASE Promote
  BY <1>16 DEF Promote
<1>17. CASE RejectHash
  BY <1>17 DEF RejectHash, StartReset
<1>18. CASE EndedShort
  BY <1>18 DEF EndedShort
<1>19. CASE Discard
  BY <1>19 DEF Discard
<1>20. CASE Forget
  BY <1>20 DEF Forget
<1>21. CASE Fault
  BY <1>21 DEF Fault, StartReset
<1>23. CASE Crash
  BY <1>23 DEF Crash, Kill
<1>24. CASE TearSize
  BY <1>24 DEF TearSize, Kill
<1>25. CASE TearEtag
  BY <1>25 DEF TearEtag, Kill
<1>26. CASE Publish
  BY <1>26 DEF Publish
<1>27. CASE UNCHANGED vars
  BY <1>27 DEF vars
<1>28. QED
  BY <1>1, <1>2, <1>3, <1>4, <1>5, <1>7, <1>8, <1>9, <1>10, <1>11, <1>12, <1>13,
     <1>14, <1>15, <1>16, <1>17, <1>18, <1>19, <1>20, <1>21, <1>23, <1>24, <1>25,
     <1>26, <1>27
     DEF Next, Step

(* The states are those of TypeOK: a response is there when it is used, a  *)
(* call makes at most MAX_ATTEMPTS attempts.                               *)
THEOREM TypeCorrect == Spec => []TypeOK
<1>1. TypeInv => TypeOK
  BY DEF TypeInv
<1>2. QED
  BY TypeInit, TypeStep, <1>1, PTL DEF Spec

-----------------------------------------------------------------------------
(* Success is claimed of what was hashed, never of what was there before.  *)

LEMMA GenuineStep == TypeInv /\ SignedIsGenuine /\ [Next]_vars => SignedIsGenuine'
<1> SUFFICES ASSUME TypeInv, SignedIsGenuine, [Next]_vars
             PROVE  SignedIsGenuine'
  OBVIOUS
<1> USE DEF SignedIsGenuine, disk, setting, call, bounds, Whole
<1>1. CASE Check
  BY <1>1 DEF Check, IsComplete, MatchesHash
<1>2. CASE Promote
  BY <1>2 DEF Promote, MatchesHash
<1>3. CASE Reset
  BY <1>3 DEF Reset, TypeInv, TypeOK
<1>4. CASE pc' # "ok" \/ UNCHANGED <<pc, dest, expected>>
  BY <1>4
<1>5. ASSUME ~Check, ~Promote, ~Reset
      PROVE  pc' # "ok" \/ UNCHANGED <<pc, dest, expected>>
  <2>1. CASE Call \/ Retry \/ ResetTooLong \/ AnsweredInPart \/ AnsweredInFull
    BY <2>1 DEF Call, Retry, ResetTooLong, StartReset, AnsweredInPart, AnsweredInFull,
                Answered
  <2>2. CASE RangeRefused \/ RejectHeaders \/ AcceptHeaders \/ RememberSize \/ RememberEtag
    BY <2>2 DEF RangeRefused, StartReset, RejectHeaders, AcceptHeaders, RememberSize,
                RememberEtag
  <2>3. CASE Receive \/ EndBody \/ RejectHash \/ EndedShort \/ Discard \/ Forget
    BY <2>3 DEF Receive, EndBody, RejectHash, StartReset, EndedShort, Discard, Forget
  <2>4. CASE Fault \/ Crash \/ TearSize \/ TearEtag \/ Publish
    BY <2>4 DEF Fault, StartReset, Crash, TearSize, TearEtag, Kill, Publish
  <2>5. CASE UNCHANGED vars
    BY <2>5 DEF vars
  <2>6. QED
    BY <1>5, <2>1, <2>2, <2>3, <2>4, <2>5 DEF Next, Step
<1>6. QED
  BY <1>1, <1>2, <1>3, <1>4, <1>5

(* A signed download that succeeded delivered exactly the signed file,     *)
(* whatever the server, the disk's leftovers and the kills did.            *)
THEOREM SignedDownloadsAreGenuine == Spec => []SignedIsGenuine
<1>1. Init => SignedIsGenuine
  BY DEF Init, SignedIsGenuine
<1>2. QED
  BY <1>1, TypeInit, TypeStep, GenuineStep, PTL DEF Spec

-----------------------------------------------------------------------------
(* The destination of an unsigned download: nothing tells what its bytes   *)
(* must be but what the server said of them, remembered in two files.      *)

(* Every byte of the partial file belongs to a version of this length. *)
OfLength(n) == \A i \in DOMAIN partial : Size[partial[i]] = n

(* What the metadata, and the size the call knows, say of the partial file. *)
MetadataFits ==
    /\ size # None => OfLength(size)
    /\ known # None => OfLength(known)
    /\ etag # None => OfLength(Size[etag])

(* One kill has taken at most one of the two: the other is there.           *)
MetadataStays ==
    tells /\ partial # <<>> =>
        /\ etag = None => torn >= 1 /\ size # None
        /\ size = None => torn >= 1 /\ etag # None
        /\ pc # "idle" /\ size # None => known # None

(* The total is never remembered of a server that does not tell it. *)
Silent == ~tells => size = None /\ known = None

DestinationIsWhole ==
    dest # None =>
        /\ pc \in {"idle", "check", "ok", "failed"} /\ partial = <<>>
        /\ \A i \in DOMAIN dest : Size[dest[i]] = Len(dest)

Consumed == pc \in {"ok", "forget"} => partial = <<>>

(* The states that handle a response hold one of the server's. *)
ResponseFits ==
    \/ pc \in {"headers", "remember size", "remember etag", "body"}
    \/ pc = "reset" /\ then = "headers"
    =>
        /\ response.total = IF tells THEN Size[response.body] ELSE None
        /\ response.etag = response.body
        /\ pc = "reset" => ~response.ranged

AtHeaders ==
    pc = "headers" => IF response.ranged THEN partial # <<>> /\ etag \in {None, response.body}
                                         ELSE partial = <<>>

Accepted ==
    /\ pc = "remember size" => tells
    /\ pc \in {"remember size", "remember etag", "body"} =>
        /\ tells => known = Size[response.body]
        /\ ~response.ranged /\ pc # "body" => partial = <<>>
        /\ ~tells => ~response.ranged
    /\ pc \in {"remember etag", "body"} /\ tells => size = Size[response.body]
    /\ pc = "body" => etag = response.body
    /\ pc = "validate" /\ tells => known # None

(* A body of unknown length is received from its start, to its end. *)
Unmeasured ==
    ~tells =>
        /\ pc = "body" => /\ \A i \in DOMAIN partial : partial[i] = response.body
                          /\ Len(partial) <= Size[response.body]
        /\ pc = "validate" => OfLength(Len(partial))

(* All of it, while one of the tag and the size is left.                    *)
Unsigned ==
    expected = None /\ torn < 2 =>
        /\ MetadataFits /\ MetadataStays /\ Silent /\ DestinationIsWhole
        /\ Consumed /\ ResponseFits /\ AtHeaders /\ Accepted /\ Unmeasured

LEMMA UnsignedInit == Init => Unsigned
  BY DEF Init, Unsigned, OfLength, MetadataFits, MetadataStays, Silent, DestinationIsWhole, Consumed,
         ResponseFits, AtHeaders, Accepted, Unmeasured

LEMMA SettingStays ==
  TypeOK /\ [Next]_vars => expected' = expected /\ tells' = tells /\ torn' \in {torn, torn + 1}
<1> SUFFICES ASSUME TypeOK, Next \/ UNCHANGED vars
             PROVE  expected' = expected /\ tells' = tells /\ torn' \in {torn, torn + 1}
  OBVIOUS
<1> USE DEF setting, bounds
<1>1. CASE Fault \/ Crash \/ TearSize \/ TearEtag \/ Publish
  BY <1>1 DEF Fault, Crash, TearSize, TearEtag, Kill, Publish
<1>2. CASE Call \/ Step \/ Discard \/ UNCHANGED vars
  BY <1>2 DEF vars, Step, Call, Check, Reset, Retry, ResetTooLong, AnsweredInPart,
     AnsweredInFull, Answered, RangeRefused, RejectHeaders, AcceptHeaders, RememberSize,
     RememberEtag, Receive, EndBody, Promote, RejectHash, EndedShort, Discard, Forget
<1>3. QED
  BY <1>1, <1>2 DEF Next

(* The states in which something is asserted of the response. *)
Working == {"headers", "remember size", "remember etag", "body", "validate"}

LEMMA UnsignedStep == TypeInv /\ Unsigned /\ [Next]_vars => Unsigned'
<1> SUFFICES ASSUME TypeInv, Unsigned, Next \/ UNCHANGED vars, expected' = None, torn' < 2
             PROVE  /\ MetadataFits' /\ MetadataStays' /\ Silent' /\ DestinationIsWhole'
                    /\ Consumed' /\ ResponseFits' /\ AtHeaders' /\ Accepted' /\ Unmeasured'
  BY DEF Unsigned
<1>1. expected = None /\ tells' = tells /\ torn \in Nat /\ torn' \in {torn, torn + 1}
  BY SettingStays DEF TypeInv, TypeOK
<1>1a. torn \in Nat /\ torn' \in {torn, torn + 1} /\ torn' < 2
  BY <1>1
<1>2. torn < 2
  BY <1>1
<1>3. /\ MetadataFits /\ MetadataStays /\ Silent /\ DestinationIsWhole
      /\ Consumed /\ ResponseFits /\ AtHeaders /\ Accepted /\ Unmeasured
  BY <1>1, <1>2 DEF Unsigned
<1>4. /\ partial \in Seq(Versions) /\ tells \in BOOLEAN /\ size \in Totals /\ known \in Totals
      /\ etag \in Versions \cup {None} /\ served \in Versions
      /\ dest \in Seq(Versions) \cup {None} /\ response \in Responses \cup {None}
  BY DEF TypeInv, TypeOK
<1>5. \A v \in Versions : Size[v] \in Nat \ {0} /\ Size[v] # None
  BY SizesArePositive, NoneIsNothingElse
<1> USE DEF disk, setting, call, bounds
(* What leaves each part as it was. *)
<1>6. ASSUME size' \in {size, None}, known' \in {known, size, None}
      PROVE  Silent'
  BY <1>1, <1>3, <1>6 DEF Silent
<1>7. ASSUME partial' = <<>>
      PROVE  MetadataFits' /\ MetadataStays'
  BY <1>7 DEF MetadataFits, MetadataStays, OfLength
<1>8. ASSUME partial' = partial, size' \in {size, None}, known' \in {known, size, None},
             etag' \in {etag, None}
      PROVE  MetadataFits'
  BY <1>3, <1>8 DEF MetadataFits, OfLength
<1>9. ASSUME UNCHANGED <<partial, etag, size>>, pc' # "idle" /\ size' # None => known' # None,
             torn' = torn
      PROVE  MetadataStays'
  BY <1>1, <1>3, <1>9 DEF MetadataStays
<1>10. ASSUME UNCHANGED <<partial, etag, size, known, torn>>, pc' = "idle" \/ pc # "idle"
       PROVE  MetadataStays'
  BY <1>1, <1>3, <1>10 DEF MetadataStays
<1>11. ASSUME dest' = dest, partial' = partial, pc' \in {"idle", "check", "ok", "failed"}
       PROVE  DestinationIsWhole'
  BY <1>3, <1>11 DEF DestinationIsWhole
<1>12. ASSUME dest' = dest, pc \notin {"idle", "check", "ok", "failed"}
       PROVE  DestinationIsWhole'
  BY <1>3, <1>12 DEF DestinationIsWhole
<1>13. ASSUME pc' \notin {"ok", "forget"} \/ partial' = <<>>
       PROVE  Consumed'
  BY <1>13 DEF Consumed
<1>14. ASSUME pc' \notin Working, pc' = "reset" => then' # "headers"
       PROVE  ResponseFits' /\ AtHeaders' /\ Accepted' /\ Unmeasured'
  BY <1>14 DEF Working, ResponseFits, AtHeaders, Accepted, Unmeasured
<1>15. ASSUME UNCHANGED <<partial, etag, size, known, response, pc, then>>
       PROVE  ResponseFits' /\ AtHeaders' /\ Accepted' /\ Unmeasured'
  <2>1. ResponseFits'
    BY <1>1, <1>3, <1>15 DEF ResponseFits
  <2>2. AtHeaders'
    BY <1>1, <1>3, <1>15 DEF AtHeaders
  <2>3. Accepted'
    BY <1>1, <1>3, <1>15 DEF Accepted
  <2>4. Unmeasured'
    BY <1>1, <1>3, <1>15 DEF Unmeasured, OfLength
  <2>5. QED
    BY <2>1, <2>2, <2>3, <2>4
<1>16. ASSUME UNCHANGED <<disk, known, torn>>, pc' = "idle" \/ pc # "idle",
              pc' \in {"failed"} \/ pc \notin {"idle", "check", "ok", "failed"},
              pc' \notin {"ok", "forget"}, pc' \notin Working, pc' = "reset" => then' # "headers"
       PROVE  /\ MetadataFits' /\ MetadataStays' /\ Silent' /\ DestinationIsWhole'
              /\ Consumed' /\ ResponseFits' /\ AtHeaders' /\ Accepted' /\ Unmeasured'
  <2>1. Silent'
    BY <1>16, <1>6
  <2>2. MetadataFits' /\ MetadataStays'
    BY <1>16, <1>8, <1>10
  <2>3. DestinationIsWhole'
    BY <1>16, <1>11, <1>12
  <2>4. Consumed' /\ ResponseFits' /\ AtHeaders' /\ Accepted' /\ Unmeasured'
    BY <1>16, <1>13, <1>14
  <2>5. QED
    BY <2>1, <2>2, <2>3, <2>4
(* The actions. *)
<1>20. CASE Call
  <2>1. /\ UNCHANGED <<disk, torn>> /\ known' = size /\ pc' = "check"
        /\ pc \in {"idle", "failed"}
    BY <1>20, <1>1 DEF Call
  <2>2. Silent' /\ MetadataFits' /\ MetadataStays' /\ DestinationIsWhole'
    BY <2>1, <1>6, <1>8, <1>9, <1>11
  <2>3. Consumed' /\ ResponseFits' /\ AtHeaders' /\ Accepted' /\ Unmeasured'
    BY <2>1, <1>13, <1>14 DEF Working
  <2>4. QED
    BY <2>2, <2>3
<1>21. CASE Check
  <2>1. UNCHANGED <<etag, size, known, torn, then>> /\ pc = "check" /\ pc' \in {"ok", "request"}
    BY <1>21 DEF Check
  <2>2. Silent' /\ ResponseFits' /\ AtHeaders' /\ Accepted' /\ Unmeasured'
    BY <2>1, <1>6, <1>14 DEF Working
  <2>3. CASE IsComplete(partial)
    <3>1. dest' = partial /\ partial' = <<>> /\ pc' = "ok"
      BY <1>21, <2>3 DEF Check
    <3>2. known # None /\ Len(partial) = known
      BY <1>1, <2>3 DEF IsComplete
    <3>3. \A i \in DOMAIN partial : Size[partial[i]] = Len(partial)
      BY <3>2, <1>3 DEF MetadataFits, OfLength
    <3>4. DestinationIsWhole' /\ Consumed'
      BY <3>1, <3>3 DEF DestinationIsWhole, Consumed
    <3>5. QED
      BY <2>2, <3>1, <3>4, <1>7
  <2>4. CASE ~IsComplete(partial) /\ IsComplete(dest)
    <3>1. UNCHANGED <<dest, partial>> /\ pc' = "ok"
      BY <1>21, <2>4 DEF Check
    <3>2. dest # None
      BY <2>4 DEF IsComplete
    <3>3. partial = <<>>
      BY <3>2, <1>3 DEF DestinationIsWhole
    <3>4. DestinationIsWhole' /\ Consumed' /\ MetadataFits' /\ MetadataStays'
      BY <3>1, <3>3, <1>7, <1>11, <1>13
    <3>5. QED
      BY <2>2, <3>4
  <2>5. CASE ~IsComplete(partial) /\ ~IsComplete(dest)
    <3>1. dest' = None /\ partial' = partial /\ pc' = "request"
      BY <1>21, <2>5 DEF Check
    <3>2. MetadataFits' /\ MetadataStays' /\ DestinationIsWhole' /\ Consumed'
      BY <2>1, <3>1, <1>8, <1>10, <1>13 DEF DestinationIsWhole
    <3>3. QED
      BY <2>2, <3>2
  <2>6. QED
    BY <2>3, <2>4, <2>5
<1>22. CASE Reset
  <2>1. /\ UNCHANGED <<dest, then, response, torn>> /\ pc = "reset" /\ partial' = <<>>
        /\ size' \in {size, None} /\ known' \in {known, None} /\ pc' \in {pc, then}
        /\ partial # <<>> => pc' = pc
    BY <1>22, <1>1 DEF Reset, ExpectedSize
  <2>2. then \in {"request", "headers", "retry"}
    BY DEF TypeInv, TypeOK
  <2>3. Silent' /\ MetadataFits' /\ MetadataStays' /\ DestinationIsWhole' /\ Consumed'
    BY <2>1, <2>2, <1>6, <1>7, <1>12, <1>13
  <2>4. CASE then # "headers"
    BY <2>1, <2>2, <2>3, <2>4, <1>14 DEF Working
  <2>5. CASE then = "headers"
    <3>1. /\ response.total = IF tells THEN Size[response.body] ELSE None
          /\ response.etag = response.body /\ ~response.ranged
      BY <2>1, <2>5, <1>3 DEF ResponseFits
    <3>2. pc' \in {"reset", "headers"}
      BY <2>1, <2>5
    <3>3. ResponseFits' /\ AtHeaders'
      BY <2>1, <3>1, <3>2, <1>1 DEF ResponseFits, AtHeaders
    <3>4. Accepted' /\ Unmeasured'
      BY <3>2 DEF Accepted, Unmeasured
    <3>5. QED
      BY <2>3, <3>3, <3>4
  <2>6. QED
    BY <2>4, <2>5
<1>23. CASE Retry
  BY <1>23, <1>16 DEF Retry, Working
<1>24. CASE ResetTooLong
  BY <1>24, <1>16 DEF ResetTooLong, StartReset, Working
<1>25. CASE RangeRefused
  BY <1>25, <1>16 DEF RangeRefused, StartReset, Working
<1>26. CASE RejectHeaders
  BY <1>26, <1>16 DEF RejectHeaders, StartReset, Working
<1>27. CASE RejectHash
  BY <1>27, <1>16 DEF RejectHash, CanValidate, StartReset, Working
<1>28. CASE EndedShort
  BY <1>28, <1>16 DEF EndedShort, Working
<1>29. CASE AnsweredInPart
  <2>1. /\ UNCHANGED <<disk, known, torn>> /\ pc = "request"
        /\ response' = [body |-> served, ranged |-> TRUE, etag |-> served,
                        total |-> IF tells THEN Size[served] ELSE None]
    BY <1>29 DEF AnsweredInPart, Answered
  <2>2. /\ response'.body = served /\ response'.ranged = TRUE /\ response'.etag = served
        /\ response'.total = IF tells THEN Size[served] ELSE None
    BY <2>1
  <2>3. pc' = "headers" /\ partial # <<>> /\ etag \in {None, served}
    BY <1>29, <1>4 DEF AnsweredInPart, Answered, Offset
  <2>4. Silent' /\ MetadataFits' /\ MetadataStays' /\ DestinationIsWhole' /\ Consumed'
    BY <2>1, <2>3, <1>6, <1>8, <1>10, <1>12, <1>13
  <2>5. ResponseFits' /\ AtHeaders'
    BY <2>1, <2>2, <2>3, <1>1 DEF ResponseFits, AtHeaders
  <2>6. Accepted' /\ Unmeasured'
    BY <2>3 DEF Accepted, Unmeasured
  <2>7. QED
    BY <2>4, <2>5, <2>6
<1>30. CASE AnsweredInFull
  <2>1. /\ UNCHANGED <<disk, known, torn>> /\ pc = "request"
        /\ response' = [body |-> served, ranged |-> FALSE, etag |-> served,
                        total |-> IF tells THEN Size[served] ELSE None]
    BY <1>30 DEF AnsweredInFull, Answered
  <2>2. /\ response'.body = served /\ response'.ranged = FALSE /\ response'.etag = served
        /\ response'.total = IF tells THEN Size[served] ELSE None
    BY <2>1
  <2>3. \/ pc' = "reset" /\ then' = "headers"
        \/ pc' = "headers" /\ partial = <<>>
    BY <1>30, <1>4 DEF AnsweredInFull, StartReset, Offset
  <2>4. Silent' /\ MetadataFits' /\ MetadataStays' /\ DestinationIsWhole' /\ Consumed'
    BY <2>1, <2>3, <1>6, <1>8, <1>10, <1>12, <1>13
  <2>5. ResponseFits' /\ AtHeaders'
    BY <2>1, <2>2, <2>3, <1>1 DEF ResponseFits, AtHeaders
  <2>6. Accepted' /\ Unmeasured'
    BY <2>3 DEF Accepted, Unmeasured
  <2>7. QED
    BY <2>4, <2>5, <2>6
<1>31. CASE AcceptHeaders
  <2>1. /\ UNCHANGED <<disk, response, torn>> /\ pc = "headers"
        /\ pc' = (IF response.total = None THEN "remember etag" ELSE "remember size")
        /\ known' = (IF response.total = None THEN known ELSE response.total)
    BY <1>31 DEF AcceptHeaders
  <2>2. /\ response.total = IF tells THEN Size[response.body] ELSE None
        /\ response.etag = response.body
    BY <2>1, <1>3 DEF ResponseFits
  <2>3. response \in Responses
    BY <2>1, <1>4 DEF TypeInv, HasResponse
  <2>4. response.body \in Versions
    BY <2>3 DEF Responses
  <2>5. Size[response.body] # None
    BY <2>4, <1>5
  <2>6. IF response.ranged THEN partial # <<>> /\ etag \in {None, response.body} ELSE partial = <<>>
    BY <2>1, <1>3 DEF AtHeaders
  <2>7. ~TotalIsUnknown /\ ~TotalHasChanged
    BY <1>31 DEF AcceptHeaders
  <2>8. DestinationIsWhole' /\ Consumed'
    BY <2>1, <1>12, <1>13
  <2>9. CASE ~tells
    <3>1. pc' = "remember etag" /\ known' = known /\ response.total = None
      BY <2>1, <2>2, <2>9
    <3>2. ~response.ranged
      BY <3>1, <2>7, <2>9, <1>1, <1>3 DEF TotalIsUnknown, Silent
    <3>3. partial = <<>>
      BY <3>2, <2>6
    <3>4. Silent' /\ MetadataFits' /\ MetadataStays'
      BY <3>1, <3>3, <2>1, <1>6, <1>7
    <3>5. ResponseFits' /\ AtHeaders'
      BY <3>1, <2>1, <2>2, <1>1 DEF ResponseFits, AtHeaders
    <3>6. Accepted' /\ Unmeasured'
      BY <3>1, <3>2, <3>3, <2>1, <2>9, <1>1 DEF Accepted, Unmeasured
    <3>7. QED
      BY <2>8, <3>4, <3>5, <3>6
  <2>10. CASE tells
    <3>1. pc' = "remember size" /\ known' = Size[response.body] /\ response.total # None
      BY <2>1, <2>2, <2>5, <2>10
    <3>2. Silent'
      BY <2>10, <1>1 DEF Silent
    <3>3. MetadataFits' /\ MetadataStays'
      <4>1. CASE ~response.ranged
        BY <4>1, <2>1, <2>6, <1>7
      <4>2. CASE response.ranged
        <5>1. Offset > 0
          BY <4>2, <2>6, <1>4 DEF Offset
        <5>2. known # None => known = Size[response.body]
          BY <5>1, <4>2, <3>1, <2>2, <2>7, <2>10 DEF TotalHasChanged
        <5>3. known = None => etag # None
          BY <4>2, <2>1, <2>6, <2>10, <1>3 DEF MetadataStays
        <5>4. OfLength(Size[response.body])
          BY <5>2, <5>3, <4>2, <2>5, <2>6, <1>3 DEF MetadataFits
        <5>5. MetadataFits'
          BY <5>4, <2>1, <3>1, <1>3 DEF MetadataFits, OfLength
        <5>6. MetadataStays'
          BY <2>1, <3>1, <2>5, <1>9
        <5>7. QED
          BY <5>5, <5>6
      <4>3. QED
        BY <4>1, <4>2
    <3>5. ResponseFits' /\ AtHeaders'
      BY <3>1, <2>1, <2>2, <1>1 DEF ResponseFits, AtHeaders
    <3>6. Accepted' /\ Unmeasured'
      BY <3>1, <2>1, <2>6, <2>10, <1>1 DEF Accepted, Unmeasured
    <3>7. QED
      BY <2>8, <3>2, <3>3, <3>5, <3>6
  <2>11. QED
    BY <2>9, <2>10
<1>32. CASE RememberSize
  <2>1. /\ UNCHANGED <<partial, etag, dest, known, response, torn>> /\ pc = "remember size"
        /\ pc' = "remember etag" /\ size' = response.total
    BY <1>32 DEF RememberSize
  <2>2. tells /\ known = Size[response.body] /\ (~response.ranged => partial = <<>>)
    BY <2>1, <1>3 DEF Accepted
  <2>3. response.total = Size[response.body] /\ response.etag = response.body
    BY <2>1, <2>2, <1>3 DEF ResponseFits
  <2>4. size' = known
    BY <2>1, <2>2, <2>3
  <2>5. MetadataFits'
    BY <2>1, <2>4, <1>3 DEF MetadataFits, OfLength
  <2>6. response \in Responses
    BY <2>1, <1>4 DEF TypeInv, HasResponse
  <2>7. known # None
    BY <2>2, <2>6, <1>5 DEF Responses
  <2>8. MetadataStays'
    BY <2>1, <2>4, <2>7, <1>1, <1>3 DEF MetadataStays
  <2>9. Silent' /\ DestinationIsWhole' /\ Consumed'
    BY <2>1, <2>2, <1>1, <1>12, <1>13 DEF Silent
  <2>10. ResponseFits' /\ AtHeaders'
    BY <2>1, <2>2, <2>3, <1>1 DEF ResponseFits, AtHeaders
  <2>11. Accepted' /\ Unmeasured'
    BY <2>1, <2>2, <2>4, <1>1 DEF Accepted, Unmeasured
  <2>12. QED
    BY <2>5, <2>8, <2>9, <2>10, <2>11
<1>33. CASE RememberEtag
  <2>1. /\ UNCHANGED <<partial, size, dest, known, response, torn>> /\ pc = "remember etag"
        /\ pc' = "body" /\ etag' = response.etag
    BY <1>33 DEF RememberEtag
  <2>2. /\ tells => known = Size[response.body] /\ size = Size[response.body]
        /\ ~response.ranged => partial = <<>>
        /\ ~tells => ~response.ranged
    BY <2>1, <1>3 DEF Accepted
  <2>3. /\ response.total = IF tells THEN Size[response.body] ELSE None
        /\ response.etag = response.body
    BY <2>1, <1>3 DEF ResponseFits
  <2>4. response \in Responses
    BY <2>1, <1>4 DEF TypeInv, HasResponse
  <2>5. response.body \in Versions /\ Size[response.body] # None /\ response.body # None
    BY <2>4, <1>5, NoneIsNothingElse DEF Responses
  <2>6. MetadataFits' /\ MetadataStays'
    <3>1. CASE ~tells
      BY <3>1, <2>1, <2>2, <1>7
    <3>2. CASE tells
      <4>1. OfLength(Size[response.body])
        BY <3>2, <2>2, <2>5, <1>3 DEF MetadataFits
      <4>2. MetadataFits'
        BY <4>1, <2>1, <2>3, <1>3 DEF MetadataFits, OfLength
      <4>3. MetadataStays'
        BY <3>2, <2>1, <2>2, <2>3, <2>5 DEF MetadataStays
      <4>4. QED
        BY <4>2, <4>3
    <3>3. QED
      BY <3>1, <3>2
  <2>7. Silent' /\ DestinationIsWhole' /\ Consumed'
    BY <2>1, <1>6, <1>12, <1>13
  <2>8. ResponseFits' /\ AtHeaders'
    BY <2>1, <2>3, <1>1 DEF ResponseFits, AtHeaders
  <2>9. Accepted'
    BY <2>1, <2>2, <2>3, <1>1 DEF Accepted
  <2>10. Unmeasured'
    <3>1. ASSUME ~tells
          PROVE  /\ partial' = <<>> /\ response' = response /\ DOMAIN partial' = {}
                 /\ Len(partial') <= Size[response.body]
      <4>1. partial' = <<>> /\ response' = response
        BY <3>1, <2>1, <2>2
      <4>2. Size[response.body] \in Nat
        BY <2>5, <1>5
      <4>3. QED
        BY <4>1, <4>2
    <3>2. QED
      BY <3>1, <2>1, <1>1 DEF Unmeasured
  <2>11. QED
    BY <2>6, <2>7, <2>8, <2>9, <2>10
<1>34. CASE Receive
  <2>1. /\ UNCHANGED <<etag, size, dest, known, response, torn, pc, then>> /\ pc = "body"
        /\ partial' = Append(partial, response.body) /\ Len(partial) < Size[response.body]
    BY <1>34 DEF Receive, Offset
  <2>2. /\ tells => known = Size[response.body] /\ size = Size[response.body]
        /\ ~tells => ~response.ranged
        /\ etag = response.body
    BY <2>1, <1>3 DEF Accepted
  <2>3. response \in Responses
    BY <2>1, <1>4 DEF TypeInv, HasResponse
  <2>4. response.body \in Versions /\ Size[response.body] \in Nat /\ Size[response.body] # None
        /\ response.body # None
    BY <2>3, <1>5, NoneIsNothingElse DEF Responses
  <2>5. ASSUME NEW n, OfLength(n), Size[response.body] = n
        PROVE  OfLength(n)'
    <3>1. \A i \in DOMAIN partial : Size[partial[i]] = n
      BY <2>5 DEF OfLength
    <3>2. \A i \in DOMAIN Append(partial, response.body) :
             Size[Append(partial, response.body)[i]] = n
      BY <3>1, <2>5, <2>4, <1>4
    <3>3. QED
      BY <3>2, <2>1 DEF OfLength
  <2>6. MetadataFits'
    <3>1. PICK n : n = Size[response.body]
      OBVIOUS
    <3>2. OfLength(n)
      BY <3>1, <2>2, <2>4, <1>3 DEF MetadataFits
    <3>3. OfLength(n)'
      BY <3>1, <3>2, <2>5
    <3>4. (size' # None => size' = n) /\ (known' # None => known' = n) /\ Size[etag'] = n
      BY <3>1, <2>1, <2>2, <1>3 DEF Silent
    <3>5. QED
      BY <3>3, <3>4 DEF MetadataFits, OfLength
  <2>7. MetadataStays'
    BY <2>1, <2>2, <2>4, <1>1 DEF MetadataStays
  <2>8. Silent' /\ DestinationIsWhole' /\ Consumed'
    BY <2>1, <1>6, <1>12, <1>13
  <2>9. ResponseFits' /\ AtHeaders'
    BY <2>1, <1>1, <1>3 DEF ResponseFits, AtHeaders
  <2>10. Accepted'
    BY <2>1, <2>2, <1>1 DEF Accepted
  <2>11. Unmeasured'
    <3>1. ASSUME ~tells
          PROVE  /\ \A i \in DOMAIN Append(partial, response.body) :
                      Append(partial, response.body)[i] = response.body
                 /\ Len(Append(partial, response.body)) <= Size[response.body]
      <4>1. \A i \in DOMAIN partial : partial[i] = response.body
        BY <3>1, <2>1, <1>3 DEF Unmeasured
      <4>2. QED
        BY <4>1, <2>1, <2>4, <1>4
    <3>2. QED
      BY <3>1, <2>1, <1>1 DEF Unmeasured
  <2>12. QED
    BY <2>6, <2>7, <2>8, <2>9, <2>10, <2>11
<1>35. CASE EndBody
  <2>1. /\ UNCHANGED <<disk, known, response, torn>> /\ pc = "body" /\ pc' = "validate"
        /\ Len(partial) >= Size[response.body]
    BY <1>35 DEF EndBody, Offset
  <2>4. response \in Responses
    BY <2>1, <1>4 DEF TypeInv, HasResponse
  <2>5. Size[response.body] \in Nat /\ Size[response.body] # None
    BY <2>4, <1>5 DEF Responses
  <2>2. Silent' /\ MetadataFits' /\ MetadataStays' /\ DestinationIsWhole' /\ Consumed'
    BY <2>1, <1>6, <1>8, <1>10, <1>12, <1>13
  <2>3. ResponseFits' /\ AtHeaders' /\ Accepted'
    <3>1. tells => known = Size[response.body]
      BY <2>1, <1>3 DEF Accepted
    <3>2. QED
      BY <3>1, <2>1, <2>5, <1>1 DEF ResponseFits, AtHeaders, Accepted
  <2>6. ASSUME ~tells
        PROVE  OfLength(Len(partial))
    <3>1. /\ \A i \in DOMAIN partial : partial[i] = response.body
          /\ Len(partial) <= Size[response.body]
      BY <2>1, <2>6, <1>3 DEF Unmeasured
    <3>2. Len(partial) = Size[response.body]
      BY <3>1, <2>1, <2>5, <1>4
    <3>3. QED
      BY <3>1, <3>2 DEF OfLength
  <2>7. Unmeasured'
    BY <2>1, <2>6, <1>1 DEF Unmeasured, OfLength
  <2>8. QED
    BY <2>2, <2>3, <2>7
<1>36. CASE Promote
  <2>1. /\ UNCHANGED <<etag, size, known, then, torn>> /\ dest' = partial /\ partial' = <<>>
        /\ pc' = "ok"
    BY <1>36 DEF Promote
  <2>2. OfLength(Len(partial))
    <3>1. CASE known # None
      <4>1. known = Len(partial)
        BY <1>36, <3>1 DEF Promote, CanValidate, Offset
      <4>2. QED
        BY <4>1, <3>1, <1>3 DEF MetadataFits
    <3>2. CASE known = None
      <4>1. pc = "validate"
        <5>1. Len(partial) \in Nat
          BY <1>4
        <5>2. known # Len(partial)
          BY <5>1, <3>2, NoneIsNothingElse
        <5>3. QED
          BY <1>36, <5>2 DEF Promote, CanValidate, Offset
      <4>2. CASE ~tells
        BY <4>1, <4>2, <1>3 DEF Unmeasured
      <4>3. CASE tells
        BY <3>2, <4>1, <4>3, <1>3 DEF Accepted
      <4>4. QED
        BY <4>2, <4>3
    <3>3. QED
      BY <3>1, <3>2
  <2>3. DestinationIsWhole'
    BY <2>1, <2>2 DEF DestinationIsWhole, OfLength
  <2>4. QED
    BY <2>1, <2>3, <1>6, <1>7, <1>13, <1>14 DEF Working
<1>37. CASE Discard
  <2>1. UNCHANGED <<partial, etag, size, known, torn>> /\ pc = "ok" /\ pc' = "forget" /\ dest' = None
    BY <1>37 DEF Discard
  <2>2. partial = <<>>
    BY <2>1, <1>3 DEF Consumed
  <2>3. DestinationIsWhole'
    BY <2>1 DEF DestinationIsWhole
  <2>4. QED
    BY <2>1, <2>2, <2>3, <1>6, <1>7, <1>13, <1>14 DEF Working
<1>38. CASE Forget
  <2>1. /\ UNCHANGED <<partial, dest, known, torn>> /\ pc = "forget" /\ pc' \in {"forget", "idle"}
        /\ size' \in {size, None}
    BY <1>38 DEF Forget
  <2>2. partial = <<>>
    BY <2>1, <1>3 DEF Consumed
  <2>3. QED
    BY <2>1, <2>2, <1>6, <1>7, <1>12, <1>13, <1>14 DEF Working
<1>39. CASE Fault
  BY <1>39, <1>16 DEF Fault, StartReset, Working
<1>40. CASE Crash
  <2>1. /\ UNCHANGED <<partial, dest>> /\ pc # "idle" /\ pc' = "idle" /\ known' = None
        /\ UNCHANGED <<etag, size, torn>>
    BY <1>40 DEF Crash, Kill
  <2>2. Silent' /\ MetadataFits' /\ DestinationIsWhole' /\ Consumed'
    BY <2>1, <1>6, <1>8, <1>11, <1>13
  <2>3. ResponseFits' /\ AtHeaders' /\ Accepted' /\ Unmeasured'
    BY <2>1, <1>14 DEF Working
  <2>4. MetadataStays'
    BY <2>1, <1>9
  <2>5. QED
    BY <2>2, <2>3, <2>4
<1>41. CASE TearSize
  <2>1. /\ UNCHANGED <<partial, dest>> /\ pc # "idle" /\ pc' = "idle" /\ known' = None
        /\ pc = "remember size" /\ size' = None /\ etag' = etag /\ torn' = torn + 1
    BY <1>41 DEF TearSize, Kill
  <2>2. Silent' /\ MetadataFits' /\ DestinationIsWhole' /\ Consumed'
    BY <2>1, <1>6, <1>8, <1>11, <1>13
  <2>3. ResponseFits' /\ AtHeaders' /\ Accepted' /\ Unmeasured'
    BY <2>1, <1>14 DEF Working
  <2>4. torn = 0 /\ torn' = 1
    <3>1. torn' = torn + 1
      BY <2>1
    <3>2. QED
      BY <3>1, <1>1a
  <2>5. MetadataStays'
    <3>1. ASSUME tells, partial # <<>>
          PROVE  etag # None /\ size # None
      BY <3>1, <2>4, <1>3 DEF MetadataStays
    <3>2. ASSUME tells', partial' # <<>>
          PROVE  etag # None /\ size # None
      BY <3>1, <3>2, <2>1, <1>1
    <3>3. torn' >= 1
      BY <2>4
    <3>4. QED
      BY <3>2, <3>3, <2>1 DEF MetadataStays
  <2>6. QED
    BY <2>2, <2>3, <2>5
<1>42. CASE TearEtag
  <2>1. /\ UNCHANGED <<partial, dest>> /\ pc # "idle" /\ pc' = "idle" /\ known' = None
        /\ pc = "remember etag" /\ etag' = None /\ size' = size /\ torn' = torn + 1
    BY <1>42 DEF TearEtag, Kill
  <2>2. Silent' /\ MetadataFits' /\ DestinationIsWhole' /\ Consumed'
    BY <2>1, <1>6, <1>8, <1>11, <1>13
  <2>3. ResponseFits' /\ AtHeaders' /\ Accepted' /\ Unmeasured'
    BY <2>1, <1>14 DEF Working
  <2>4. torn = 0 /\ torn' = 1
    <3>1. torn' = torn + 1
      BY <2>1
    <3>2. QED
      BY <3>1, <1>1a
  <2>5. MetadataStays'
    <3>1. ASSUME tells, partial # <<>>
          PROVE  etag # None /\ size # None
      BY <3>1, <2>4, <1>3 DEF MetadataStays
    <3>2. ASSUME tells', partial' # <<>>
          PROVE  etag # None /\ size # None
      BY <3>1, <3>2, <2>1, <1>1
    <3>3. torn' >= 1
      BY <2>4
    <3>4. QED
      BY <3>2, <3>3, <2>1 DEF MetadataStays
  <2>6. QED
    BY <2>2, <2>3, <2>5
<1>43. CASE Publish
  <2>1. UNCHANGED <<disk, known, response, pc, then, torn>>
    BY <1>43 DEF Publish
  <2>2. Silent' /\ MetadataFits'
    BY <2>1, <1>6, <1>8
  <2>3. MetadataStays'
    BY <2>1, <1>1, <1>3 DEF MetadataStays
  <2>4. DestinationIsWhole' /\ Consumed'
    BY <2>1, <1>3 DEF DestinationIsWhole, Consumed
  <2>5. QED
    BY <2>1, <2>2, <2>3, <2>4, <1>15
<1>44. CASE UNCHANGED vars
  <2>1. UNCHANGED <<disk, known, response, pc, then, torn>>
    BY <1>44 DEF vars
  <2>2. Silent' /\ MetadataFits'
    BY <2>1, <1>6, <1>8
  <2>3. MetadataStays'
    BY <2>1, <1>1, <1>3 DEF MetadataStays
  <2>4. DestinationIsWhole' /\ Consumed'
    BY <2>1, <1>3 DEF DestinationIsWhole, Consumed
  <2>5. QED
    BY <2>1, <2>2, <2>3, <2>4, <1>15
<1> QED
  BY <1>20, <1>21, <1>22, <1>23, <1>24, <1>25, <1>26, <1>27, <1>28, <1>29, <1>30, <1>31, <1>32, <1>33, <1>34, <1>35, <1>36, <1>37, <1>38, <1>39, <1>40, <1>41, <1>42, <1>43, <1>44 DEF Next, Step

(* A file at the destination of an unsigned download is as long as the     *)
(* versions its bytes are of, unless two kills emptied both the tag and    *)
(* the size: it is never cut short and never the joint of two lengths.     *)
THEOREM UnsignedDownloadsAreWhole == Spec => []UnsignedIsWhole
<1>1. Unsigned => UnsignedIsWhole
  BY DEF Unsigned, DestinationIsWhole, UnsignedIsWhole
<1>2. QED
  BY <1>1, TypeInit, TypeStep, UnsignedInit, UnsignedStep, PTL DEF Spec
=============================================================================
