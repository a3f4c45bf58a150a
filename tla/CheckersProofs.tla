---------------------------- MODULE CheckersProofs -----------------------------
(***************************************************************************)
(* What the conversations with the sites keep, for any links of any        *)
(* shapes: what LinkCheck's theorems rest on.                              *)
(***************************************************************************)
EXTENDS Checkers, TLAPS

\* A check that is asking has a link to ask about, and has not lost the passcode
\* the link brought; one that is done has a result its platform can give, and
\* has not made it of a deadline but where that is meant.
Sound(s, c) ==
    /\ c.step \in Request => Complete(s) /\ (s.passcode => c.code)
    /\ c.step = "done" =>
          /\ c.result \in Possible(s)
          /\ c.late /\ CountsValid(c.result) => s.platform \in {"xunlei", "pan123"}

CheckInv == CheckTypeOK /\ \A l \in Link : Sound(shape[l], check[l])

\* What a step does to the check of link l.
Becomes(l, c) == check' = [check EXCEPT ![l] = c] /\ UNCHANGED shape

LEMMA NoCheckSound == NoCheck \in Check /\ \A s \in Shape : Sound(s, NoCheck)
  BY DEF NoCheck, Check, Sound, Request, Result

LEMMA InitCheck == CheckInit => CheckInv
  BY NoCheckSound, ShapesAssumption DEF CheckInit, CheckInv, CheckTypeOK

LEMMA CheckOf ==
    ASSUME CheckInv, NEW l \in Link
    PROVE  shape[l] \in Shape /\ check[l] \in Check /\ Sound(shape[l], check[l])
  BY ShapesAssumption DEF CheckInv, CheckTypeOK

LEMMA BecomesSound ==
    ASSUME CheckInv, NEW l \in Link, NEW c \in Check, Becomes(l, c), Sound(shape[l], c)
    PROVE  CheckInv'
  BY DEF CheckInv, CheckTypeOK, Becomes

\* A conversation that goes on keeps what it is sound by.
LEMMA AsksSound ==
    ASSUME CheckInv, NEW l \in Link, NEW step \in Request, check[l].step \in Request,
           Asks(l, step)
    PROVE  CheckInv'
  <1> DEFINE c == [check[l] EXCEPT !.step = step]
  <1>1. check[l] \in Check /\ Sound(shape[l], check[l])
    BY CheckOf
  <1>2. /\ c \in Check /\ c.step = step /\ c.code = check[l].code
        /\ c.late = check[l].late /\ c.result = check[l].result
    BY <1>1 DEF Check, Request
  <1>3. Becomes(l, c)
    BY DEF Asks, Becomes
  <1> HIDE DEF c
  <1>4. Sound(shape[l], c)
    BY <1>1, <1>2 DEF Sound, Request
  <1> QED
    BY <1>2, <1>3, <1>4, BecomesSound

\* One that ends needs a result its platform can give, and time for it.
LEMMA GivesSound ==
    ASSUME CheckInv, NEW l \in Link, NEW result \in Possible(shape[l]), Gives(l, result),
           check[l].late /\ CountsValid(result) => shape[l].platform \in {"xunlei", "pan123"}
    PROVE  CheckInv'
  <1> DEFINE c == [check[l] EXCEPT !.step = "done", !.result = result]
  <1>1. check[l] \in Check
    BY CheckOf
  <1>2. result \in Result
    BY DEF Possible, Result
  <1>3. c \in Check /\ c.step = "done" /\ c.late = check[l].late /\ c.result = result
    BY <1>1, <1>2 DEF Check
  <1>4. Becomes(l, c)
    BY DEF Gives, Becomes
  <1> HIDE DEF c
  <1>5. Sound(shape[l], c)
    BY <1>3 DEF Sound, Request
  <1> QED
    BY <1>3, <1>4, <1>5, BecomesSound

LEMMA DeadSound ==
    ASSUME CheckInv, NEW l \in Link, Gives(l, "dead")
    PROVE  CheckInv'
  BY GivesSound DEF Possible, CountsValid

---------------------------------------------------------------------------
(* The steps. *)

LEMMA BeginSound ==
    ASSUME CheckInv, NEW l \in Link, Begin(l)
    PROVE  CheckInv'
  <1>1. CASE Asks(l, "limit")
    <2> DEFINE c == [check[l] EXCEPT !.step = "limit"]
    <2>1. c \in Check /\ c.step = "limit" /\ Becomes(l, c)
      BY <1>1, CheckOf DEF Asks, Becomes, Check
    <2> HIDE DEF c
    <2> QED
      BY <2>1, BecomesSound DEF Sound, Request
  <1> QED
    BY <1>1, DeadSound DEF Begin

LEMMA AdmitSound ==
    ASSUME CheckInv, NEW l \in Link, Admit(l)
    PROVE  CheckInv'
  <1>0. shape[l] \in Shape
    BY CheckOf
  <1>1. CASE Complete(shape[l])
    <2> DEFINE c == [NoCheck EXCEPT !.step = FirstRequest(shape[l]), !.code = shape[l].passcode]
    <2>1. FirstRequest(shape[l]) \in Request
      BY DEF FirstRequest, Request
    <2>2. /\ c \in Check /\ c.step = FirstRequest(shape[l]) /\ c.code = shape[l].passcode
          /\ Becomes(l, c)
      BY <1>0, <1>1, <2>1 DEF Admit, Becomes, Check, NoCheck, Shape, Result
    <2> HIDE DEF c
    <2> QED
      BY <1>1, <2>1, <2>2, BecomesSound DEF Sound, Request
  <1>2. CASE ~ Complete(shape[l])
    <2> DEFINE c == [NoCheck EXCEPT !.step = "done"]
    <2>1. c \in Check /\ c.step = "done" /\ c.result = "dead" /\ Becomes(l, c)
      BY <1>2 DEF Admit, Becomes, Check, NoCheck, Result
    <2> HIDE DEF c
    <2> QED
      BY <2>1, BecomesSound DEF Sound, Request, Possible, CountsValid
  <1> QED
    BY <1>1, <1>2

LEMMA ExpireSound ==
    ASSUME CheckInv, NEW l \in Link, Expire(l)
    PROVE  CheckInv'
  <1> DEFINE c == [check[l] EXCEPT !.late = TRUE]
  <1>1. check[l] \in Check /\ Sound(shape[l], check[l])
    BY CheckOf
  <1>2. c \in Check /\ c.step = check[l].step /\ c.code = check[l].code /\ Becomes(l, c)
    BY <1>1 DEF Expire, Becomes, Check
  <1> HIDE DEF c
  <1> QED
    BY <1>1, <1>2, BecomesSound DEF Sound, Request, Expire

LEMMA QuarkSound ==
    ASSUME CheckInv, NEW l \in Link, QuarkRedirect(l) \/ QuarkToken(l) \/ QuarkDetail(l)
    PROVE  CheckInv'
  <1>0. check[l] \in Check /\ Sound(shape[l], check[l])
    BY CheckOf
  <1>1. ASSUME NEW found \in BOOLEAN, At(l, "quark", "redirect"),
               check' = [check EXCEPT ![l].step = "ask", ![l].code = @ \/ found],
               UNCHANGED shape
        PROVE  CheckInv'
    <2> DEFINE c == [check[l] EXCEPT !.step = "ask", !.code = @ \/ found]
    <2>1. /\ c \in Check /\ c.step = "ask" /\ (check[l].code => c.code)
      BY <1>0, <1>1 DEF Check, Request
    <2>2. Becomes(l, c)
      BY <1>1 DEF Becomes
    <2> HIDE DEF c
    <2>3. Sound(shape[l], c)
      BY <1>0, <1>1, <2>1 DEF Sound, Request, At
    <2> QED
      BY <2>1, <2>2, <2>3, BecomesSound
  <1>2. CASE QuarkRedirect(l)
    BY <1>1, <1>2, DeadSound DEF QuarkRedirect
  <1>3. CASE QuarkToken(l)
    <2>1. At(l, "quark", "ask") /\ check[l].step \in Request
      BY <1>3 DEF QuarkToken, At, Request
    <2>2. ASSUME NEW needsCode \in BOOLEAN, InTime(l),
                 Gives(l, QuarkRefused(check[l].code, needsCode))
          PROVE  CheckInv'
      <3>1. QuarkRefused(check[l].code, needsCode) \in Possible(shape[l])
        BY <1>0, <2>1 DEF QuarkRefused, Possible, Sound, At
      <3> QED
        BY <2>2, <3>1, GivesSound DEF InTime
    <2> QED
      BY <1>3, <2>1, <2>2, DeadSound, AsksSound DEF QuarkToken, Request
  <1>4. CASE QuarkDetail(l)
    <2>1. "valid" \in Possible(shape[l])
      BY <1>0, <1>4 DEF QuarkDetail, At, Sound, Request, Possible
    <2> QED
      BY <1>4, <2>1, DeadSound, GivesSound DEF QuarkDetail, QuarkListed, InTime
  <1> QED
    BY <1>2, <1>3, <1>4

LEMMA XunleiSound ==
    ASSUME CheckInv, NEW l \in Link, XunleiCaptcha(l) \/ XunleiShare(l)
    PROVE  CheckInv'
  <1>1. CASE XunleiCaptcha(l)
    BY <1>1, AsksSound DEF XunleiCaptcha, At, Request
  <1>2. CASE XunleiShare(l)
    <2>1. {"valid", "locked", "limited", "dead"} \subseteq Possible(shape[l])
      BY <1>2, CheckOf DEF XunleiShare, At, Sound, Request, Possible
    <2>2. shape[l].platform = "xunlei"
      BY <1>2 DEF XunleiShare, At
    <2>3. \A fault \in Fault, code9 \in BOOLEAN : XunleiFailed(fault, code9) \in Possible(shape[l])
      BY <2>1 DEF XunleiFailed
    <2>4. \A status \in {"OK", "other", "missing"}, wantsCode \in BOOLEAN :
             XunleiAnswer(status, wantsCode) \in Possible(shape[l])
      BY <2>1 DEF XunleiAnswer
    <2>5. PICK result \in Possible(shape[l]) : Gives(l, result)
      BY <1>2, <2>3, <2>4 DEF XunleiShare, Faults, Fault
    <2> QED
      BY <2>2, <2>5, GivesSound
  <1> QED
    BY <1>1, <1>2

LEMMA BaiduSound ==
    ASSUME CheckInv, NEW l \in Link, BaiduVerify(l) \/ BaiduList(l)
    PROVE  CheckInv'
  <1>1. CASE BaiduVerify(l)
    BY <1>1, AsksSound, DeadSound DEF BaiduVerify, At, Request
  <1>2. CASE BaiduList(l)
    <2>1. /\ {"valid", "limited", "dead"} \subseteq Possible(shape[l])
          /\ ~ check[l].code => "closed" \in Possible(shape[l])
      BY <1>2, CheckOf DEF BaiduList, At, Sound, Request, Possible
    <2>2. \A errno \in {0, -62, -12, -9} : BaiduListed(errno, check[l].code) \in Possible(shape[l])
      BY <2>1 DEF BaiduListed
    <2>3. CASE Gives(l, "limited")
      BY <2>1, <2>3, GivesSound DEF CountsValid
    <2> QED
      BY <1>2, <2>2, <2>3, GivesSound DEF BaiduList, InTime
  <1> QED
    BY <1>1, <1>2

\* The platforms that ask once; of them only 123 forgives faults.
LEMMA OneRequestSound ==
    ASSUME CheckInv, NEW l \in Link,
           \/ UCPage(l) \/ TianyiShare(l) \/ Pan115Share(l) \/ Pan123Share(l)
           \/ AliyunShare(l) \/ CMCCShare(l)
    PROVE  CheckInv'
  <1>0. Sound(shape[l], check[l])
    BY CheckOf
  <1>1. CASE UCPage(l)
    <2>1. {"valid", "locked"} \subseteq Possible(shape[l])
      BY <1>0, <1>1 DEF UCPage, At, Sound, Request, Possible
    <2>2. \A error, valid, password \in BOOLEAN :
             UCRead(error, valid, password) \in {"valid", "locked", "dead"}
      BY DEF UCRead
    <2> QED
      BY <1>1, <2>1, <2>2, DeadSound, GivesSound DEF UCPage, UCFailed, InTime
  <1>2. CASE TianyiShare(l)
    <2>1. "valid" \in Possible(shape[l]) /\ (~ check[l].code => "locked" \in Possible(shape[l]))
      BY <1>0, <1>2 DEF TianyiShare, At, Sound, Request, Possible
    <2>2. \A exists, needsCode \in BOOLEAN :
             TianyiRead(exists, needsCode, check[l].code) \in
                {"valid", "dead"} \cup (IF check[l].code THEN {} ELSE {"locked"})
      BY DEF TianyiRead
    <2> QED
      BY <1>2, <2>1, <2>2, DeadSound, GivesSound DEF TianyiShare, InTime
  <1>3. CASE Pan115Share(l)
    <2>1. "valid" \in Possible(shape[l])
      BY <1>0, <1>3 DEF Pan115Share, At, Sound, Request, Possible
    <2> QED
      BY <1>3, <2>1, DeadSound, GivesSound DEF Pan115Share, Pan115Read, InTime
  <1>4. CASE Pan123Share(l)
    <2>1. {"valid", "locked"} \subseteq Possible(shape[l]) /\ shape[l].platform = "pan123"
      BY <1>0, <1>4 DEF Pan123Share, At, Sound, Request, Possible
    <2>2. \A code \in 0 .. 1, hasPwd \in BOOLEAN :
             Pan123Read(code, hasPwd) \in {"valid", "locked", "dead"}
      BY DEF Pan123Read
    <2> QED
      BY <1>4, <2>1, <2>2, DeadSound, GivesSound DEF Pan123Share
  <1>5. CASE AliyunShare(l)
    <2>1. {"valid", "limited"} \subseteq Possible(shape[l])
      BY <1>0, <1>5 DEF AliyunShare, At, Sound, Request, Possible
    <2>2. CASE Gives(l, "limited")
      BY <2>1, <2>2, GivesSound DEF CountsValid
    <2> QED
      BY <1>5, <2>1, <2>2, DeadSound, GivesSound DEF AliyunShare, AliyunFailed, AliyunRead, InTime
  <1>6. CASE CMCCShare(l)
    <2>1. "valid" \in Possible(shape[l])
      BY <1>0, <1>6 DEF CMCCShare, At, Sound, Request, Possible
    <2> QED
      BY <1>6, <2>1, DeadSound, GivesSound DEF CMCCShare, CMCCRead, InTime
  <1> QED
    BY <1>1, <1>2, <1>3, <1>4, <1>5, <1>6

LEMMA CheckStepSound ==
    ASSUME CheckInv, NEW l \in Link, CheckStep(l)
    PROVE  CheckInv'
  BY AdmitSound, QuarkSound, XunleiSound, BaiduSound, OneRequestSound DEF CheckStep, Answered

LEMMA ShapeStays ==
    ASSUME NEW l \in Link, CheckStep(l) \/ Expire(l) \/ Begin(l)
    PROVE  UNCHANGED shape
  BY DEF CheckStep, Expire, Begin, Admit, Answered, Asks, Gives, QuarkRedirect, QuarkToken,
         QuarkDetail, XunleiCaptcha, XunleiShare, BaiduVerify, BaiduList, UCPage, TianyiShare,
         Pan115Share, Pan123Share, AliyunShare, CMCCShare

\* A check that returns, panics or is cut off by a crash leaves none.
LEMMA ResetSound ==
    ASSUME CheckInv, NEW L \in SUBSET Link, UNCHANGED shape,
           check' = [l \in Link |-> IF l \in L THEN NoCheck ELSE check[l]]
    PROVE  CheckInv'
  BY NoCheckSound, ShapesAssumption DEF CheckInv, CheckTypeOK

\* A conversation that goes on is one, and no other link's.
LEMMA AsksGoesOn ==
    ASSUME CheckTypeOK, NEW l \in Link,
           (\E step \in Request \cup {"limit"} : Asks(l, step)) \/ (\E result : Gives(l, result))
    PROVE  check'[l].step # "idle" /\ \A m \in Link \ {l} : check'[m] = check[m]
  <1>1. check[l] \in Check
    BY DEF CheckTypeOK
  <1>2. \A step : [check[l] EXCEPT !.step = step].step = step
    BY <1>1 DEF Check
  <1>3. \A result : [check[l] EXCEPT !.step = "done", !.result = result].step = "done"
    BY <1>1 DEF Check
  <1> QED
    BY <1>2, <1>3 DEF Asks, Gives, CheckTypeOK, Request

LEMMA GoesOn ==
    ASSUME CheckTypeOK, NEW l \in Link, CheckStep(l) \/ Expire(l)
    PROVE  /\ check[l].step # "idle" /\ check'[l].step # "idle"
           /\ \A m \in Link \ {l} : check'[m] = check[m]
  <1>1. check[l] \in Check
    BY DEF CheckTypeOK
  <1>2. CASE Admit(l)
    <2>1. FirstRequest(shape[l]) # "idle"
      BY DEF FirstRequest
    <2>2. \A step, code : [NoCheck EXCEPT !.step = step, !.code = code].step = step
      BY DEF NoCheck
    <2>3. [NoCheck EXCEPT !.step = "done"].step = "done"
      BY DEF NoCheck
    <2> HIDE DEF NoCheck
    <2> QED
      BY <1>2, <2>1, <2>2, <2>3 DEF Admit, CheckTypeOK
  <1>3. CASE Expire(l)
    <2>1. [check[l] EXCEPT !.late = TRUE].step = check[l].step
      BY <1>1 DEF Check
    <2> QED
      BY <1>3, <2>1 DEF Expire, CheckTypeOK, Request
  <1>4. CASE Answered(l)
    <2>1. check[l].step \in Request
      BY <1>4 DEF Answered, At, Request, QuarkRedirect, QuarkToken, QuarkDetail, XunleiCaptcha,
                  XunleiShare, BaiduVerify, BaiduList, UCPage, TianyiShare, Pan115Share,
                  Pan123Share, AliyunShare, CMCCShare
    <2>2. CASE \E found \in BOOLEAN :
                  check' = [check EXCEPT ![l].step = "ask", ![l].code = @ \/ found]
      <3>1. \A found : [check[l] EXCEPT !.step = "ask", !.code = @ \/ found].step = "ask"
        BY <1>1 DEF Check
      <3> QED
        BY <2>1, <2>2, <3>1 DEF CheckTypeOK, Request
    <2>3. CASE (\E step \in Request : Asks(l, step)) \/ (\E result : Gives(l, result))
      BY <2>1, <2>3, AsksGoesOn DEF Request
    <2>4. CASE QuarkRedirect(l) \/ QuarkToken(l) \/ QuarkDetail(l)
      BY <2>2, <2>3, <2>4, Zenon DEF QuarkRedirect, QuarkToken, QuarkDetail, Request
    <2>5. CASE XunleiCaptcha(l) \/ XunleiShare(l) \/ BaiduVerify(l) \/ BaiduList(l)
      BY <2>3, <2>5, Zenon DEF XunleiCaptcha, XunleiShare, BaiduVerify, BaiduList, Request
    <2>6. CASE \/ UCPage(l) \/ TianyiShare(l) \/ Pan115Share(l) \/ Pan123Share(l)
               \/ AliyunShare(l) \/ CMCCShare(l)
      BY <2>3, <2>6, Zenon DEF UCPage, TianyiShare, Pan115Share, Pan123Share, AliyunShare, CMCCShare
    <2> QED
      BY <1>4, <2>4, <2>5, <2>6 DEF Answered
  <1> QED
    BY <1>2, <1>3, <1>4 DEF CheckStep
===============================================================================
