------------------------------- MODULE Checkers -------------------------------
(***************************************************************************)
(* One check of a link by the checker of its platform: LinkChecker.Check.  *)
(* A check waits for the rate limit, takes the link apart, and holds a     *)
(* conversation of one to three requests with the platform's site, under a *)
(* deadline that starts after the rate limit.                              *)
(*                                                                         *)
(* An answer of a site is reduced to what the checkers tell apart.  A      *)
(* request fails in one of the ways of Fault, and with the deadline past   *)
(* it can only fail.  No checker returns an error: what went wrong is a    *)
(* result like any other.                                                  *)
(***************************************************************************)
EXTENDS Integers

CONSTANTS
    Link,       \* normalised links
    Shapes      \* what the links may look like

VARIABLES
    shape,      \* what each link looks like, chosen once
    check       \* the check of each link that is going on

checkVars == <<shape, check>>

Platform == {"quark", "uc", "xunlei", "baidu", "tianyi", "pan115", "pan123",
             "aliyun", "cmcc"}

\* wellFormed: the checker finds an identifier in the link; passcode: the link
\* carries one; short: a pan.qoark.cn link, which stands for another.
Shape == [platform : Platform, wellFormed : BOOLEAN, passcode : BOOLEAN, short : BOOLEAN]

ASSUME ShapesAssumption == Shapes \subseteq Shape

\* CheckResult by its Valid, IsPasswordProtected and IsRateLimited: "locked"
\* is protected and valid, "closed" protected and not valid (Baidu's).
Result == {"valid", "locked", "closed", "dead", "limited"}
CountsValid(result) == result \in {"valid", "locked"}
Protected(result) == result \in {"locked", "closed"}

\* Requests, each with an outstanding answer.
Request == {"redirect", "captcha", "verify", "ask", "detail"}

\* late: the deadline of the check has passed; code: the passcode in use.
Check == [step : {"idle", "limit", "done"} \cup Request, late : BOOLEAN,
          code : BOOLEAN, result : Result]
NoCheck == [step |-> "idle", late |-> FALSE, code |-> FALSE, result |-> "dead"]

CheckTypeOK == shape \in [Link -> Shapes] /\ check \in [Link -> Check]

CheckInit == shape \in [Link -> Shapes] /\ check = [l \in Link |-> NoCheck]

(***************************************************************************)
(* Steps of every conversation.                                            *)
(***************************************************************************)
At(l, platform, step) == shape[l].platform = platform /\ check[l].step = step

Asks(l, step) == check' = [check EXCEPT ![l].step = step] /\ UNCHANGED shape
Gives(l, result) ==
    check' = [check EXCEPT ![l].step = "done", ![l].result = result] /\ UNCHANGED shape

\* How a request goes wrong: Do fails on its own (also by the client's own 30
\* seconds) or because the deadline passes, the body breaks off, the status is
\* not 200, the body is not what it should be.
Fault == {"unreachable", "timeout", "cut", "status", "garbled"}
Faults(l) == IF check[l].late THEN {"timeout", "cut"} ELSE Fault \ {"timeout"}
InTime(l) == ~ check[l].late

\* Check is called.  Baidu's looks for its address in the link before it
\* waits for the rate limit, the others after.
Begin(l) ==
    /\ check[l].step = "idle"
    /\ \/ Asks(l, "limit")
       \/ shape[l].platform = "baidu" /\ ~ shape[l].wellFormed /\ Gives(l, "dead")

\* 115 wants a passcode in the link.
Complete(s) == s.wellFormed /\ (s.platform = "pan115" => s.passcode)

FirstRequest(s) ==
    CASE s.platform = "quark" /\ s.short -> "redirect"
      [] s.platform = "xunlei" -> "captcha"
      [] s.platform = "baidu" /\ s.passcode -> "verify"
      [] OTHER -> "ask"

\* Past ApplyRateLimit: the deadline starts, the link is taken apart.
Admit(l) ==
    /\ check[l].step = "limit"
    /\ check' = [check EXCEPT ![l] =
          IF Complete(shape[l])
          THEN [NoCheck EXCEPT !.step = FirstRequest(shape[l]), !.code = shape[l].passcode]
          ELSE [NoCheck EXCEPT !.step = "done"]]
    /\ UNCHANGED shape

\* context.WithTimeout.
Expire(l) ==
    /\ check[l].step \in Request /\ ~ check[l].late
    /\ check' = [check EXCEPT ![l].late = TRUE]
    /\ UNCHANGED shape

(***************************************************************************)
(* Quark: follow a short link, get a token, list the files with it.        *)
(***************************************************************************)

\* Under a context of its own of 10 seconds, so whatever the check's deadline.
\* The address it leads to may carry a passcode.
QuarkRedirect(l) ==
    /\ At(l, "quark", "redirect")
    /\ \/ Gives(l, "dead")
       \/ \E found \in BOOLEAN :
            /\ check' = [check EXCEPT ![l].step = "ask", ![l].code = @ \/ found]
            /\ UNCHANGED shape

\* Mutant of QuarkRefused: protected whether or not a passcode was sent.
QuarkRefusedLocked(code, needsCode) == IF needsCode THEN "locked" ELSE "dead"

\* An error code instead of a token: 41008 asks for a passcode; 41004, 41010
\* and 41011 refuse it, the others do not know the share.
QuarkRefused(code, needsCode) == IF needsCode /\ ~ code THEN "locked" ELSE "dead"

QuarkToken(l) ==
    /\ At(l, "quark", "ask")
    /\ \/ \E f \in Faults(l) : Gives(l, "dead")
       \/ InTime(l) /\ \E needsCode \in BOOLEAN :
            Gives(l, QuarkRefused(check[l].code, needsCode))
       \/ InTime(l) /\ \E stoken \in BOOLEAN :
            IF stoken THEN Asks(l, "detail") ELSE Gives(l, "dead")

\* A share is valid with files in it and a status up to 1, or 3 without a
\* violation.
QuarkListed(files, status, violation) ==
    IF files /\ (status <= 1 \/ (status = 3 /\ ~ violation)) THEN "valid" ELSE "dead"

QuarkDetail(l) ==
    /\ At(l, "quark", "detail")
    /\ \/ \E f \in Faults(l) : Gives(l, "dead")
       \/ InTime(l) /\ \E files, violation \in BOOLEAN, status \in 0 .. 4 :
            Gives(l, QuarkListed(files, status, violation))

(***************************************************************************)
(* Xunlei: a captcha token, then the share.                                *)
(***************************************************************************)

\* Without a token the share is asked for without one.
XunleiCaptcha(l) == At(l, "xunlei", "captcha") /\ Asks(l, "ask")

\* The deadline counts as valid, "to avoid misjudging"; error_code 9 is the
\* site's own limit.
XunleiFailed(fault, code9) ==
    CASE fault = "timeout" -> "valid"
      [] fault = "status" /\ code9 -> "limited"
      [] OTHER -> "dead"

XunleiAnswer(status, wantsCode) ==
    CASE status = "OK" -> "valid"
      [] status = "other" /\ wantsCode -> "locked"
      [] OTHER -> "dead"

XunleiShare(l) ==
    /\ At(l, "xunlei", "ask")
    /\ \/ \E f \in Faults(l), code9 \in BOOLEAN : Gives(l, XunleiFailed(f, code9))
       \/ InTime(l) /\ \E status \in {"OK", "other", "missing"}, wantsCode \in BOOLEAN :
            Gives(l, XunleiAnswer(status, wantsCode))

(***************************************************************************)
(* Baidu: verify the passcode of the link, if any, then list the share.    *)
(***************************************************************************)
BaiduVerify(l) ==
    /\ At(l, "baidu", "verify")
    /\ \/ \E f \in Faults(l) \ {"status"} : Gives(l, "dead")
       \/ InTime(l) /\ \E randsk \in BOOLEAN :
            IF randsk THEN Asks(l, "ask") ELSE Gives(l, "dead")

\* errno 0 is also what an answer without errno is read as.  The status of the
\* response is not looked at.
BaiduListed(errno, code) ==
    CASE errno = 0 -> "valid"
      [] errno = -62 -> "limited"
      [] errno = -12 /\ ~ code -> "closed"
      [] OTHER -> "dead"

BaiduList(l) ==
    /\ At(l, "baidu", "ask")
    /\ \/ \E f \in Faults(l) \ {"status"} : Gives(l, "limited")
       \/ InTime(l) /\ \E errno \in {0, -62, -12, -9} : Gives(l, BaiduListed(errno, check[l].code))

(***************************************************************************)
(* The platforms with one request.                                         *)
(***************************************************************************)

\* Its comments say that a timeout and a connection error count as valid.  Do's
\* error is never a TimeoutError nor names a ConnectError, so neither of the
\* two branches is taken.
UCFailed(fault) == "dead"

\* Keywords in the page: an error one, a valid one, a password one, in this order.
UCRead(error, valid, password) ==
    CASE error -> "dead"
      [] ~ error /\ valid -> "valid"
      [] ~ error /\ ~ valid /\ password -> "locked"
      [] OTHER -> "dead"

UCPage(l) ==
    /\ At(l, "uc", "ask")
    /\ \/ \E f \in Faults(l) \ {"garbled"} : Gives(l, UCFailed(f))
       \/ InTime(l) /\ \E error, valid, password \in BOOLEAN :
            Gives(l, UCRead(error, valid, password))

\* shareId above 0, needAccessCode.
TianyiRead(exists, needsCode, code) ==
    CASE exists /\ needsCode /\ ~ code -> "locked"
      [] exists /\ (code \/ ~ needsCode) -> "valid"
      [] OTHER -> "dead"

TianyiShare(l) ==
    /\ At(l, "tianyi", "ask")
    /\ \/ \E f \in Faults(l) : Gives(l, "dead")
       \/ InTime(l) /\ \E exists, needsCode \in BOOLEAN :
            Gives(l, TianyiRead(exists, needsCode, check[l].code))

\* The share_state of the answer or, if 0, that of its shareinfo.
Pan115Read(ok, state, infoState) ==
    IF ok /\ (IF state = 0 THEN infoState ELSE state) = 1 THEN "valid" ELSE "dead"

Pan115Share(l) ==
    /\ At(l, "pan115", "ask")
    /\ \/ \E f \in Faults(l) : Gives(l, "dead")
       \/ InTime(l) /\ \E ok \in BOOLEAN, state, infoState \in 0 .. 2 :
            Gives(l, Pan115Read(ok, state, infoState))

Pan123Read(code, hasPwd) ==
    CASE code = 0 -> "valid"
      [] code # 0 /\ hasPwd -> "locked"
      [] OTHER -> "dead"

\* Every fault is forgiven, 403 too; of other statuses the body is read.
Pan123Share(l) ==
    /\ At(l, "pan123", "ask")
    /\ \/ \E f \in Faults(l) : Gives(l, "valid")
       \/ InTime(l) /\ \E code \in 0 .. 1, hasPwd \in BOOLEAN : Gives(l, Pan123Read(code, hasPwd))

\* Mutant of AliyunFailed: the branch for the deadline as it is in Pan123Share.
AliyunFailedLenient(fault, is429) ==
    CASE fault = "timeout" -> "valid"
      [] fault = "status" /\ is429 -> "limited"
      [] OTHER -> "dead"

AliyunFailed(fault, is429) == IF fault = "status" /\ is429 THEN "limited" ELSE "dead"

\* The code in the body: none, of a ShareLink error, of an Exceed one (its
\* empty answer counts as valid), another one.
AliyunRead(code, empty) ==
    IF code = "Exceed" \/ (code = "" /\ ~ empty) THEN "valid" ELSE "dead"

AliyunShare(l) ==
    /\ At(l, "aliyun", "ask")
    /\ \/ \E f \in Faults(l), is429 \in BOOLEAN : Gives(l, AliyunFailed(f, is429))
       \/ InTime(l) /\ \E code \in {"", "ShareLink", "Exceed", "other"}, empty \in BOOLEAN :
            Gives(l, AliyunRead(code, empty))

\* resultCode "0" with data in it, and a list with entries or a positive count.
CMCCRead(ok, listed, counted) == IF ok /\ (listed \/ counted) THEN "valid" ELSE "dead"

CMCCShare(l) ==
    /\ At(l, "cmcc", "ask")
    /\ \/ \E f \in Faults(l) : Gives(l, "dead")
       \/ InTime(l) /\ \E ok, listed, counted \in BOOLEAN : Gives(l, CMCCRead(ok, listed, counted))

(***************************************************************************)
(* A check as a whole.                                                     *)
(***************************************************************************)
Answered(l) ==
    \/ QuarkRedirect(l) \/ QuarkToken(l) \/ QuarkDetail(l)
    \/ XunleiCaptcha(l) \/ XunleiShare(l)
    \/ BaiduVerify(l) \/ BaiduList(l)
    \/ UCPage(l) \/ TianyiShare(l) \/ Pan115Share(l) \/ Pan123Share(l)
    \/ AliyunShare(l) \/ CMCCShare(l)

CheckStep(l) == Admit(l) \/ Answered(l)

\* The results a link of a shape can get.
Possible(s) ==
    {"dead"}
      \cup (IF Complete(s) THEN {"valid"} ELSE {})
      \cup (IF Complete(s) /\ s.platform \in {"baidu", "aliyun", "xunlei"}
            THEN {"limited"} ELSE {})
      \cup (IF Complete(s) /\ (s.platform \in {"uc", "xunlei", "pan123"}
                                 \/ (s.platform \in {"quark", "tianyi"} /\ ~ s.passcode))
            THEN {"locked"} ELSE {})
      \cup (IF Complete(s) /\ s.platform = "baidu" /\ ~ s.passcode THEN {"closed"} ELSE {})

===============================================================================
