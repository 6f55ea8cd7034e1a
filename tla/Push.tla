-------------------------------- MODULE Push --------------------------------
(* pantry/apns, pantry/fcm and pantry/notify: clients that send to devices
   through a push service.  A batch asks for an authorization for each target in
   turn (cached under tokenMu for APNs keys and for FCM), posts, and keeps what
   came of it.  The services, and how long a request is under way, are external. *)
EXTENDS Integers, Sequences, FiniteSets

CONSTANTS Senders,         \* goroutines that send
          Devices,
          Blank,           \* a target that is none: no token, an invalid subscription
          Nil,             \* a nil message, notification or subscription
          NoToken,
          PushLifetime,    \* ticks a token is good for
          RefreshAge,      \* APNs: a token is used up to this age
          Margin,          \* FCM: a token is used up to this long before its expiry
          HTTPTimeout,     \* ticks a request takes at most: Config.Timeout, or the caller's own client
          MaxSends,        \* bound: targets
          MaxPushTime      \* bound: ticks

VARIABLES service,         \* "apns", "apns_cert", "fcm" or "webpush"
          cached,          \* the client's token: [issued, taken], or NoToken
          tokenMu,         \* who holds tokenMu for writing
          sender,
          registered,      \* devices the service still knows
          reached,         \* <<sender, device>>: notifications the service has accepted
          lateUse,         \* a request has reached the service with an expired token
          issues,          \* the times at which tokens were put in the cache
          sends, pushTime

pushVars == <<service, cached, tokenMu, sender, registered, reached, lateUse, issues, sends, pushTime>>
Services == {"apns", "apns_cert", "fcm", "webpush"}
IdleSender == [pc |-> "idle", kind |-> "send", targets |-> << >>, left |-> << >>, token |-> NoToken,
               since |-> 0, results |-> << >>]

ASSUME PushAssumption ==
    /\ {PushLifetime, RefreshAge, Margin, HTTPTimeout} \subseteq Nat /\ RefreshAge > 0
    /\ Margin < PushLifetime
    /\ NoToken \notin Senders \cup [issued : Nat, taken : Nat]

(* What a service answers: the status and the reason in the body, "" where the
   body cannot be decoded.  A device that is gone is told apart from one that is
   refused for the moment. *)
Answer(status, reason) == [status |-> status, reason |-> reason]
NoAnswer == Answer(0, "")
apnsGone == {Answer(400, "BadDeviceToken"), Answer(410, "Unregistered"), Answer(410, "ExpiredToken")}
apnsBusy == {Answer(429, "TooManyRequests"), Answer(503, ""), Answer(403, "InvalidProviderToken")}
fcmBusy == {Answer(429, "QUOTA_EXCEEDED"), Answer(503, "UNAVAILABLE"), Answer(503, "")}
webpushBusy == {Answer(413, ""), Answer(503, "")}
NotForTopic == Answer(400, "DeviceTokenNotForTopic")    \* a token of another app
GoodAnswers == [apns |-> {Answer(200, "")}, fcm |-> {Answer(200, "")}, webpush |-> {Answer(201, "")}]
GoneAnswers == [apns |-> apnsGone, fcm |-> {Answer(404, "UNREGISTERED")}, webpush |-> {Answer(404, ""), Answer(410, "")}]
BusyAnswers == [apns |-> apnsBusy, fcm |-> fcmBusy, webpush |-> webpushBusy]
OtherApp == [apns |-> {NotForTopic}, fcm |-> {}, webpush |-> {}]
Family == IF service = "apns_cert" THEN "apns" ELSE service

PushTypeOK == /\ tokenMu \in Senders \cup {NoToken} /\ registered \subseteq Devices
              /\ \A s \in Senders : sender[s].pc \in {"idle", "next", "token", "lock", "exchange", "issued", "post", "arrived", "panicked"}

PushInit == /\ service \in Services /\ cached = NoToken /\ tokenMu = NoToken
            /\ sender = [s \in Senders |-> IdleSender] /\ registered = Devices /\ reached = {}
            /\ lateUse = FALSE /\ issues = << >> /\ sends = 0 /\ pushTime = 0

-----------------------------------------------------------------------------
(* Send, SendMultiple, SendMulticast and SendAll: a single send is a batch of
   one.  An empty batch, and nil alone, are refused before anything happens. *)
SendMultiple(s, targets) ==
    /\ sender[s].pc = "idle" /\ targets # << >> /\ sends + Len(targets) <= MaxSends
    /\ sends' = sends + Len(targets)
    /\ sender' = [sender EXCEPT ![s] = [IdleSender EXCEPT !.pc = "next", !.targets = targets, !.left = targets]]
    /\ UNCHANGED <<service, cached, tokenMu, registered, reached, lateUse, issues, pushTime>>

(* manageTopicSubscription: one request for all the tokens. *)
ManageTopic(s, targets) ==
    /\ service = "fcm" /\ sender[s].pc = "idle" /\ targets # << >> /\ sends + Len(targets) <= MaxSends
    /\ sends' = sends + Len(targets)
    /\ sender' = [sender EXCEPT ![s] = [IdleSender EXCEPT !.pc = "token", !.kind = "topic",
                                                          !.targets = targets, !.left = targets]]
    /\ UNCHANGED <<service, cached, tokenMu, registered, reached, lateUse, issues, pushTime>>

Result(to, answer, error) == [to |-> to, answer |-> answer, error |-> error]

(* The result of the current target is kept and the batch goes on; a topic
   request that fails has no results at all. *)
Ended(s, rs) == sender' = [sender EXCEPT
    ![s].pc = IF sender[s].kind = "topic" THEN "idle" ELSE "next",
    ![s].results = @ \o rs, ![s].token = NoToken, ![s].left = SubSeq(@, Len(rs) + 1, Len(@))]
Failed(s) == IF sender[s].kind = "topic"
             THEN sender' = [sender EXCEPT ![s].pc = "idle", ![s].token = NoToken]
             ELSE Ended(s, <<Result(Head(sender[s].left), NoAnswer, TRUE)>>)

(* The next target: refused here when it is none, but for a nil notification
   in a batch of APNs, where SendMultiple reads the DeviceToken of the one that
   Send has just refused: it panics, and what it has gathered is lost.  Else an authorization is
   asked for, unless a certificate stands for it or (VAPID) one is made for
   the request. *)
VapidToken == IF service = "webpush" THEN [issued |-> pushTime, taken |-> pushTime] ELSE NoToken
NextTarget(s) ==
    /\ sender[s].pc = "next"
    /\ CASE sender[s].left = << >> -> sender' = [sender EXCEPT ![s].pc = "idle"]
         [] sender[s].left # << >> /\ Head(sender[s].left) \in {Blank, Nil} ->
              IF Head(sender[s].left) = Nil /\ Family = "apns"
              THEN sender' = [sender EXCEPT ![s].pc = "panicked"] ELSE Failed(s)
         [] sender[s].left # << >> /\ Head(sender[s].left) \notin {Blank, Nil} ->
              sender' = [sender EXCEPT ![s].pc = IF service \in {"apns", "fcm"} THEN "token" ELSE "post",
                                       ![s].since = pushTime,
                                       ![s].token = VapidToken]
    /\ UNCHANGED <<service, cached, tokenMu, registered, reached, lateUse, issues, sends, pushTime>>

Usable == /\ cached # NoToken
          /\ IF service = "apns" THEN pushTime - cached.taken < RefreshAge
                                 ELSE pushTime < cached.taken + PushLifetime - Margin
Takes(s, token) == sender' = [sender EXCEPT ![s].token = token, ![s].pc = "post", ![s].since = pushTime]

(* getToken and getAccessToken: a look under the read lock, a second one under
   the write lock, and then a new token. *)
ReadToken(s) ==
    /\ sender[s].pc = "token" /\ tokenMu = NoToken
    /\ IF Usable THEN Takes(s, cached) ELSE sender' = [sender EXCEPT ![s].pc = "lock"]
    /\ UNCHANGED <<service, cached, tokenMu, registered, reached, lateUse, issues, sends, pushTime>>
(* Mutant: the second look is left out. *)
LockTokenOnce(s) ==
    /\ sender[s].pc = "lock" /\ tokenMu = NoToken /\ tokenMu' = s
    /\ sender' = [sender EXCEPT ![s].pc = "exchange", ![s].since = pushTime]
    /\ UNCHANGED <<service, cached, registered, reached, lateUse, issues, sends, pushTime>>
LockToken(s) ==
    /\ sender[s].pc = "lock" /\ tokenMu = NoToken
    /\ IF Usable THEN Takes(s, cached) /\ UNCHANGED tokenMu
       ELSE /\ tokenMu' = s
            /\ sender' = [sender EXCEPT ![s].pc = "exchange", ![s].since = pushTime]
    /\ UNCHANGED <<service, cached, registered, reached, lateUse, issues, sends, pushTime>>
KeepToken(s, token) == /\ cached' = token /\ tokenMu' = NoToken /\ issues' = Append(issues, token.taken)
                   /\ Takes(s, token)
GiveUp(s) == /\ tokenMu' = NoToken /\ UNCHANGED <<cached, issues>> /\ Failed(s)

(* generateToken signs on the spot. *)
GenerateToken(s, ok) ==
    /\ sender[s].pc = "exchange" /\ service = "apns"
    /\ IF ok THEN KeepToken(s, [issued |-> pushTime, taken |-> pushTime]) ELSE GiveUp(s)
    /\ UNCHANGED <<service, registered, reached, lateUse, sends, pushTime>>

(* exchangeToken: the token's life begins when the endpoint issues it, and is
   counted from the answer.  The write lock is held all along. *)
TokenIssued(s) ==
    /\ sender[s].pc = "exchange" /\ service = "fcm"
    /\ sender' = [sender EXCEPT ![s].pc = "issued", ![s].token = [issued |-> pushTime, taken |-> pushTime]]
    /\ UNCHANGED <<service, cached, tokenMu, registered, reached, lateUse, issues, sends, pushTime>>
ExchangeToken(s, ok) ==
    /\ service = "fcm" /\ IF ok THEN sender[s].pc = "issued" ELSE sender[s].pc \in {"exchange", "issued"}
    /\ IF ok THEN KeepToken(s, [sender[s].token EXCEPT !.taken = pushTime]) ELSE GiveUp(s)
    /\ UNCHANGED <<service, registered, reached, lateUse, sends, pushTime>>

(* The request reaches the service, or is lost on the way there. *)
PostArrives(s) ==
    /\ sender[s].pc = "post" /\ sender' = [sender EXCEPT ![s].pc = "arrived"]
    /\ lateUse' = (lateUse \/ (service \in {"apns", "fcm"} /\ pushTime >= sender[s].token.issued + PushLifetime))
    /\ UNCHANGED <<service, cached, tokenMu, registered, reached, issues, sends, pushTime>>
Lost(s) ==
    /\ sender[s].pc \in {"post", "arrived"} /\ Failed(s)
    /\ UNCHANGED <<service, cached, tokenMu, registered, reached, lateUse, issues, sends, pushTime>>

(* The service answers: a device it knows is served, unless the service is busy
   or (APNs) the token is that of another app than the client's topic; any other
   is gone.  FCM's answer may be one that cannot be decoded. *)
AnswersFor(d) == OtherApp[Family] \cup BusyAnswers[Family] \cup IF d \in registered THEN GoodAnswers[Family] ELSE GoneAnswers[Family]
PushAnswered(s, a, garbled) ==
    /\ sender[s].pc = "arrived" /\ sender[s].kind = "send" /\ a \in AnswersFor(Head(sender[s].left))
    /\ garbled => service = "fcm" /\ a \in GoodAnswers[Family]
    /\ reached' = IF a \in GoodAnswers[Family] THEN reached \cup {<<s, Head(sender[s].left)>>} ELSE reached
    /\ Ended(s, <<Result(Head(sender[s].left), IF garbled THEN NoAnswer ELSE a,
                         garbled \/ a \notin GoodAnswers[Family])>>)
    /\ UNCHANGED <<service, cached, tokenMu, registered, lateUse, issues, sends, pushTime>>
TopicAnswered(s) ==
    /\ sender[s].pc = "arrived" /\ sender[s].kind = "topic"
    /\ Ended(s, [i \in DOMAIN sender[s].left |->
                    Result(sender[s].left[i], NoAnswer, sender[s].left[i] \notin registered)])
    /\ UNCHANGED <<service, cached, tokenMu, registered, reached, lateUse, issues, sends, pushTime>>

Unregister(d) == /\ d \in registered /\ registered' = registered \ {d}
                 /\ UNCHANGED <<service, cached, tokenMu, sender, reached, lateUse, issues, sends, pushTime>>

(* No request is under way for longer than the client's timeout. *)
UnderWay(s) == sender[s].pc \in {"exchange", "issued", "post", "arrived"}
PushTick == /\ pushTime < MaxPushTime /\ pushTime' = pushTime + 1
            /\ \A s \in Senders : UnderWay(s) => pushTime - sender[s].since < HTTPTimeout
            /\ UNCHANGED <<service, cached, tokenMu, sender, registered, reached, lateUse, issues, sends>>

Batches == UNION {[1 .. n -> Devices \cup {Blank, Nil}] : n \in 1 .. MaxSends}
TokenLists == {b \in Batches : \A i \in DOMAIN b : b[i] # Nil}
PushNext ==
    \/ \E s \in Senders :
          \/ \E b \in Batches : SendMultiple(s, b)
          \/ \E b \in TokenLists : ManageTopic(s, b)
          \/ NextTarget(s) \/ ReadToken(s) \/ LockToken(s) \/ TokenIssued(s)
          \/ \E ok \in BOOLEAN : GenerateToken(s, ok) \/ ExchangeToken(s, ok)
          \/ PostArrives(s) \/ Lost(s) \/ TopicAnswered(s)
          \/ \E a \in GoodAnswers[Family] \cup GoneAnswers[Family] \cup BusyAnswers[Family] \cup OtherApp[Family], g \in BOOLEAN :
                PushAnswered(s, a, g)
    \/ \E d \in Devices : Unregister(d)
    \/ PushTick

PushSpec == PushInit /\ [][PushNext]_pushVars

-----------------------------------------------------------------------------
(* What an application reads off a batch: the targets that are gone for good
   (InvalidTokens, IsUnregistered, ExpiredSubscriptions), those worth another
   try, and the counts. *)
InvalidTokens(rs) == {r.to : r \in {q \in rs : q.answer.reason \in {"BadDeviceToken", "Unregistered", "DeviceTokenNotForTopic"}}}
UnregisteredTokens(rs) == {r.to : r \in {q \in rs : q.error /\ q.answer.reason = "UNREGISTERED"}}
ExpiredSubscriptions(rs) == {r.to : r \in {q \in rs : q.answer.status \in {404, 410}}}
DropList(rs) == CASE Family = "apns" -> InvalidTokens(rs)
                  [] Family = "fcm" -> UnregisteredTokens(rs)
                  [] OTHER -> ExpiredSubscriptions(rs)
apnsIsRetryable(a) == \/ a.reason \in {"TooManyRequests", "InternalServerError", "ServiceUnavailable", "Shutdown"}
                      \/ a.reason = "" /\ a.status >= 500
fcmIsRetryable(a) == a.reason \in {"UNAVAILABLE", "INTERNAL"}
notifyIsRetryable(a) == a.status \in {429, 500, 502, 503, 504}
RetryList(rs) == {r.to : r \in {q \in rs : CASE Family = "apns" -> apnsIsRetryable(q.answer)
                                             [] Family = "fcm" -> fcmIsRetryable(q.answer)
                                             [] OTHER -> notifyIsRetryable(q.answer)}}
ResultSet(s) == {sender[s].results[i] : i \in DOMAIN sender[s].results}
SuccessCount(s) == Cardinality({i \in DOMAIN sender[s].results : ~sender[s].results[i].error})
FailureCount(s) == Len(sender[s].results) - SuccessCount(s)

(* The client gives up on a request early enough for the token's lifetime: so
   with the default timeout of 30 seconds, which a caller may change. *)
Prompt == IF service = "apns" THEN HTTPTimeout <= PushLifetime - RefreshAge ELSE 2 * HTTPTimeout <= Margin

(* However sends overlap, no request of a client that is Prompt reaches the
   service with a token that has expired on the way; and no client, however slow
   its requests, asks for another token while the one it has will do (Apple
   refuses a client that does): the second look under the write lock of getToken
   and getAccessToken. *)
TokensAreShared ==
    /\ Prompt => ~lateUse
    /\ \A i \in 1 .. Len(issues) - 1 :
          issues[i + 1] - issues[i] >= IF service = "apns" THEN RefreshAge ELSE PushLifetime - Margin

(* A batch reports every target once, and as sent only what the service took; a
   target it says to drop is one the service no longer knows, or the token of
   another app, and is not one to try again.  A batch that never reports is one of
   APNs that has come to a nil notification. *)
BatchesAreTrue ==
    /\ \A s \in Senders : sender[s].pc = "idle" =>
        /\ sender[s].results # << >> => SuccessCount(s) + FailureCount(s) = Len(sender[s].targets)
        /\ sender[s].kind = "send" => \A r \in ResultSet(s) : ~r.error => <<s, r.to>> \in reached
        /\ sender[s].kind = "send" /\ sender[s].targets # << >> => sender[s].results # << >>
        /\ \A r \in ResultSet(s) : r.to \in DropList({r}) => r.to \notin registered \/ r.answer = NotForTopic
        /\ \A r \in ResultSet(s) : ~(r.to \in DropList({r}) /\ r.to \in RetryList({r}))
    /\ \A s \in Senders : sender[s].pc = "panicked" =>
        Family = "apns" /\ sender[s].left # << >> /\ Head(sender[s].left) = Nil

(* Push clients use live tokens sparingly and report truly (pantry/apns, fcm, notify). *)
PushSound == TokensAreShared /\ BatchesAreTrue
=============================================================================
