------------------------------ MODULE Auth_proofs ------------------------------
(***************************************************************************)
(* Proofs about Auth: that salt, key, nonce and session fit one another in *)
(* RAM, and survive restarts and failed writes, for any number of          *)
(* browsers, passwords, logins and restarts.                               *)
(***************************************************************************)
EXTENDS Auth, TLAPS

\* A bridge without a password holds no key and no session, not in flash either.
NothingBeforeClaim ==
    ~claimed => /\ key = None /\ flash.key = None
                /\ session = 0 /\ flash.session = 0
                /\ nonce # None => early
                /\ at \notin {"salt", "key", "store"}

\* What flash holds is what RAM does, but for the handler that is writing.
FlashAgrees ==
    /\ claimed => /\ flash.key = key /\ flash.salt # None
                  /\ at \notin {"claim salt", "claim key"}
                  /\ at # "key" /\ "pair" \notin lapses => flash.salt = salt
    /\ at \in {"claim key", "key"} => flash.salt = offer.salt
    /\ at \notin {"erase", "store"} /\ "session" \notin lapses => flash.session = session

\* What the running handler established before its first write.
HandlerKnows ==
    /\ at \in {"claim salt", "claim key", "salt", "key"} => offer \in Keys
    /\ at # "idle" => by \in Browsers
    /\ at \in {"salt", "key"} => nonce = None
    /\ at = "erase" => session = 0
    /\ at = "store" => session # 0 /\ opened[session] = key

\* A nonce that is answered now was handed out with the salt in RAM.
NonceIsForSalt ==
    claimed /\ nonce # None => handed[nonce] = salt \/ early \/ "pair" \in lapses

KeyIsKey == claimed => key \in Keys

Links == /\ KeyFitsSalt /\ SessionDiesWithPassword
         /\ NothingBeforeClaim /\ FlashAgrees /\ HandlerKnows
         /\ NonceIsForSalt /\ KeyIsKey

AuthInv == AuthTypeOK /\ Links

-----------------------------------------------------------------------------

LEMMA Zero == 0 \in Sessions /\ 0 \in 0 .. MaxFailed - 1 /\ 0 \in 0 .. MaxRestarts
<1> QED BY BoundAssumption DEF Sessions

\* The failed attempts stay below the limit that starts the lockout.
LEMMA FailCounts ==
  ASSUME failed \in 0 .. MaxFailed - 1, locked \in BOOLEAN, Fail
  PROVE  failed' \in 0 .. MaxFailed - 1 /\ locked' \in BOOLEAN
<1>1. MaxFailed \in Nat /\ MaxFailed > 0 /\ failed \in Nat
  BY BoundAssumption
<1>2. CASE failed + 1 >= MaxFailed
  BY <1>1, <1>2 DEF Fail
<1>3. CASE ~(failed + 1 >= MaxFailed)
  BY <1>1, <1>3 DEF Fail
<1> QED BY <1>2, <1>3

LEMMA NextLogin ==
  ASSUME logins \in Sessions, logins < MaxLogins
  PROVE  logins + 1 \in 1 .. MaxLogins /\ logins + 1 \in Sessions /\ logins + 1 # 0
<1> QED BY BoundAssumption DEF Sessions

LEMMA AuthInitInv == AuthInit => AuthInv
<1> SUFFICES ASSUME AuthInit
             PROVE  AuthInv
  OBVIOUS
<1>2. AuthTypeOK
  BY Zero DEF AuthInit, AuthTypeOK, Writes
<1> QED
  BY <1>2 DEF AuthInit, AuthInv, Links, KeyFitsSalt, SessionDiesWithPassword, NothingBeforeClaim,
              FlashAgrees, HandlerKnows, NonceIsForSalt, KeyIsKey

LEMMA RequestKeepsTypes ==
  ASSUME AuthTypeOK, NEW b \in Browsers, Request(b)
  PROVE  AuthTypeOK'
<1> USE DEF AuthTypeOK, Writes
<1>1. CASE Challenge(b)
  BY <1>1 DEF Challenge, limits, handler
<1>2. CASE Logout(b)
  BY Zero, <1>2 DEF Logout, password, limits, browsers, history
<1>3. ASSUME NEW w \in Words, Claim(b, w)
      PROVE  AuthTypeOK'
  <2>1. [salt |-> handed[b], word |-> w] \in Keys
    BY <1>3 DEF Claim, Keys
  <2> QED BY <1>3, <2>1 DEF Claim, password, limits, browsers, history
<1>4. Fail => failed' \in 0 .. MaxFailed - 1 /\ locked' \in BOOLEAN
  BY FailCounts
<1>5. ASSUME NEW w \in Words, Login(b, w)
      PROVE  AuthTypeOK'
  <2>1. CASE nonce # b
    BY <1>5, <2>1 DEF Login, Fits, password, browsers
  <2>2. CASE nonce = b /\ ~Fits(b, w)
    BY <1>4, <1>5, <2>2 DEF Login, password, browsers
  <2>3. CASE Fits(b, w)
    <3>1. /\ logins < MaxLogins /\ logins' = logins + 1 /\ session' = logins + 1
          /\ opened' = [opened EXCEPT ![logins + 1] = key]
          /\ nonce' = None /\ failed' = 0 /\ at' = "store" /\ by' = b /\ UNCHANGED locked
          /\ UNCHANGED <<flash, salt, key, claimed, window, offer, handed, cookie, restarts,
                         early, lapses>>
      BY <1>5, <2>3 DEF Login, Fits, password, browsers
    <3>2. logins + 1 \in 1 .. MaxLogins /\ logins + 1 \in Sessions
      BY <3>1, NextLogin
    <3>3. opened' \in [1 .. MaxLogins -> Keys \cup {None}]
      BY <3>1, <3>2
    <3> QED BY Zero, <3>1, <3>2, <3>3
  <2> QED BY <2>1, <2>2, <2>3 DEF Fits
<1>6. ASSUME NEW w \in Words, NEW new \in Keys, ChangePassword(b, w, new)
      PROVE  AuthTypeOK'
  <2>1. CASE ~Fits(b, w)
    BY <1>4, <1>6, <2>1 DEF ChangePassword, password, handler, browsers, history
  <2>2. CASE Fits(b, w)
    BY Zero, <1>6, <2>2 DEF ChangePassword, password, browsers, history
  <2> QED BY <2>1, <2>2
<1> QED BY <1>1, <1>2, <1>3, <1>5, <1>6 DEF Request

LEMMA RequestKeepsLinks ==
  ASSUME AuthTypeOK, Links, NEW b \in Browsers, Request(b)
  PROVE  Links'
<1> USE DEF Links, KeyFitsSalt, SessionDiesWithPassword, NothingBeforeClaim, FlashAgrees,
            HandlerKnows, NonceIsForSalt, KeyIsKey
<1>1. CASE Challenge(b)
  <2>1. /\ at = "idle" /\ (claimed => salt' = salt) /\ nonce' = b /\ early' = ~claimed
        /\ handed' = [handed EXCEPT ![b] = salt']
        /\ UNCHANGED <<flash, key, claimed, session, at, offer, by, opened, lapses>>
    BY <1>1 DEF Challenge, handler
  <2>2. handed'[b] = salt'
    BY <2>1 DEF AuthTypeOK
  <2> QED BY <2>1, <2>2
<1>2. CASE Logout(b)
  BY <1>2 DEF Logout, password, limits, browsers, history
<1>3. ASSUME NEW w \in Words, Claim(b, w)
      PROVE  Links'
  <2>1. [salt |-> handed[b], word |-> w] \in Keys
    BY <1>3 DEF Claim, Keys, AuthTypeOK
  <2> QED BY <1>3, <2>1 DEF Claim, password, limits, browsers, history
<1>4. ASSUME NEW w \in Words, Login(b, w)
      PROVE  Links'
  <2>1. CASE ~Fits(b, w)
    BY <1>4, <2>1 DEF Login, Fits, password, browsers
  <2>2. CASE Fits(b, w)
    <3>1. /\ at = "idle" /\ claimed /\ at' = "store" /\ by' = b /\ nonce' = None
          /\ logins < MaxLogins /\ session' = logins + 1
          /\ opened' = [opened EXCEPT ![logins + 1] = key]
          /\ UNCHANGED <<flash, salt, key, claimed, offer, handed, early, lapses>>
      BY <1>4, <2>2 DEF Login, Fits, password, browsers
    <3>2. logins + 1 \in 1 .. MaxLogins /\ session' # 0
      BY <3>1, NextLogin DEF AuthTypeOK
    <3>3. opened'[session'] = key
      BY <3>1, <3>2 DEF AuthTypeOK
    <3> QED BY <3>1, <3>2, <3>3
  <2> QED BY <2>1, <2>2
<1>5. ASSUME NEW w \in Words, NEW new \in Keys, ChangePassword(b, w, new)
      PROVE  Links'
  <2>1. at = "idle" /\ claimed
    BY <1>5 DEF ChangePassword, Authenticated
  <2> QED BY <1>5, <2>1 DEF ChangePassword, password, handler, browsers, history
<1> QED BY <1>1, <1>2, <1>3, <1>4, <1>5 DEF Request

LEMMA WriteKeepsTypes ==
  ASSUME AuthTypeOK, HandlerKnows, Write
  PROVE  AuthTypeOK'
<1> USE DEF AuthTypeOK, Writes
<1>0. /\ \A k \in Keys : k.salt \in Salts
      /\ at \in {"claim salt", "claim key", "salt", "key"} => offer \in Keys
      /\ at # "idle" => by \in Browsers
  BY DEF Keys, HandlerKnows
<1>1. CASE WriteSalt
  BY <1>0, <1>1 DEF WriteSalt, password, limits, browsers, history
<1>2. CASE ClaimKey
  BY <1>0, <1>2 DEF ClaimKey, Adopt, limits, browsers
<1>3. CASE NewKey
  BY Zero, <1>0, <1>3 DEF NewKey, Adopt, limits, browsers
<1>4. ASSUME Reply(session), at # "idle"
      PROVE  cookie' \in [Browsers -> Sessions]
  BY <1>0, <1>4 DEF Reply
<1>5. CASE Persist
  BY ZenonT(60), <1>4, <1>5 DEF Persist, password, limits
<1>6. CASE WriteFails
  <2>1. cookie' \in [Browsers -> Sessions]
    BY <1>4, <1>6 DEF WriteFails
  <2>2. Missed \subseteq {"pair", "session"}
    BY DEF Missed
  <2> QED BY ZenonT(60), <1>6, <2>1, <2>2 DEF WriteFails, password, limits
<1> QED BY <1>1, <1>2, <1>3, <1>5, <1>6 DEF Write

LEMMA WriteKeepsLinks ==
  ASSUME AuthTypeOK, Links, Write
  PROVE  Links'
<1> USE DEF Links, KeyFitsSalt, SessionDiesWithPassword, NothingBeforeClaim, FlashAgrees,
            HandlerKnows, NonceIsForSalt, KeyIsKey
<1>0. flash \in [salt : Salts \cup {None}, key : Keys \cup {None}, session : Sessions]
  BY DEF AuthTypeOK
<1>1. \A k \in Keys : k.salt \in Salts /\ k.salt # None
  BY NoneAssumption DEF Keys
<1>2. CASE WriteSalt
  BY <1>0, <1>1, <1>2 DEF WriteSalt, password, limits, browsers, history
<1>3. CASE ClaimKey
  BY <1>0, <1>1, <1>3 DEF ClaimKey, Adopt, limits, browsers
<1>4. CASE NewKey
  BY <1>0, <1>1, <1>4 DEF NewKey, Adopt, limits, browsers
<1>5. CASE Persist
  BY <1>0, <1>5 DEF Persist, password, limits
<1>6. CASE WriteFails
  BY <1>6 DEF WriteFails, Missed, password, limits
<1> QED BY <1>2, <1>3, <1>4, <1>5, <1>6 DEF Write

LEMMA TimeKeepsTypes ==
  ASSUME AuthTypeOK, Time
  PROVE  AuthTypeOK'
<1> USE DEF AuthTypeOK
<1>1. CASE NonceExpires
  BY <1>1 DEF NonceExpires, password, limits, handler, browsers, history
<1>2. CASE SessionExpires
  BY <1>2, Zero DEF SessionExpires, password, limits, handler, browsers
<1>3. CASE LockoutEnds
  BY ZenonT(60), <1>3 DEF LockoutEnds, password, handler, browsers, history
<1>4. CASE WindowCloses
  BY ZenonT(60), <1>4 DEF WindowCloses, password, handler, browsers, history
<1> QED BY <1>1, <1>2, <1>3, <1>4 DEF Time

LEMMA TimeKeepsLinks ==
  ASSUME Links, Time
  PROVE  Links'
<1> USE DEF Links, KeyFitsSalt, SessionDiesWithPassword, NothingBeforeClaim, FlashAgrees,
            HandlerKnows, NonceIsForSalt, KeyIsKey
<1>1. CASE NonceExpires
  BY <1>1 DEF NonceExpires, password, handler, browsers, history
<1>2. CASE SessionExpires
  BY <1>2 DEF SessionExpires, password, handler, browsers
<1>3. CASE LockoutEnds
  BY <1>3 DEF LockoutEnds, password, handler, browsers, history
<1>4. CASE WindowCloses
  BY <1>4 DEF WindowCloses, password, handler, browsers, history
<1> QED BY <1>1, <1>2, <1>3, <1>4 DEF Time

LEMMA RestartKeepsInv ==
  ASSUME AuthInv, Restart
  PROVE  AuthInv'
<1>1. /\ salt' = flash.salt
      /\ key' = (IF flash.salt = None THEN None ELSE flash.key)
      /\ claimed' = (flash.salt # None /\ flash.key # None)
      /\ session' = flash.session /\ nonce' = None
      /\ failed' = 0 /\ locked' = FALSE /\ window' = TRUE
      /\ at' = "idle" /\ offer' = None /\ by' = None
      /\ lapses' = lapses \cup Missed
      /\ restarts < MaxRestarts /\ restarts' = restarts + 1
      /\ UNCHANGED <<flash, handed, cookie, logins, opened, early>>
  BY DEF Restart, browsers
<1>2. AuthTypeOK'
  <2>1. Missed \subseteq {"pair", "session"}
    BY DEF Missed
  <2>2. restarts' \in 0 .. MaxRestarts /\ failed' \in 0 .. MaxFailed - 1
    BY <1>1, BoundAssumption DEF AuthInv, AuthTypeOK
  <2> QED BY <1>1, <2>1, <2>2 DEF AuthInv, AuthTypeOK, Writes
<1>3. claimed => key # None
  BY NoneAssumption DEF AuthInv, Links, KeyIsKey, Keys
<1>4. (claimed' <=> claimed) /\ key' = key
  BY <1>1, <1>3 DEF AuthInv, AuthTypeOK, Links, NothingBeforeClaim, FlashAgrees
<1>5. /\ at \in {"erase", "store"} => "session" \in lapses'
      /\ at \in {"claim key", "key"} => "pair" \in lapses'
      /\ lapses \subseteq lapses'
  BY <1>1 DEF Missed
<1>5a. /\ salt' = flash.salt /\ session' = flash.session /\ nonce' = None /\ at' = "idle"
       /\ UNCHANGED <<flash, handed, opened, early>>
  BY <1>1
<1>6. flash.session = session \/ "session" \in lapses'
  BY <1>5 DEF AuthInv, Links, FlashAgrees
<1>7. claimed => flash.salt = salt \/ "pair" \in lapses'
  BY <1>5 DEF AuthInv, Links, FlashAgrees
<1>8. KeyFitsSalt' /\ SessionDiesWithPassword'
  BY <1>4, <1>5, <1>5a, <1>6, <1>7 DEF AuthInv, Links, KeyFitsSalt, SessionDiesWithPassword
<1>9. NothingBeforeClaim' /\ FlashAgrees'
  BY <1>4, <1>5, <1>5a, <1>6, <1>7 DEF AuthInv, Links, NothingBeforeClaim, FlashAgrees
<1>10. HandlerKnows' /\ NonceIsForSalt' /\ KeyIsKey'
  BY <1>4, <1>5a DEF AuthInv, Links, HandlerKnows, NonceIsForSalt, KeyIsKey
<1> QED BY <1>2, <1>8, <1>9, <1>10 DEF AuthInv, Links

LEMMA AuthStepInv == AuthInv /\ [AuthNext]_vars => AuthInv'
<1> SUFFICES ASSUME AuthInv, [AuthNext]_vars
             PROVE  AuthInv'
  OBVIOUS
<1>1. CASE AuthNext
  BY <1>1, RequestKeepsTypes, RequestKeepsLinks, WriteKeepsTypes, WriteKeepsLinks,
     TimeKeepsTypes, TimeKeepsLinks, RestartKeepsInv DEF AuthNext, AuthInv, Links
<1>2. CASE UNCHANGED vars
  <2> USE <1>2 DEF vars, password, limits, handler, browsers, history
  <2>1. AuthTypeOK'
    BY DEF AuthInv, AuthTypeOK
  <2>2. Links'
    BY DEF AuthInv, Links, KeyFitsSalt, SessionDiesWithPassword, NothingBeforeClaim,
           FlashAgrees, HandlerKnows, NonceIsForSalt, KeyIsKey
  <2> QED BY <2>1, <2>2 DEF AuthInv
<1> QED BY <1>1, <1>2

LEMMA AuthAlwaysInv == AuthSpec => []AuthInv
<1> QED BY AuthInitInv, AuthStepInv, PTL DEF AuthSpec

-----------------------------------------------------------------------------

\* The types, with the failed attempts below their limit.
THEOREM AuthTypeCorrect == AuthSpec => []AuthTypeOK
<1>1. AuthInv => AuthTypeOK
  BY DEF AuthInv, Links
<1> QED BY <1>1, AuthAlwaysInv, PTL

\* auth.h:13: salt and key in RAM belong together, whichever write failed or was
\* cut off, unless that was the write of the key and the bridge restarted since.
THEOREM KeyFitsSaltCorrect == AuthSpec => []KeyFitsSalt
<1>1. AuthInv => KeyFitsSalt
  BY DEF AuthInv, Links
<1> QED BY <1>1, AuthAlwaysInv, PTL

\* auth.c:201: the browser that holds the nonce can answer it with the password.
THEOREM RightWordFitsCorrect == AuthSpec => []RightWordFits
<1>1. AuthInv => RightWordFits
  <2> SUFFICES ASSUME AuthInv, claimed, nonce # None, ~early, "pair" \notin lapses
               PROVE  Fits(nonce, key.word)
    BY DEF RightWordFits
  <2>1. key \in Keys /\ key.salt = salt /\ handed[nonce] = salt
    BY DEF AuthInv, Links, KeyIsKey, KeyFitsSalt, NonceIsForSalt
  <2> QED BY <2>1 DEF Fits, Keys
<1> QED BY <1>1, AuthAlwaysInv, PTL

\* auth.c:494: no session outlives its password.
THEOREM SessionDiesCorrect == AuthSpec => []SessionDiesWithPassword
<1>1. AuthInv => SessionDiesWithPassword
  BY DEF AuthInv, Links
<1> QED BY <1>1, AuthAlwaysInv, PTL

\* A password, once there, stays: no restart finds the bridge unclaimed.
THEOREM ClaimedForGoodCorrect == AuthSpec => ClaimedForGood
<1>1. AuthInv /\ [AuthNext]_vars => [claimed => claimed']_vars
  <2> SUFFICES ASSUME AuthInv, AuthNext, claimed
               PROVE  claimed'
    BY DEF vars, password
  <2>1. CASE Restart
    <3>1. flash.salt # None /\ flash.key = key /\ key # None
      BY NoneAssumption DEF AuthInv, Links, FlashAgrees, KeyIsKey, Keys
    <3> QED BY <2>1, <3>1 DEF Restart
  <2>2. CASE Time
    BY <2>2 DEF Time, NonceExpires, SessionExpires, LockoutEnds, WindowCloses, password
  <2>3. CASE Write
    BY <2>3 DEF Write, WriteSalt, ClaimKey, NewKey, Adopt, Persist, WriteFails, password
  <2>4. ASSUME NEW b \in Browsers, Request(b)
        PROVE  claimed'
    BY <2>4 DEF Request, Challenge, Logout, Claim, Login, ChangePassword, password
  <2> QED BY <2>1, <2>2, <2>3, <2>4 DEF AuthNext
<1> QED BY <1>1, AuthAlwaysInv, PTL DEF AuthSpec, ClaimedForGood

\* auth.c:49: a restart between two requests leaves the login as it was.
THEOREM RestartKeepsLoginCorrect == AuthSpec => RestartKeepsLogin
<1>1. AuthInv /\ [AuthNext]_vars =>
        [restarts' # restarts /\ at = "idle" => session' = session \/ "session" \in lapses]_vars
  <2> SUFFICES ASSUME AuthInv, AuthNext, restarts' # restarts, at = "idle"
               PROVE  session' = session \/ "session" \in lapses
    BY DEF vars, history
  <2>1. CASE Restart
    BY <2>1 DEF Restart, AuthInv, Links, FlashAgrees
  <2>2. CASE Time
    BY <2>2 DEF Time, NonceExpires, SessionExpires, LockoutEnds, WindowCloses, history
  <2>3. CASE Write
    BY <2>3 DEF Write, WriteSalt, ClaimKey, NewKey, Adopt, Persist, WriteFails, history
  <2>4. ASSUME NEW b \in Browsers, Request(b)
        PROVE  FALSE
    BY <2>4 DEF Request, Challenge, Logout, Claim, Login, ChangePassword, history
  <2> QED BY <2>1, <2>2, <2>3, <2>4 DEF AuthNext
<1> QED BY <1>1, AuthAlwaysInv, PTL DEF AuthSpec, RestartKeepsLogin
===============================================================================
