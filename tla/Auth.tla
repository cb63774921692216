--------------------------------- MODULE Auth ---------------------------------
(***************************************************************************)
(* main/auth.c: the password a bridge is claimed with, the challenge a     *)
(* login answers, the one session, and what of all that NVS holds when the *)
(* power goes or a write fails between two writes.                         *)
(*                                                                         *)
(* The HTTP server runs one handler at a time.  A request is one action up *)
(* to its first write to flash, and each write one more, so that the       *)
(* bridge can restart between any two.  A key is the pair it is derived    *)
(* from.  A nonce is named by the browser it was handed to, and a session  *)
(* by the number of its login.  An expired nonce or session is one that is *)
(* not valid, which is all the handlers make of its age.  External: the    *)
(* browsers, which may repeat or lose a request and its reply.             *)
(*                                                                         *)
(* Left out: requests nobody could read, which change nothing, and a       *)
(* request larger than its buffer.                                         *)
(***************************************************************************)
EXTENDS Naturals, FiniteSets

CONSTANTS
    Browsers,     \* who talks to the bridge
    Words,        \* passwords
    Salts,        \* what esp_fill_random makes a salt of
    None,         \* nothing stored, nothing handed out
    MaxFailed,    \* MAX_FAILED_ATTEMPTS
    MaxLogins,    \* how many sessions are opened
    MaxRestarts   \* how often the bridge restarts

ASSUME NoneAssumption == /\ None \notin Browsers \cup Salts
                         /\ None \notin [salt : Salts, word : Words]

ASSUME BoundAssumption == /\ MaxFailed \in Nat \ {0}
                          /\ MaxLogins \in Nat /\ MaxRestarts \in Nat

VARIABLES
    flash,     \* NVS: pw_salt, pw_key and session
    salt,      \* s_salt
    key,       \* s_key
    claimed,   \* s_claimed
    nonce,     \* who holds s_nonce, None when it is not valid
    session,   \* s_session, 0 when it is not valid
    failed,    \* s_failed
    locked,    \* s_lockout_until_us is ahead
    window,    \* claim_window_open
    at,        \* the write the running handler comes to next
    offer,     \* the key it is about to store
    by,        \* the browser it answers
    handed,    \* per browser: the salt of its last challenge
    cookie,    \* per browser: the session its cookie names
    logins,    \* how many sessions were opened
    restarts,  \* how often the bridge restarted
    opened,    \* history: per session, the key it was opened under
    early,     \* history: the nonce was handed out before the bridge was claimed
    lapses     \* history: "pair" when flash holds salt and key of two passwords,
               \* "session" when it missed how a session began or ended

password == <<salt, key, claimed>>
limits   == <<failed, locked, window>>
handler  == <<at, offer, by>>
browsers == <<handed, cookie>>
history  == <<logins, restarts, opened, early, lapses>>
vars == <<flash, password, nonce, session, limits, handler, browsers, history>>

Keys     == [salt : Salts, word : Words]
Sessions == 0 .. MaxLogins
Writes   == {"idle", "claim salt", "claim key", "salt", "key", "erase", "store"}

AuthTypeOK ==
    /\ flash \in [salt : Salts \cup {None}, key : Keys \cup {None}, session : Sessions]
    /\ salt \in Salts \cup {None} /\ key \in Keys \cup {None} /\ claimed \in BOOLEAN
    /\ nonce \in Browsers \cup {None} /\ session \in Sessions
    /\ failed \in 0 .. MaxFailed - 1 /\ locked \in BOOLEAN /\ window \in BOOLEAN
    /\ at \in Writes /\ offer \in Keys \cup {None} /\ by \in Browsers \cup {None}
    /\ handed \in [Browsers -> Salts \cup {None}] /\ cookie \in [Browsers -> Sessions]
    /\ logins \in Sessions /\ restarts \in 0 .. MaxRestarts
    /\ opened \in [1 .. MaxLogins -> Keys \cup {None}]
    /\ early \in BOOLEAN /\ lapses \subseteq {"pair", "session"}

AuthInit ==
    /\ flash = [salt |-> None, key |-> None, session |-> 0]
    /\ salt = None /\ key = None /\ claimed = FALSE
    /\ nonce = None /\ session = 0
    /\ failed = 0 /\ locked = FALSE /\ window = TRUE
    /\ at = "idle" /\ offer = None /\ by = None
    /\ handed = [b \in Browsers |-> None] /\ cookie = [b \in Browsers |-> 0]
    /\ logins = 0 /\ restarts = 0
    /\ opened = [n \in 1 .. MaxLogins |-> None]
    /\ early = FALSE /\ lapses = {}

-----------------------------------------------------------------------------
(* Requests, each up to its first write *)

ChallengeAlwaysFresh(b) ==  \* mutant: a new salt for a bridge that has a password, too
    /\ at = "idle"
    /\ \E s \in Salts \ {salt, flash.salt} : salt' = s
    /\ nonce' = b
    /\ early' = ~claimed
    /\ handed' = [handed EXCEPT ![b] = salt']
    /\ UNCHANGED <<flash, key, claimed, session, limits, handler, cookie, logins, restarts,
                   opened, lapses>>

\* challenge_get.  Random salts never repeat.
Challenge(b) ==
    /\ at = "idle"
    /\ IF claimed THEN UNCHANGED salt ELSE \E s \in Salts \ {salt, flash.salt} : salt' = s
    /\ nonce' = b
    /\ early' = ~claimed
    /\ handed' = [handed EXCEPT ![b] = salt']
    /\ UNCHANGED <<flash, key, claimed, session, limits, handler, cookie, logins, restarts,
                   opened, lapses>>

\* claim_post, with any salt the bridge handed out to b.
Claim(b, w) ==
    /\ at = "idle" /\ ~claimed /\ window
    /\ handed[b] # None
    /\ at' = "claim salt" /\ by' = b
    /\ offer' = [salt |-> handed[b], word |-> w]
    /\ UNCHANGED <<flash, password, nonce, session, limits, browsers, history>>

\* What b answers fits the challenge and the password.
Fits(b, w) == nonce = b /\ key = [salt |-> handed[b], word |-> w]

FailOneMore ==  \* mutant: one more attempt than there are
    IF failed >= MaxFailed THEN failed' = 0 /\ locked' = TRUE
                           ELSE failed' = failed + 1 /\ UNCHANGED locked

\* One more wrong answer.
Fail == IF failed + 1 >= MaxFailed THEN failed' = 0 /\ locked' = TRUE
                                   ELSE failed' = failed + 1 /\ UNCHANGED locked

\* login_post.  A nonce is spent by whoever names one; one that is not the last
\* handed out is no failed attempt.
Login(b, w) ==
    /\ at = "idle" /\ ~locked /\ claimed
    /\ nonce # None /\ handed[b] # None
    /\ nonce' = None
    /\ \/ /\ nonce # b
          /\ UNCHANGED <<session, failed, locked, at, by, logins, opened>>
       \/ /\ nonce = b /\ ~Fits(b, w)
          /\ Fail
          /\ UNCHANGED <<session, at, by, logins, opened>>
       \/ /\ Fits(b, w) /\ logins < MaxLogins
          /\ failed' = 0
          /\ logins' = logins + 1 /\ session' = logins + 1
          /\ opened' = [opened EXCEPT ![logins + 1] = key]
          /\ at' = "store" /\ by' = b
          /\ UNCHANGED locked
    /\ UNCHANGED <<flash, password, window, offer, browsers, restarts, early, lapses>>

\* auth_request_is_authenticated
Authenticated(b) == session # 0 /\ cookie[b] = session

\* password_post: the old password is proved as in login, and a nonce of
\* somebody else counts as a failed attempt here.
ChangePassword(b, w, new) ==
    /\ at = "idle" /\ ~locked
    /\ Authenticated(b) /\ nonce # None /\ handed[b] # None
    /\ nonce' = None
    /\ \/ ~Fits(b, w) /\ Fail /\ UNCHANGED handler
       \/ /\ Fits(b, w)
          /\ failed' = 0 /\ UNCHANGED locked
          /\ new.salt \notin {salt, flash.salt}
          /\ at' = "salt" /\ offer' = new /\ by' = b
    /\ UNCHANGED <<flash, password, session, window, browsers, history>>

\* logout_post asks for no cookie.
Logout(b) ==
    /\ at = "idle"
    /\ session' = 0
    /\ at' = "erase" /\ by' = b
    /\ UNCHANGED <<flash, password, nonce, limits, offer, browsers, history>>

-----------------------------------------------------------------------------
(* The writes *)

WriteSaltFirstErasing ==  \* mutant: the old pair is erased before the new one is written
    /\ \/ at = "claim salt" /\ at' = "claim key"
       \/ at = "salt" /\ at' = "key"
    /\ flash' = [flash EXCEPT !.salt = offer.salt, !.key = None]
    /\ UNCHANGED <<password, nonce, session, limits, offer, by, browsers, history>>

\* nvs_set_blob of the salt, by claim_post or password_post.
WriteSalt ==
    /\ \/ at = "claim salt" /\ at' = "claim key"
       \/ at = "salt" /\ at' = "key"
    /\ flash' = [flash EXCEPT !.salt = offer.salt]
    /\ UNCHANGED <<password, nonce, session, limits, offer, by, browsers, history>>

AdoptKeyOnly == /\ flash' = [flash EXCEPT !.key = offer]  \* mutant: s_salt is left alone
                /\ key' = offer /\ claimed' = TRUE /\ UNCHANGED salt
                /\ lapses' = lapses \ {"pair"}

\* nvs_set_blob of the key; then the new pair takes effect.
Adopt == /\ flash' = [flash EXCEPT !.key = offer]
         /\ salt' = offer.salt /\ key' = offer /\ claimed' = TRUE
         /\ lapses' = lapses \ {"pair"}

ClaimKey ==
    /\ at = "claim key"
    /\ Adopt
    /\ at' = "idle"
    /\ UNCHANGED <<nonce, session, limits, offer, by, browsers, logins, restarts, opened, early>>

NewKeyKeepsSession ==  \* mutant: the session is not ended
    /\ at = "key"
    /\ Adopt
    /\ at' = "erase"
    /\ UNCHANGED <<nonce, session, limits, offer, by, browsers, logins, restarts, opened, early>>

NewKey ==
    /\ at = "key"
    /\ Adopt
    /\ session' = 0
    /\ at' = "erase"
    /\ UNCHANGED <<nonce, limits, offer, by, browsers, logins, restarts, opened, early>>

\* The reply that sets or clears the cookie may get lost.
Reply(n) == cookie' \in {cookie, [cookie EXCEPT ![by] = n]}

\* persist_session
Persist ==
    /\ at \in {"erase", "store"}
    /\ at' = "idle"
    /\ flash' = [flash EXCEPT !.session = session]
    /\ lapses' = lapses \ {"session"}
    /\ Reply(session)
    /\ UNCHANGED <<password, nonce, session, limits, offer, by, handed, logins, restarts,
                   opened, early>>

\* A handler that ends here, in the middle of its writes, leaves this behind.
Missed == CASE at \in {"claim key", "key"} -> {"pair"}
            [] at \in {"erase", "store"}   -> {"session"}
            [] OTHER                       -> {}

\* NVS refuses a write.  The pair in RAM stays what it was; persist_session
\* returns and nobody is told.
WriteFails ==
    /\ at # "idle"
    /\ at' = "idle"
    /\ lapses' = lapses \cup Missed
    /\ IF at \in {"erase", "store"} THEN Reply(session) ELSE UNCHANGED cookie
    /\ UNCHANGED <<flash, password, nonce, session, limits, offer, by, handed, logins,
                   restarts, opened, early>>

-----------------------------------------------------------------------------
(* Time *)

NonceExpires ==
    /\ nonce # None
    /\ nonce' = None
    /\ UNCHANGED <<flash, password, session, limits, handler, browsers, history>>

\* Noticed by auth_request_is_authenticated, in RAM only.
SessionExpires ==
    /\ at = "idle" /\ session # 0
    /\ session' = 0
    /\ lapses' = lapses \cup {"session"}
    /\ UNCHANGED <<flash, password, nonce, limits, handler, browsers, logins, restarts,
                   opened, early>>

LockoutEnds ==
    /\ locked
    /\ locked' = FALSE
    /\ UNCHANGED <<flash, password, nonce, session, failed, window, handler, browsers, history>>

WindowCloses ==
    /\ window
    /\ window' = FALSE
    /\ UNCHANGED <<flash, password, nonce, session, failed, locked, handler, browsers, history>>

RestartForgetsSession ==  \* mutant: the session in NVS is not read
    /\ restarts < MaxRestarts
    /\ restarts' = restarts + 1
    /\ salt' = flash.salt
    /\ key' = IF flash.salt = None THEN None ELSE flash.key
    /\ claimed' = (flash.salt # None /\ flash.key # None)
    /\ session' = 0
    /\ nonce' = None
    /\ failed' = 0 /\ locked' = FALSE /\ window' = TRUE
    /\ at' = "idle" /\ offer' = None /\ by' = None
    /\ lapses' = lapses \cup Missed
    /\ UNCHANGED <<flash, browsers, logins, opened, early>>

\* The bridge restarts, whatever the handler is doing, and auth_init reads NVS.
Restart ==
    /\ restarts < MaxRestarts
    /\ restarts' = restarts + 1
    /\ salt' = flash.salt
    /\ key' = IF flash.salt = None THEN None ELSE flash.key
    /\ claimed' = (flash.salt # None /\ flash.key # None)
    /\ session' = flash.session
    /\ nonce' = None
    /\ failed' = 0 /\ locked' = FALSE /\ window' = TRUE
    /\ at' = "idle" /\ offer' = None /\ by' = None
    /\ lapses' = lapses \cup Missed
    /\ UNCHANGED <<flash, browsers, logins, opened, early>>

-----------------------------------------------------------------------------

Request(b) == \/ Challenge(b) \/ Logout(b)
              \/ \E w \in Words : \/ Claim(b, w) \/ Login(b, w)
                                  \/ \E new \in Keys : ChangePassword(b, w, new)

Write == WriteSalt \/ ClaimKey \/ NewKey \/ Persist \/ WriteFails

Time == NonceExpires \/ SessionExpires \/ LockoutEnds \/ WindowCloses

AuthNext == (\E b \in Browsers : Request(b)) \/ Write \/ Time \/ Restart

AuthSpec == AuthInit /\ [][AuthNext]_vars

-----------------------------------------------------------------------------
(* Properties *)

\* auth.h:13: s_key is SHA-256(s_salt || password), so that the salt handed out
\* lets somebody in, unless a handler broke off between the two writes.
KeyFitsSalt == claimed => key.salt = salt \/ "pair" \in lapses

\* auth.c:201: whoever holds the valid nonce was handed the salt of the key, so
\* that the right password is let in, whatever other browsers did since.
RightWordFits == claimed /\ nonce # None => Fits(nonce, key.word) \/ early \/ "pair" \in lapses

\* auth.c:494: no session outlives the password it was opened under, unless its
\* end was not written down.
SessionDiesWithPassword == session # 0 => opened[session] = key \/ "session" \in lapses

\* A bridge that has a password keeps one, through restarts and failed writes.
ClaimedForGood == [][claimed => claimed']_vars

\* auth.c:49: a restart between two requests takes no login away and brings none
\* back, unless NVS missed how the last one began or ended.
RestartKeepsLogin ==
    [][restarts' # restarts /\ at = "idle" => session' = session \/ "session" \in lapses]_vars
===============================================================================
