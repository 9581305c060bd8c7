----------------------------- MODULE KeyRegistry -----------------------------
(***************************************************************************)
(* What the access keys promise: an abstract specification of AccessKeys.  *)
(* A request is admitted as the account of its token's key, once it was     *)
(* found and before the expiry it had then is over, and refused only when   *)
(* there was no such key or that expiry is over; whatever happens to a key  *)
(* is one step of a request admitted as its account, or of a server that    *)
(* starts.                                                                  *)
(***************************************************************************)
EXTENDS Integers

CONSTANTS Account, Key, Name, Request, Root, NoName, Gone, Nobody, Refused

\* session is the creator of a session key, NoName for any other key.
Row == [account : Account, token : Name, friendly : Name,
        expires : Int, session : Name \cup {NoName}]

VARIABLES
    now,      \* the clock
    keys,     \* the keys there are
    fresh,    \* keys there never were
    token,    \* the token a request shows
    found,    \* the key a request was found to hold, before it is admitted
    session   \* whom the request was admitted as

vars == <<now, keys, fresh, token, found, session>>

Live == {k \in Key : keys[k] # Gone}

Init ==
    /\ now \in Int
    /\ keys \in [Key -> Row \cup {Gone}]
    /\ fresh = Key \ Live
    /\ token \in [Request -> Name]
    /\ found = [r \in Request |-> Gone]
    /\ session = [r \in Request |-> Nobody]

Present(r) ==
    /\ session[r] = Nobody
    /\ \E k \in Live :
         /\ keys[k].token = token[r]
         /\ found' = [found EXCEPT ![r] = keys[k]]
    /\ UNCHANGED <<now, keys, fresh, token, session>>

Decide(r, who) ==
    /\ session[r] = Nobody
    /\ session' = [session EXCEPT ![r] = who]
    /\ found' = [found EXCEPT ![r] = Gone]
    /\ UNCHANGED <<now, keys, fresh, token>>

Admit(r) == found[r] # Gone /\ found[r].expires >= now /\ Decide(r, found[r].account)

Refuse(r) ==
    /\ IF found[r] = Gone THEN \A k \in Live : keys[k].token # token[r] ELSE found[r].expires < now
    /\ Decide(r, Refused)

\* The request goes away before it is admitted.
Leave(r) == Decide(r, Nobody)

\* A new key of an account, under a token no key has.
Add(account) ==
    /\ \E k \in fresh :
         /\ keys'[k] \in Row
         /\ keys'[k].account = account
         /\ \A j \in Live : keys[j].token # keys'[k].token
         /\ keys' = [keys EXCEPT ![k] = keys'[k]]
         /\ fresh' = fresh \ {k}
    /\ UNCHANGED <<now, token, found, session>>

Issue(r) == session[r] \in Account /\ Add(session[r])
Plant(r) == session[r] = Nobody /\ Add(Root)

\* An own key gets another name or another expiry.
Amend(r) ==
    /\ \E k \in Live :
         /\ keys[k].account = session[r]
         /\ keys'[k] \in Row
         /\ keys' = [keys EXCEPT ![k] = [@ EXCEPT !.friendly = keys'[k].friendly,
                                                  !.expires = keys'[k].expires]]
    /\ UNCHANGED <<now, fresh, token, found, session>>

\* Own keys that have a name in common go, for good.
Revoke(r) ==
    /\ \E n \in Name : \A k \in Live : keys'[k] # keys[k] =>
         /\ keys[k].account = session[r]
         /\ n \in {keys[k].token, keys[k].friendly, keys[k].session}
    /\ keys' = [k \in Key |-> IF keys'[k] = keys[k] THEN keys[k] ELSE Gone]
    /\ UNCHANGED <<now, fresh, token, found, session>>

Tick == now' = now + 1 /\ UNCHANGED <<keys, fresh, token, found, session>>

Next ==
    \/ \E r \in Request :
         \/ Present(r) \/ Admit(r) \/ Refuse(r) \/ Leave(r)
         \/ Issue(r) \/ Plant(r) \/ Amend(r) \/ Revoke(r)
    \/ Tick

Spec == Init /\ [][Next]_vars
===============================================================================
