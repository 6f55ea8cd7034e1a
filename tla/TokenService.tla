---------------------------- MODULE TokenService ----------------------------
(* pantry/auth/jwt/refresh.go: refresh-token rotation over a store.  A refresh
   is three store calls (Load, Delete, Save), between which other refreshes of
   the same token and revocations run.  One subject; failing calls. *)
EXTENDS Integers, FiniteSets, GoMap

CONSTANTS Callers,
          MaxTokens,    \* bound: tokens generated
          MaxStoreFaults,
          Lifetime      \* ticks a refresh token lives

ASSUME TokenAssumption == {MaxTokens, MaxStoreFaults, Lifetime} \subseteq Nat

VARIABLES tokens,       \* the store: token -> [exp, raced]
          known,        \* every token a client was given
          made,         \* tokens generated so far
          call,         \* the refreshes under way
          hours, storeFaults,
          uses,         \* token -> pairs created from it
          overlapped,   \* tokens that were presented twice at once, or whose Delete failed
          loggedIn      \* a login succeeded since the last RevokeAllTokens

tokenVars == <<tokens, known, made, call, hours, storeFaults, uses, overlapped, loggedIn>>

AllTokens == 1 .. MaxTokens
NoCall == [pc |-> "idle", tok |-> 0, raced |-> FALSE]

TokenTypeOK == /\ DOMAIN tokens \subseteq AllTokens /\ known \subseteq AllTokens
               /\ \A c \in Callers : call[c].pc \in {"idle", "load", "delete", "save"}

TokenInit == /\ tokens = << >> /\ known = {} /\ made = 0 /\ call = [c \in Callers |-> NoCall]
             /\ hours = 0 /\ storeFaults = 0 /\ uses = [t \in AllTokens |-> 0]
             /\ overlapped = {} /\ loggedIn = FALSE

-----------------------------------------------------------------------------
StoreCall(ok) == IF ok THEN UNCHANGED storeFaults
                 ELSE storeFaults < MaxStoreFaults /\ storeFaults' = storeFaults + 1
Forget(ts) == Drop(tokens, ts)
Presenting(t) == {c \in Callers : call[c].pc # "idle" /\ call[c].tok = t}

(* CreateTokenPair: sign, generate, Save; the pair is handed out if Save worked. *)
CreateTokenPair(raced, ok) ==
    /\ made < MaxTokens /\ made' = made + 1 /\ StoreCall(ok)
    /\ tokens' = IF ok THEN Put(tokens, made', [exp |-> hours + Lifetime, raced |-> raced]) ELSE tokens
    /\ known' = IF ok THEN known \cup {made'} ELSE known

Login(ok) == /\ CreateTokenPair(FALSE, ok) /\ loggedIn' = (loggedIn \/ ok)
             /\ UNCHANGED <<call, hours, uses, overlapped>>

(* A client presents a token it was given, perhaps one already used. *)
Present(c, t) ==
    /\ call[c].pc = "idle" /\ t \in known
    /\ call' = [call EXCEPT ![c] = [pc |-> "load", tok |-> t, raced |-> FALSE]]
    /\ overlapped' = IF Presenting(t) # {} THEN overlapped \cup {t} ELSE overlapped
    /\ UNCHANGED <<tokens, known, made, hours, storeFaults, uses, loggedIn>>

(* RefreshTokens: Load; an expired token is deleted and refused. *)
RefreshLoad(c, ok) ==
    /\ call[c].pc = "load" /\ StoreCall(ok)
    /\ LET t == call[c].tok
           found == ok /\ t \in DOMAIN tokens
           expired == found /\ hours > tokens[t].exp
       IN  /\ tokens' = IF expired THEN Forget({t}) ELSE tokens
           /\ call' = [call EXCEPT ![c] =
                 IF found /\ ~expired THEN [pc |-> "delete", tok |-> t, raced |-> tokens[t].raced] ELSE NoCall]
    /\ UNCHANGED <<known, made, hours, uses, overlapped, loggedIn>>

(* Mutant: the old token is not deleted. *)
RefreshKeeps(c, ok) ==
    /\ call[c].pc = "delete" /\ StoreCall(ok)
    /\ call' = [call EXCEPT ![c].pc = "save"]
    /\ UNCHANGED <<tokens, known, made, hours, uses, loggedIn, overlapped>>
(* Rotation: Delete, whose error is ignored ... *)
RefreshDelete(c, ok) ==
    /\ call[c].pc = "delete" /\ StoreCall(ok)
    /\ tokens' = IF ok THEN Forget({call[c].tok}) ELSE tokens
    /\ overlapped' = IF ok THEN overlapped ELSE overlapped \cup {call[c].tok}
    /\ call' = [call EXCEPT ![c].pc = "save"]
    /\ UNCHANGED <<known, made, hours, uses, loggedIn>>

(* ... and a new pair for the data that was loaded. *)
RefreshSave(c, ok) ==
    /\ call[c].pc = "save" /\ CreateTokenPair(call[c].raced, ok)
    /\ uses' = IF ok THEN [uses EXCEPT ![call[c].tok] = @ + 1] ELSE uses
    /\ call' = [call EXCEPT ![c] = NoCall]
    /\ UNCHANGED <<hours, overlapped, loggedIn>>

(* RevokeRefreshToken *)
Revoke(t) == /\ t \in known /\ tokens' = Forget({t})
             /\ UNCHANGED <<known, made, call, hours, storeFaults, uses, overlapped, loggedIn>>

(* RevokeAllTokens: DeleteBySubject.  A refresh that has loaded its token goes on. *)
RevokeAllTokens ==
    /\ tokens' = << >>
    /\ call' = [c \in Callers |-> [call[c] EXCEPT !.raced = @ \/ call[c].pc \in {"delete", "save"}]]
    /\ loggedIn' = FALSE
    /\ UNCHANGED <<known, made, hours, storeFaults, uses, overlapped>>

Hour == /\ hours <= Lifetime /\ hours' = hours + 1
        /\ UNCHANGED <<tokens, known, made, call, storeFaults, uses, overlapped, loggedIn>>

TokenNext == \/ \E ok \in BOOLEAN : \/ Login(ok)
                                    \/ \E c \in Callers : RefreshLoad(c, ok) \/ RefreshDelete(c, ok) \/ RefreshSave(c, ok)
             \/ \E t \in AllTokens : Revoke(t) \/ \E c \in Callers : Present(c, t)
             \/ RevokeAllTokens \/ Hour

TokenSpec == TokenInit /\ [][TokenNext]_tokenVars

-----------------------------------------------------------------------------
(* Rotation: a refresh token gives one new pair and no more, unless it was
   presented twice at the same time or the store failed to delete it. *)
SingleUse == \A t \in AllTokens \ overlapped : uses[t] <= 1

(* After RevokeAllTokens the subject has no refresh token until the next login,
   except what a refresh that was under way at that moment has saved, and
   what was refreshed from that. *)
RevokeAllIsFinal == ~loggedIn => \A t \in DOMAIN tokens : tokens[t].raced

(* Rotation and RevokeAllTokens (refresh.go): a token is used up by its use, and
   all of them by a logout everywhere. *)
TokensSound == SingleUse /\ RevokeAllIsFinal
=============================================================================
