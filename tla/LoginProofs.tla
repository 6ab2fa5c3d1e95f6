------------------------------ MODULE LoginProofs ------------------------------
(***************************************************************************)
(* Proofs about Login: what the store holds while a command runs and after *)
(* a logout, for any number of tokens and of requests to the callback      *)
(* server.                                                                 *)
(***************************************************************************)
EXTENDS Login, SequenceTheorems, FiniteSetTheorems, TLAPS

(* Nothing is in the channel before the server has started, and what is    *)
(* carried to a call of SetToken, or from it, is a token.                  *)
ChannelFirst ==
    /\ server \in {"none", "starting"} => results = <<>>
    /\ alive /\ at["login"] \in {"idle", "browser"} => server = "none"
    /\ \A r \in Request : at[r] # "idle" => server \in {"open", "closed"}

CarriesToken ==
    /\ \A w \in Writer : at[w] \in {"set", "save"} => tok[w] \in Token
    /\ \A u \in User : at[u] = "note" => tok[u] \in Token
    /\ at["login"] \in {"prompt", "browser", "wait", "idle", "set", "save", "returned", "close"}
    /\ mem = Unloaded => kind = "setup" \/ ~alive

Place == {"idle", "prompt", "browser", "wait", "close", "exchange", "set", "save", "reply", "note",
          "returned"}

TypeInv == TypeOK /\ ChannelFirst /\ CarriesToken

(* Undisturbed, one writer stores at a time, and from SetMemory to         *)
(* SaveToken it has in hand what is in memory; else the store has it.      *)
OneStores == alone => \A v, w \in Storing : v = w

InHand == alone => \A w \in Writer : at[w] = "save" => tok[w] = mem

InStore ==
    (alive /\ alone /\ steady /\ logout = "idle" /\ kind # "setup" /\ (\A w \in Writer : at[w] # "save"))
        => Loaded = mem

(* A logout with no command beside it.                                     *)
Forgotten ==
    /\ outAlone => logout # "idle" /\ ~alive
    /\ logout \in {"file", "done"} /\ outAlone /\ steady => (answers => keyring = NoToken)
    /\ logout = "done" /\ outAlone => file = NoToken

IInv == TypeInv /\ OneStores /\ InHand /\ InStore /\ Forgotten

-----------------------------------------------------------------------------
LEMMA Members ==
    /\ "login" \in Writer /\ User \subseteq Writer /\ Request \subseteq Writer
    /\ "login" \notin User /\ "login" \notin Request
    /\ User \cap Request = {}
BY LoginAssumption DEF Writer, User

LEMMA TokensArePositive == NoToken \notin Token /\ Token \subseteq Nat
BY StoreAssumption DEF Token, NoToken

(* The channel holds one result at most.                                   *)
LEMMA Channel ==
    /\ <<>> \in Seq(Result) /\ Len(<<>>) = 0
    /\ \A r \in Result : Append(<<>>, r) \in Seq(Result) /\ Len(Append(<<>>, r)) = 1
    /\ \A s \in Seq(Result) : Len(s) <= 1 /\ s # <<>> => Head(s) \in Result /\ Tail(s) = <<>>
<1>1. \A r \in Result : Append(<<>>, r) \in Seq(Result) /\ Len(Append(<<>>, r)) = 1
  OBVIOUS
<1>2. ASSUME NEW s \in Seq(Result), Len(s) <= 1, s # <<>>
      PROVE  Head(s) \in Result /\ Tail(s) = <<>>
  <2>1. Len(s) = 1
    <3>1. Len(s) \in Nat /\ Len(s) # 0
      BY <1>2, EmptySeq
    <3> QED
      BY <1>2, <3>1
  <2>2. Head(s) \in Result
    BY <2>1
  <2>3. Tail(s) \in Seq(Result) /\ Len(Tail(s)) = 0
    BY <2>1
  <2> QED
    BY <2>2, <2>3, EmptySeq
<1> QED
  BY <1>1, <1>2

LEMMA TypeInvInit == Init => TypeInv
<1> SUFFICES ASSUME Init PROVE TypeInv
    OBVIOUS
<1>1. 1 \in Token /\ 1 \in 0 .. MaxToken /\ NoToken \in Result
  BY StoreAssumption DEF Token, Result
<1>2. StoreOK
  BY <1>1 DEF Init, StoreOK
<1>3. mem \in Token \cup {NoToken, Unloaded}
  BY <1>2 DEF Init, StoreOK, Loaded
<1>4. at \in [Writer -> {"idle"}] /\ tok \in [Writer -> {NoToken}]
  BY DEF Init
<1>5. TypeOK
  <2>1. at \in [Writer -> Place] /\ tok \in [Writer -> Result]
    BY <1>1, <1>4 DEF Place
  <2>2. results \in Seq(Result) /\ Len(results) <= 1
    BY Channel DEF Init
  <2>3. {cancelled, alive, alone, outAlone} \subseteq BOOLEAN
    BY DEF Init
  <2> QED
    BY <1>1, <1>2, <1>3, <2>1, <2>2, <2>3 DEF Init, TypeOK, Place
<1>6. \A w \in Writer : at[w] = "idle"
  BY <1>4
<1>7. mem = Unloaded => kind = "setup"
  BY <1>2, LoginAssumption, TokensArePositive DEF Init, StoreOK, Loaded, NoToken
<1> QED
  BY <1>5, <1>6, <1>7, Members DEF Init, TypeInv, ChannelFirst, CarriesToken

-----------------------------------------------------------------------------
(* A step of a writer leaves the others where they are.                    *)
LEMMA Moved ==
    ASSUME TypeOK, NEW w \in Writer, NEW l, Goto(w, l)
    PROVE  at'[w] = l /\ \A v \in Writer \ {w} : at'[v] = at[v]
BY DEF Goto, TypeOK

LEMMA Carried ==
    ASSUME TypeOK, NEW w \in Writer, NEW t, Carry(w, t)
    PROVE  tok'[w] = t /\ \A v \in Writer \ {w} : tok'[v] = tok[v]
BY DEF Carry, TypeOK

LEMMA Issued ==
    ASSUME TypeOK, NEW w \in Writer, Issue(w)
    PROVE  minted + 1 \in Token /\ minted' \in 0 .. MaxToken /\ Carry(w, minted + 1)
BY StoreAssumption DEF Issue, TypeOK, Token

LEMMA TypeInvStep == TypeInv /\ [Next]_vars => TypeInv'
<1> SUFFICES ASSUME TypeInv, [Next]_vars PROVE TypeInv'
    OBVIOUS
<1> USE Members
<1>t. TypeOK
  BY DEF TypeInv
<1>1. CASE Refresh
  <2>1. "login" \in Writer /\ at["login"] = "idle"
    BY <1>1 DEF Refresh
  <2>2. tok'["login"] \in Token /\ minted' \in 0 .. MaxToken
        /\ (\A v \in Writer \ {"login"} : tok'[v] = tok[v]) /\ tok' \in [Writer -> Result]
    BY <1>1, <1>t, Issued, Carried DEF Refresh, TypeOK, Carry, Result
  <2>3. at'["login"] = "set" /\ (\A v \in Writer \ {"login"} : at'[v] = at[v])
    BY <1>1, <1>t, Moved DEF Refresh, StartsStoring
  <2>4. at' \in [Writer -> Place] /\ alone' \in BOOLEAN
    BY <1>1, <1>t DEF Refresh, StartsStoring, Goto, TypeOK, Place
  <2>5. TypeOK'
    BY <1>1, <1>t, <2>2, <2>4 DEF Refresh, TypeOK, StoreOK, store, Place
  <2> QED
    BY <1>1, <2>2, <2>3, <2>5 DEF Refresh, TypeInv, ChannelFirst, CarriesToken
<1>2. CASE RefreshFails
  BY <1>2, <1>t, Channel, LoginAssumption DEF RefreshFails, TypeInv, TypeOK, ChannelFirst, CarriesToken, StoreOK, store,
     Goto, Carry, Result, User
<1>3. CASE PasteFails
  BY <1>3, <1>t, Channel, LoginAssumption DEF PasteFails, Return, TypeInv, TypeOK, ChannelFirst, CarriesToken, StoreOK, store,
     Goto, Carry, Result, User
<1>4. CASE OpenBrowser
  <2>1. CASE Return(Failed) /\ UNCHANGED server
    BY <1>4, <1>t, <2>1 DEF OpenBrowser, Return, TypeInv, TypeOK, ChannelFirst, CarriesToken, StoreOK, store,
     Goto, Carry, Result, User
  <2>2. CASE Goto("login", "wait") /\ server' = "starting" /\ UNCHANGED tok
    BY <1>4, <1>t, <2>2 DEF OpenBrowser, TypeInv, TypeOK, ChannelFirst, CarriesToken, StoreOK, store,
     Goto, Carry, Result, User
  <2> QED
    BY <1>4, <2>1, <2>2 DEF OpenBrowser
<1>5. CASE Listen
  <2>1. results = <<>> /\ at["login"] \notin {"idle", "browser"} /\ alive
    BY <1>5 DEF Listen, TypeInv, ChannelFirst
  <2>2. Failed \in Result
    BY DEF Result
  <2>3. results' \in Seq(Result) /\ Len(results') <= 1
    <3>1. \/ results' = <<>>
          \/ results' = Append(<<>>, Failed)
      BY <1>5, <2>1 DEF Listen
    <3>2. CASE results' = <<>>
      BY <3>2, Channel
    <3>3. CASE results' = Append(<<>>, Failed)
      BY <2>2, <3>3, Channel
    <3> QED
      BY <3>1, <3>2, <3>3
  <2> QED
    BY <1>5, <1>t, <2>1, <2>3 DEF Listen, TypeInv, TypeOK, ChannelFirst, CarriesToken, StoreOK, store,
     Goto, Carry, Result, User
<1>6. CASE TakeResult
  BY <1>6, <1>t, Channel, LoginAssumption DEF TakeResult, TypeInv, TypeOK, ChannelFirst, CarriesToken, StoreOK, store,
     Goto, Carry, Result, User
<1>7. CASE WaitCancelled
  BY <1>7, <1>t, Channel, LoginAssumption DEF WaitCancelled, TypeInv, TypeOK, ChannelFirst, CarriesToken, StoreOK, store,
     Goto, Carry, Result, User
<1>8. CASE Shutdown
  BY <1>8, <1>t, Channel, LoginAssumption DEF Shutdown, TypeInv, TypeOK, ChannelFirst, CarriesToken, StoreOK, store,
     Goto, Carry, Result, User
<1>9. CASE Cancel
  BY <1>9, <1>t, Channel, LoginAssumption DEF Cancel, TypeInv, TypeOK, ChannelFirst, CarriesToken, StoreOK, store,
     Goto, Carry, Result, User
<1>10. CASE Exit
  <2>1. at' \in [Writer -> Place] /\ tok' \in [Writer -> Result] /\ \A w \in Writer : at'[w] = "idle"
    BY <1>10 DEF Exit, Result, Place
  <2>2. results' \in Seq(Result) /\ Len(results') <= 1 /\ ~alive' /\ server' = "closed"
    BY <1>10, Channel DEF Exit
  <2> QED
    BY <1>10, <1>t, <2>1, <2>2 DEF Exit, TypeInv, TypeOK, ChannelFirst, CarriesToken, StoreOK, store,
     Goto, Carry, Result, User, Place
<1>11. CASE LogoutKeyring
  BY <1>11, <1>t, Channel, LoginAssumption DEF LogoutKeyring, ForgetKeyring, login, TypeInv, TypeOK, ChannelFirst, CarriesToken, StoreOK, store,
     Goto, Carry, Result, User
<1>12. CASE LogoutFile
  BY <1>12, <1>t, Channel, LoginAssumption DEF LogoutFile, ForgetFile, login, TypeInv, TypeOK, ChannelFirst, CarriesToken, StoreOK, store,
     Goto, Carry, Result, User
<1>13. CASE Turn
  <2>1. keyring' = keyring /\ file' = file /\ answers' \in BOOLEAN /\ steady' \in BOOLEAN
    BY <1>13 DEF Turn, KeyringTurns
  <2> QED
    BY <1>13, <1>t, <2>1 DEF Turn, TypeInv, TypeOK, ChannelFirst, CarriesToken, StoreOK, store,
     Goto, Carry, Result, User, login
<1>14. CASE PasteCode
  <2>2. tok'["login"] \in Token /\ minted' \in 0 .. MaxToken
        /\ (\A v \in Writer \ {"login"} : tok'[v] = tok[v]) /\ tok' \in [Writer -> Result]
    BY <1>14, <1>t, Issued, Carried DEF PasteCode, TypeOK, Carry, Result
  <2>3. at'["login"] = "set" /\ (\A v \in Writer \ {"login"} : at'[v] = at[v])
    BY <1>14, <1>t, Moved DEF PasteCode, StartsStoring
  <2>4. at' \in [Writer -> Place] /\ alone' \in BOOLEAN
    BY <1>14, <1>t DEF PasteCode, StartsStoring, Goto, TypeOK, Place
  <2>5. TypeOK'
    BY <1>14, <1>t, <2>2, <2>4 DEF PasteCode, TypeOK, StoreOK, store, Place
  <2> QED
    BY <1>14, <2>2, <2>3, <2>5 DEF PasteCode, TypeInv, ChannelFirst, CarriesToken
<1>15. ASSUME NEW r \in Request, Callback(r) PROVE TypeInv'
  <2>1. CASE Goto(r, "exchange") /\ UNCHANGED tok
    BY <1>15, <1>t, <2>1 DEF Callback, TypeInv, TypeOK, ChannelFirst, CarriesToken, StoreOK, store,
     Goto, Carry, Result, User
  <2>2. CASE Goto(r, "reply") /\ Carry(r, Failed)
    BY <1>15, <1>t, <2>2 DEF Callback, TypeInv, TypeOK, ChannelFirst, CarriesToken, StoreOK, store,
     Goto, Carry, Result, User
  <2> QED
    BY <1>15, <2>1, <2>2 DEF Callback
<1>16. ASSUME NEW r \in Request, Exchange(r) PROVE TypeInv'
  <2>1. CASE Issue(r) /\ StartsStoring(r)
    <3>2. tok'[r] \in Token /\ minted' \in 0 .. MaxToken
          /\ (\A v \in Writer \ {r} : tok'[v] = tok[v]) /\ tok' \in [Writer -> Result]
      BY <1>t, <2>1, Issued, Carried DEF TypeOK, Carry, Result
    <3>3. at'[r] = "set" /\ (\A v \in Writer \ {r} : at'[v] = at[v])
      BY <1>t, <2>1, Moved DEF StartsStoring
    <3>4. at' \in [Writer -> Place] /\ alone' \in BOOLEAN
      BY <1>t, <2>1 DEF StartsStoring, Goto, TypeOK, Place
    <3>5. TypeOK'
      BY <1>16, <1>t, <3>2, <3>4 DEF Exchange, TypeOK, StoreOK, store, Place
    <3> QED
      BY <1>16, <3>2, <3>3, <3>5 DEF Exchange, TypeInv, ChannelFirst, CarriesToken
  <2>2. CASE Goto(r, "reply") /\ Carry(r, Failed) /\ UNCHANGED <<minted, alone>>
    BY <1>16, <1>t, <2>2 DEF Exchange, TypeInv, TypeOK, ChannelFirst, CarriesToken, StoreOK, store,
     Goto, Carry, Result, User
  <2> QED
    BY <1>16, <2>1, <2>2 DEF Exchange
<1>17. ASSUME NEW r \in Request, Reply(r) PROVE TypeInv'
  <2>1. tok[r] \in Result
    BY <1>t DEF TypeOK
  <2>2. results' \in Seq(Result) /\ Len(results') <= 1
    BY <1>17, <2>1, Channel DEF Reply
  <2>3. server \notin {"none", "starting"}
    BY <1>17 DEF Reply, TypeInv, ChannelFirst
  <2> QED
    BY <1>17, <1>t, <2>2, <2>3 DEF Reply, TypeInv, TypeOK, ChannelFirst, CarriesToken, StoreOK, store,
     Goto, Carry, Result, User
<1>18. ASSUME NEW w \in Writer, SetMemory(w) PROVE TypeInv'
  <2>1. tok[w] \in Token /\ After(w) \in {"returned", "note", "reply"}
        /\ (w = "login" => After(w) = "returned") /\ (w \in User => After(w) = "note")
        /\ (w \notin User => After(w) # "note")
    BY <1>18 DEF SetMemory, TypeInv, CarriesToken, After
  <2>2. CASE Goto(w, "save")
    BY <1>18, <1>t, <2>1, <2>2, LoginAssumption, TokensArePositive DEF SetMemory, TypeInv, TypeOK, ChannelFirst, CarriesToken, StoreOK, store,
     Goto, Carry, Result, User
  <2>3. CASE Goto(w, After(w))
    BY <1>18, <1>t, <2>1, <2>3, LoginAssumption, TokensArePositive DEF SetMemory, TypeInv, TypeOK, ChannelFirst, CarriesToken, StoreOK, store,
     Goto, Carry, Result, User
  <2> QED
    BY <1>18, <2>2, <2>3 DEF SetMemory
<1>19. ASSUME NEW w \in Writer, SaveToken(w) PROVE TypeInv'
  <2>1. tok[w] \in Token /\ After(w) \in {"returned", "note", "reply"}
        /\ (w = "login" => After(w) = "returned") /\ (w \in User => After(w) = "note")
        /\ (w \notin User => After(w) # "note")
    BY <1>19 DEF SaveToken, TypeInv, CarriesToken, After
  <2>2. StoreOK'
    BY <1>19, <1>t, <2>1 DEF SaveToken, Save, TypeOK, StoreOK
  <2> QED
    BY <1>19, <1>t, <2>1, <2>2 DEF SaveToken, TypeInv, TypeOK, ChannelFirst, CarriesToken,
       Goto, User
<1>20. ASSUME NEW u \in User, Ask(u) PROVE TypeInv'
  <2>1. at["login"] = "returned" /\ tok["login"] \in Token
    BY <1>20 DEF Ask, LoggedIn
  <2>2. /\ tok'[u] \in Token /\ minted' \in 0 .. MaxToken /\ current' \in Token
        /\ (\A v \in Writer \ {u} : tok'[v] = tok[v]) /\ tok' \in [Writer -> Result]
    <3>1. CASE Issue(u) /\ current' = minted + 1
      BY <1>t, <3>1, Issued, Carried DEF TypeOK, Carry, Result
    <3>2. CASE Carry(u, SourceToken) /\ current' = SourceToken /\ UNCHANGED minted
      <4>1. SourceToken \in Token
        BY <1>t, <2>1 DEF SourceToken, TypeOK
      <4> QED
        BY <1>t, <3>2, <4>1, Carried DEF TypeOK, Carry, Result
    <3> QED
      BY <1>20, <3>1, <3>2 DEF Ask
  <2>3. at'[u] = "set" /\ (\A v \in Writer \ {u} : at'[v] = at[v])
    BY <1>20, <1>t, Moved DEF Ask, StartsStoring
  <2>4. at' \in [Writer -> Place] /\ alone' \in BOOLEAN
    BY <1>20, <1>t DEF Ask, StartsStoring, Goto, TypeOK, Place
  <2>5. TypeOK'
    BY <1>20, <1>t, <2>2, <2>4 DEF Ask, TypeOK, StoreOK, store, Place
  <2> QED
    BY <1>20, <2>2, <2>3, <2>5 DEF Ask, TypeInv, ChannelFirst, CarriesToken
<1>21. ASSUME NEW u \in User, Note(u) PROVE TypeInv'
  BY <1>21, <1>t DEF Note, TypeInv, TypeOK, ChannelFirst, CarriesToken, StoreOK, store,
     Goto, Carry, Result, User
<1>22. CASE UNCHANGED vars
  BY <1>22, <1>t DEF vars, login, TypeInv, TypeOK, ChannelFirst, CarriesToken, StoreOK, store,
     Goto, Carry, Result, User
<1> QED
  BY <1>1, <1>2, <1>3, <1>4, <1>5, <1>6, <1>7, <1>8, <1>9, <1>10, <1>11, <1>12, <1>13, <1>14, <1>15,
     <1>16, <1>17, <1>18, <1>19, <1>20, <1>21, <1>22
     DEF Next, LoginWorks, HandlerWorks, Stores

(* The variables have their types in every reachable state.                *)
THEOREM LoginTypes == Spec => []TypeOK
<1>1. TypeInv => TypeOK
  BY DEF TypeInv
<1> QED
  BY <1>1, TypeInvInit, TypeInvStep, PTL DEF Spec

-----------------------------------------------------------------------------
StoreInv == OneStores /\ InHand /\ InStore /\ Forgotten

LEMMA IInvInit == Init => IInv
<1> SUFFICES ASSUME Init PROVE IInv
    OBVIOUS
<1>1. \A w \in Writer : at[w] = "idle"
  BY DEF Init
<1>2. kind # "setup" => mem = Loaded
  BY DEF Init
<1> QED
  BY <1>1, <1>2, TypeInvInit DEF Init, IInv, OneStores, InHand, InStore, Forgotten, Storing

(* A step that starts no storing, ends none and leaves the store alone.    *)
LEMMA Elsewhere ==
    ASSUME StoreInv, UNCHANGED <<mem, alone, alive, logout, outAlone, kind, store>>,
           \A w \in Writer : at'[w] \in {"set", "save"} => at'[w] = at[w] /\ tok'[w] = tok[w],
           \A w \in Writer : at[w] = "save" => at'[w] = "save"
    PROVE  StoreInv'
BY DEF StoreInv, OneStores, InHand, InStore, Forgotten, Storing, store, Loaded

(* One that starts storing a token.                                        *)
LEMMA Starts ==
    ASSUME TypeOK, StoreInv, UNCHANGED <<mem, alive, logout, outAlone, kind, store>>,
           NEW w \in Writer, StartsStoring(w), at[w] \notin {"set", "save"},
           \A v \in Writer \ {w} : tok'[v] = tok[v]
    PROVE  StoreInv'
<1>1. at'[w] = "set" /\ \A v \in Writer \ {w} : at'[v] = at[v]
  BY Moved DEF StartsStoring
<1>2. alone' => alone /\ Storing = {}
  BY DEF StartsStoring
<1>3. OneStores'
  BY <1>1, <1>2 DEF OneStores, Storing
<1>4. InHand'
  BY <1>1, <1>2 DEF StoreInv, InHand
<1>5. InStore'
  BY <1>1, <1>2 DEF StoreInv, InStore, store, Loaded
<1>6. Forgotten'
  BY DEF StoreInv, Forgotten, store
<1> QED
  BY <1>3, <1>4, <1>5, <1>6 DEF StoreInv

LEMMA StoreInvStep == TypeInv /\ StoreInv /\ [Next]_vars => StoreInv'
<1> SUFFICES ASSUME TypeInv, StoreInv, [Next]_vars PROVE StoreInv'
    OBVIOUS
<1> USE Members
<1>t. TypeOK
  BY DEF TypeInv
<1>1. CASE Refresh
  BY <1>1, <1>t, Starts, Issued, Carried DEF Refresh
<1>2. CASE PasteCode
  BY <1>2, <1>t, Starts, Issued, Carried DEF PasteCode
<1>3. CASE RefreshFails
  BY <1>3, <1>t, Moved, Elsewhere DEF RefreshFails
<1>4. CASE PasteFails
  BY <1>4, <1>t, Moved, Carried, Elsewhere DEF PasteFails, Return
<1>5. CASE OpenBrowser
  BY <1>5, <1>t, Moved, Carried, Elsewhere DEF OpenBrowser, Return
<1>6. CASE Listen
  BY <1>6, Elsewhere DEF Listen
<1>7. CASE TakeResult
  BY <1>7, <1>t, Moved, Carried, Elsewhere DEF TakeResult
<1>8. CASE WaitCancelled
  BY <1>8, <1>t, Moved, Carried, Elsewhere DEF WaitCancelled
<1>9. CASE Shutdown
  BY <1>9, <1>t, Moved, Elsewhere DEF Shutdown
<1>10. ASSUME NEW r \in Request, Callback(r) PROVE StoreInv'
  BY <1>10, <1>t, Moved, Carried, Elsewhere DEF Callback
<1>11. ASSUME NEW r \in Request, Exchange(r) PROVE StoreInv'
  <2>1. CASE Issue(r) /\ StartsStoring(r)
    BY <1>11, <1>t, <2>1, Starts, Issued, Carried DEF Exchange
  <2>2. CASE Goto(r, "reply") /\ Carry(r, Failed) /\ UNCHANGED <<minted, alone>>
    BY <1>11, <1>t, <2>2, Moved, Carried, Elsewhere DEF Exchange
  <2> QED
    BY <1>11, <2>1, <2>2 DEF Exchange
<1>12. ASSUME NEW r \in Request, Reply(r) PROVE StoreInv'
  BY <1>12, <1>t, Moved, Carried, Elsewhere DEF Reply
<1>13. ASSUME NEW w \in Writer, SetMemory(w) PROVE StoreInv'
  <2>0. /\ at[w] = "set" /\ alive /\ mem' = tok[w] /\ tok[w] \in Token /\ tok' = tok
        /\ UNCHANGED <<alone, alive, logout, outAlone, kind, store>>
    BY <1>13 DEF SetMemory, TypeInv, CarriesToken
  <2>1. alone => \A v \in Writer \ {w} : at[v] \notin {"set", "save"}
    BY <2>0 DEF StoreInv, OneStores, Storing
  <2>2. \A v \in Writer \ {w} : at'[v] = at[v]
    BY <1>13, <1>t, Moved DEF SetMemory
  <2>3. at'[w] = "save" \/ (at'[w] \notin {"set", "save"} /\ mem \in {Unloaded, tok[w]})
    BY <1>13, <1>t, Moved DEF SetMemory, After
  <2>4. (OneStores /\ InHand)'
    BY <2>0, <2>1, <2>2, <2>3 DEF StoreInv, OneStores, InHand, Storing
  <2>5. ASSUME at'[w] # "save", alone, steady, logout = "idle", kind # "setup" PROVE Loaded = mem'
    <3>1. mem = tok[w]
      BY <2>0, <2>3, <2>5 DEF TypeInv, CarriesToken
    <3>2. Loaded = mem
      BY <2>0, <2>1, <2>5 DEF StoreInv, InStore
    <3> QED
      BY <2>0, <3>1, <3>2
  <2>6. InStore'
    BY <2>0, <2>5 DEF InStore, store, Loaded
  <2>7. Forgotten'
    BY <2>0 DEF StoreInv, Forgotten, store
  <2> QED
    BY <2>4, <2>6, <2>7 DEF StoreInv
<1>14. ASSUME NEW w \in Writer, SaveToken(w) PROVE StoreInv'
  <2>0. /\ at[w] = "save" /\ alive /\ tok[w] \in Token /\ tok' = tok
        /\ UNCHANGED <<mem, alone, alive, logout, outAlone, kind>>
    BY <1>14 DEF SaveToken, TypeInv, CarriesToken
  <2>1. alone => \A v \in Writer \ {w} : at[v] \notin {"set", "save"}
    BY <2>0 DEF StoreInv, OneStores, Storing
  <2>2. at'[w] \notin {"set", "save"} /\ \A v \in Writer \ {w} : at'[v] = at[v]
    BY <1>14, <1>t, Moved DEF SaveToken, After
  <2>3. (OneStores /\ InHand)'
    BY <2>0, <2>1, <2>2 DEF StoreInv, OneStores, InHand, Storing
  <2>4. steady' => Loaded' = tok[w]
    <3>0. tok[w] # NoToken
      BY <2>0, TokensArePositive
    <3>1. CASE answers /\ keyring' = tok[w] /\ UNCHANGED <<file, answers, steady>>
      BY <3>0, <3>1 DEF Loaded
    <3>2. CASE ~answers /\ file' = tok[w] /\ UNCHANGED <<keyring, answers, steady>>
      BY <3>2 DEF Loaded
    <3> QED
      BY <1>14, <3>1, <3>2 DEF SaveToken, Save
  <2>5. InStore'
    BY <2>0, <2>4 DEF StoreInv, InHand, InStore
  <2>6. Forgotten'
    BY <2>0 DEF StoreInv, Forgotten
  <2> QED
    BY <2>3, <2>5, <2>6 DEF StoreInv
<1>15. ASSUME NEW u \in User, Ask(u) PROVE StoreInv'
  BY <1>15, <1>t, Starts, Issued, Carried DEF Ask
<1>16. ASSUME NEW u \in User, Note(u) PROVE StoreInv'
  BY <1>16, <1>t, Moved, Carried, Elsewhere DEF Note
<1>17. CASE Cancel
  BY <1>17, Elsewhere DEF Cancel
<1>18. CASE Exit
  <2>1. \A w \in Writer : at'[w] = "idle"
    BY <1>18 DEF Exit
  <2> QED
    BY <1>18, <2>1 DEF Exit, StoreInv, OneStores, InHand, InStore, Forgotten, Storing, store
<1>19. CASE LogoutKeyring \/ LogoutFile
  <2>1. UNCHANGED <<at, tok, mem, alone, alive, kind, answers, steady>>
    BY <1>19 DEF LogoutKeyring, ForgetKeyring, LogoutFile, ForgetFile, login
  <2>2. logout' # "idle"
    BY <1>19 DEF LogoutKeyring, LogoutFile
  <2>3. (OneStores /\ InHand)'
    BY <2>1 DEF StoreInv, OneStores, InHand, Storing
  <2>4. InStore'
    BY <2>2 DEF InStore
  <2>5. ASSUME LogoutKeyring PROVE Forgotten'
    <3>1. logout' = "file" /\ (outAlone' => ~alive) /\ (answers => keyring' = NoToken)
      BY <2>5 DEF LogoutKeyring, ForgetKeyring
    <3> QED
      BY <2>1, <3>1 DEF Forgotten
  <2>6. ASSUME LogoutFile PROVE Forgotten'
    <3>1. logout = "file" /\ file' = NoToken /\ UNCHANGED <<outAlone, keyring>>
      BY <2>6 DEF LogoutFile, ForgetFile
    <3> QED
      BY <2>1, <2>2, <3>1 DEF StoreInv, Forgotten
  <2>7. Forgotten'
    BY <1>19, <2>5, <2>6
  <2> QED
    BY <2>3, <2>4, <2>7 DEF StoreInv
<1>20. CASE Turn
  <2>1. keyring' = keyring /\ file' = file /\ ~steady'
    BY <1>20 DEF Turn, KeyringTurns
  <2> QED
    BY <1>20, <2>1 DEF Turn, login, StoreInv, OneStores, InHand, InStore, Forgotten, Storing
<1>21. CASE UNCHANGED vars
  BY <1>21, Elsewhere DEF vars, login
<1> QED
  BY <1>1, <1>2, <1>3, <1>4, <1>5, <1>6, <1>7, <1>8, <1>9, <1>10, <1>11, <1>12, <1>13, <1>14, <1>15,
     <1>16, <1>17, <1>18, <1>19, <1>20, <1>21
     DEF Next, LoginWorks, HandlerWorks, Stores

LEMMA IInvAlways == Spec => []IInv
<1>1. IInv /\ [Next]_vars => IInv'
  BY TypeInvStep, StoreInvStep DEF IInv, StoreInv
<1> QED
  BY <1>1, IInvInit, PTL DEF Spec

(* Whatever was in either place before, and however many requests came, a  *)
(* loaded command that stored one token after the other has its own in the *)
(* store.                                                                  *)
THEOREM StoreFollows == Spec => []StoreFollowsMemory
<1>1. IInv => StoreFollowsMemory
  BY DEF IInv, InStore, StoreFollowsMemory, Storing
<1> QED
  BY <1>1, IInvAlways, PTL

(* A logout beside which no command ran has left no token.                 *)
THEOREM LogoutForgetsAll == Spec => []LogoutForgets
<1>1. IInv => LogoutForgets
  BY DEF IInv, Forgotten, LogoutForgets, Loaded
<1> QED
  BY <1>1, IInvAlways, PTL

-----------------------------------------------------------------------------
(* Why DecidedLoginReturns holds: who has filled the channel while the     *)
(* login shuts the server down.  The login has taken what the first        *)
(* request put there, so what is there again is from a second one.         *)
Reached == \E r \in Request : at[r] # "idle"

Replied == \E r \in Request : at[r] = "returned"

RepliedTwice == \E q, r \in Request : q # r /\ at[q] = "returned" /\ at[r] = "returned"

QueueInv ==
    alive =>
        /\ at["login"] = "wait" /\ server = "closed" => ~Reached
        /\ at["login"] = "wait" /\ server = "open" /\ results # <<>> => Replied
        /\ at["login"] = "close" => server = "closed"
        /\ at["login"] = "close" /\ ~cancelled /\ Reached => Replied
        /\ at["login"] = "close" /\ ~cancelled /\ Reached /\ results # <<>> => RepliedTwice

LEMMA QueueInvInit == Init => QueueInv
BY Members DEF Init, QueueInv

(* Steps that neither reply nor take a result.                             *)
LEMMA QueueKept ==
    ASSUME QueueInv, UNCHANGED <<server, results, alive>>, cancelled => cancelled',
           at'["login"] \in {"wait", "close"} => at'["login"] = at["login"],
           \A r \in Request : /\ at[r] = "returned" => at'[r] = "returned"
                              /\ at[r] = "idle" => at'[r] = "idle"
    PROVE  QueueInv'
<1>1. /\ Reached' => Reached
      /\ Replied => Replied'
      /\ RepliedTwice => RepliedTwice'
  BY DEF Reached, Replied, RepliedTwice
<1> QED
  BY <1>1 DEF QueueInv

LEMMA QueueInvStep == TypeInv /\ QueueInv /\ [Next]_vars => QueueInv'
<1> SUFFICES ASSUME TypeInv, QueueInv, [Next]_vars PROVE QueueInv'
    OBVIOUS
<1> USE Members
<1>t. TypeOK
  BY DEF TypeInv
<1>1. CASE Refresh \/ PasteCode \/ RefreshFails \/ PasteFails \/ Shutdown
  <2>1. PICK l \in Place \ {"wait", "close"} : Goto("login", l)
    BY <1>1 DEF Refresh, PasteCode, RefreshFails, PasteFails, Shutdown, StartsStoring, Return, Place
  <2>2. UNCHANGED <<server, results, alive, cancelled>>
    BY <1>1 DEF Refresh, PasteCode, RefreshFails, PasteFails, Shutdown
  <2> QED
    BY <1>t, <2>1, <2>2, Moved, QueueKept
<1>2. CASE OpenBrowser
  BY <1>2, <1>t DEF OpenBrowser, Return, Goto, TypeOK, QueueInv
<1>3. CASE Listen
  <2>1. ~Reached
    BY <1>3 DEF Listen, TypeInv, ChannelFirst, Reached
  <2>2. ~Reached' /\ at' = at /\ alive' = alive
    BY <1>3, <2>1 DEF Listen, Reached
  <2>3. at["login"] # "close"
    BY <1>3 DEF Listen, QueueInv
  <2>4. server' = "open" => results' = <<>>
    BY <1>3 DEF Listen, TypeInv, ChannelFirst
  <2> QED
    BY <1>3, <2>2, <2>3, <2>4 DEF Listen, QueueInv
<1>4. CASE TakeResult
  <2>1. /\ at'["login"] = "close" /\ \A r \in Request : at'[r] = at[r]
        /\ server' = "closed" /\ results' = <<>> /\ UNCHANGED <<alive, cancelled>>
    BY <1>4, <1>t, Moved, Channel DEF TakeResult, TypeOK
  <2>2. Reached' => Replied'
    <3>1. Reached => server \in {"open", "closed"}
      BY DEF TypeInv, ChannelFirst, Reached
    <3>2. Reached => Replied
      BY <1>4, <3>1 DEF TakeResult, QueueInv
    <3> QED
      BY <2>1, <3>2 DEF Reached, Replied
  <2> QED
    BY <2>1, <2>2 DEF QueueInv
<1>5. CASE WaitCancelled
  <2>1. at'["login"] = "close" /\ server' = "closed" /\ cancelled'
    BY <1>5, <1>t, Moved DEF WaitCancelled
  <2> QED
    BY <2>1 DEF QueueInv
<1>6. ASSUME NEW r \in Request, Callback(r) PROVE QueueInv'
  <2>1. /\ server' = "open" /\ at'["login"] = at["login"] /\ UNCHANGED <<results, alive, cancelled>>
        /\ at["login"] # "close" /\ server = "open"
        /\ \A q \in Request : at[q] = "returned" => at'[q] = "returned"
    BY <1>6, <1>t, Moved DEF Callback, QueueInv
  <2>2. Replied => Replied'
    BY <2>1 DEF Replied
  <2> QED
    BY <2>1, <2>2 DEF QueueInv
<1>7. ASSUME NEW r \in Request, Exchange(r) PROVE QueueInv'
  <2>1. at[r] = "exchange" /\ \E l \in {"set", "reply"} : Goto(r, l)
    BY <1>7 DEF Exchange, StartsStoring
  <2>2. UNCHANGED <<server, results, alive, cancelled>>
    BY <1>7 DEF Exchange
  <2> QED
    BY <1>t, <2>1, <2>2, Moved, QueueKept
<1>8. ASSUME NEW r \in Request, Reply(r) PROVE QueueInv'
  <2>1. /\ alive /\ at[r] = "reply" /\ at'[r] = "returned"
        /\ \A q \in Writer \ {r} : at'[q] = at[q]
        /\ UNCHANGED <<server, alive, cancelled>>
    BY <1>8, <1>t, Moved DEF Reply
  <2>2. Replied' /\ Reached
    BY <2>1 DEF Replied, Reached
  <2>3. Replied => RepliedTwice'
    BY <2>1 DEF Replied, RepliedTwice
  <2> QED
    BY <2>1, <2>2, <2>3 DEF QueueInv
<1>9. ASSUME NEW w \in Writer, SetMemory(w) \/ SaveToken(w) PROVE QueueInv'
  <2>1. /\ at[w] \in {"set", "save"}
        /\ \E l \in {"save", "returned", "note", "reply"} : Goto(w, l)
    BY <1>9 DEF SetMemory, SaveToken, After
  <2>2. UNCHANGED <<server, results, alive, cancelled>>
    BY <1>9 DEF SetMemory, SaveToken
  <2> QED
    BY <1>t, <2>1, <2>2, Moved, QueueKept
<1>10. ASSUME NEW u \in User, Ask(u) \/ Note(u) PROVE QueueInv'
  <2>1. \E l \in {"set", "idle"} : Goto(u, l)
    BY <1>10 DEF Ask, Note, StartsStoring
  <2>2. UNCHANGED <<server, results, alive, cancelled>>
    BY <1>10 DEF Ask, Note
  <2> QED
    BY <1>t, <2>1, <2>2, Moved, QueueKept
<1>11. CASE Cancel
  BY <1>11, QueueKept DEF Cancel
<1>12. CASE Exit
  BY <1>12 DEF Exit, QueueInv
<1>13. CASE LogoutKeyring \/ LogoutFile \/ Turn \/ UNCHANGED vars
  BY <1>13, QueueKept DEF LogoutKeyring, LogoutFile, Turn, vars, login
<1> QED
  BY <1>1, <1>2, <1>3, <1>4, <1>5, <1>6, <1>7, <1>8, <1>9, <1>10, <1>11, <1>12, <1>13
     DEF Next, LoginWorks, HandlerWorks, Stores

(* A browser login that has its result and is not cancelled waits for ever *)
(* in Shutdown only if a handler waits for the channel that nobody reads   *)
(* any more (auth.go 281, 324, 343), and that takes a third request.       *)
THEOREM OnlyCrowdsBlockLogin ==
    ASSUME IsFiniteSet(Request)
    PROVE  Spec => [](alive /\ at["login"] = "close" /\ ~cancelled /\ results # <<>>
                          /\ (\E r \in Request : at[r] = "reply") => Crowded)
<1>1. ASSUME QueueInv, alive, at["login"] = "close", ~cancelled, results # <<>>,
             NEW r \in Request, at[r] = "reply"
      PROVE  Crowded
  <2> DEFINE Busy == {q \in Request : at[q] # "idle"}
  <2>1. PICK p \in Request, q \in Request : p # q /\ at[p] = "returned" /\ at[q] = "returned"
    BY <1>1 DEF QueueInv, Reached, RepliedTwice
  <2>2. {p, q, r} \subseteq Busy /\ p # r /\ q # r
    BY <1>1, <2>1
  <2>3. IsFiniteSet(Busy)
    BY FS_Subset
  <2>4. IsFiniteSet({p, q}) /\ Cardinality({p, q}) = 2
    <3>1. IsFiniteSet({p}) /\ Cardinality({p}) = 1
      BY FS_Singleton
    <3>2. {p} \cup {q} = {p, q} /\ q \notin {p}
      BY <2>1
    <3> QED
      BY <3>1, <3>2, FS_AddElement
  <2>5. Cardinality({p, q, r}) = 3
    <3>1. {p, q} \cup {r} = {p, q, r} /\ r \notin {p, q}
      BY <2>2
    <3> QED
      BY <2>4, <3>1, FS_AddElement
  <2>6. Cardinality({p, q, r}) <= Cardinality(Busy)
    BY <2>2, <2>3, FS_Subset
  <2>7. Cardinality(Busy) \in Nat
    BY <2>3, FS_CardinalityType
  <2> QED
    BY <2>5, <2>6, <2>7 DEF Crowded
<1>2. QueueInv => (alive /\ at["login"] = "close" /\ ~cancelled /\ results # <<>>
                       /\ (\E r \in Request : at[r] = "reply") => Crowded)
  BY <1>1
<1> QED
  BY <1>2, QueueInvInit, QueueInvStep, TypeInvInit, TypeInvStep, PTL DEF Spec
=============================================================================
