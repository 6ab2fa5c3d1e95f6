------------------------------ MODULE TokenStore ------------------------------
(***************************************************************************)
(* Where the access token is kept between commands: the keyring of the     *)
(* operating system or, when a call to it fails, token.yaml                *)
(* (internal/types/token_management.go).  Whether the keyring answers may  *)
(* change from one call to the next.                                       *)
(***************************************************************************)
EXTENDS Naturals

CONSTANTS MaxToken,  \* tokens are numbered as Google issues them
          Faults     \* what may happen: "keyring", "disk", "cancel"

NoToken == 0
Token == 1 .. MaxToken

ASSUME StoreAssumption == MaxToken \in Nat \ {0}

VARIABLES keyring,  \* the token in the keyring
          file,     \* the token in token.yaml
          answers,  \* does the keyring answer
          steady    \* history: it always answered or never did, every write worked

store == <<keyring, file, answers, steady>>

StoreOK ==
    /\ keyring \in Token \cup {NoToken}
    /\ file \in Token \cup {NoToken}
    /\ answers \in BOOLEAN
    /\ steady \in BOOLEAN

(* LoadToken: the keyring comes first; if it is empty or fails, the file.  *)
Loaded == IF answers /\ keyring # NoToken THEN keyring ELSE file

(* Mutation of Save: the keyring is only tried where there is no file yet. *)
SaveBesideFile(t) ==
    IF answers /\ file = NoToken THEN keyring' = t /\ UNCHANGED <<file, answers, steady>>
    ELSE file' = t /\ UNCHANGED <<keyring, answers, steady>>

(* SaveToken: one of the two is written, the other keeps what it has.  A   *)
(* failing write may have truncated the file.                              *)
Save(t) ==
    \/ answers /\ keyring' = t /\ UNCHANGED <<file, answers, steady>>
    \/ ~answers /\ file' = t /\ UNCHANGED <<keyring, answers, steady>>
    \/ /\ ~answers /\ "disk" \in Faults
       /\ file' \in {file, NoToken}
       /\ steady' = FALSE
       /\ UNCHANGED <<keyring, answers>>

(* DeleteToken: an error of the keyring is only logged.                    *)
ForgetKeyring ==
    /\ keyring' = IF answers THEN NoToken ELSE keyring
    /\ UNCHANGED <<file, answers, steady>>

(* Mutation of ForgetFile: a token in the keyring was the only one.        *)
ForgetNothing == UNCHANGED store

ForgetFile == file' = NoToken /\ UNCHANGED <<keyring, answers, steady>>

(* Bound: the keyring changes its mind once.                               *)
KeyringTurns ==
    /\ "keyring" \in Faults /\ steady
    /\ answers' = ~answers
    /\ steady' = FALSE
    /\ UNCHANGED <<keyring, file>>

=============================================================================
