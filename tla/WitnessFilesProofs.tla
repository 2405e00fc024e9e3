-------------------------- MODULE WitnessFilesProofs --------------------------
(***************************************************************************)
(* For any number of calls and networks: a call that no other call's write *)
(* overlaps is consistent, a path of one's own isolates, and calls whose   *)
(* nodes answer alike may overlap.                                         *)
(***************************************************************************)
EXTENDS WitnessFiles, TLAPS

\* Before the first call nothing has been read or written.
LEMMA InitInv == Init => IInv
<1> SUFFICES ASSUME Init PROVE IInv
  OBVIOUS
<1>1. TypeOK BY LeftoversAssumption DEF Init, TypeOK
<1>2. FileOrigin BY DEF Init, FileOrigin, PastWrite, PastHash, PastReread, PastWriteL1,
                         PastClientRollup, PastClientL1, PastKeyRollup
<1>3. \A c \in Calls : Progress(c)
  BY DEF Init, Progress, Resolved, PastWrite, PastHash, PastReread, PastWriteL1,
         PastClientRollup, PastClientL1, PastKeyRollup
<1>4. \A c \in Calls : pc[c] = "ensure" BY DEF Init
<1>5. \A c \in Calls : AloneInv(c) /\ PathInv(c) /\ AgreeInv(c)
  BY <1>4 DEF AloneInv, PathInv, AgreeInv, PastWrite, PastHash, PastReread, PastWriteL1,
              PastClientRollup, PastClientL1, PastKeyRollup
<1> QED BY <1>1, <1>2, <1>3, <1>5 DEF IInv, CallInv

\* A call that does nothing keeps its part of the invariant while the others go
\* on: either the files do not change, or it counts as overlapped, or it is not
\* reading; and a configuration that is resolved stays what it is.
LEMMA Bystander ==
  ASSUME NEW d \in Calls, CallInv(d), provider' = provider,
         pc'[d] = pc[d],
         config'[d] = config[d],
         l1_config'[d] = l1_config[d],
         chain_id'[d] = chain_id[d],
         hash'[d] = hash[d],
         client_rollup'[d] = client_rollup[d],
         client_l1'[d] = client_l1[d],
         key_rollup'[d] = key_rollup[d],
         key_l1'[d] = key_l1[d],
         overlapped[d] => overlapped'[d],
         UNCHANGED <<rollup, l1>> \/ overlapped'[d] \/ pc[d] \in {"ensure", "done", "failed",
         "hung"},
         \A e \in Calls : config[e] # Missing => config'[e] = config[e]
  PROVE  CallInv(d)'
<1> USE DEF PastWrite, PastHash, PastReread, PastWriteL1, PastClientRollup, PastClientL1, PastKeyRollup
<1>1. Progress(d)' BY DEF CallInv, Progress, Resolved, UserConfig
<1>2. PathInv(d)' BY DEF CallInv, PathInv, UserConfig
<1>3. AgreeInv(d)'
  <2> SUFFICES ASSUME Resolved(d)', \A e \in Calls : Resolved(e)' => config'[e] = config'[d]
               PROVE  /\ pc[d] \in PastHash => hash[d] = config[d]
                      /\ pc[d] \in PastClientRollup => client_rollup[d] = config[d]
                      /\ pc[d] \in PastKeyRollup => key_rollup[d] \in {config[d], Missing}
    BY DEF AgreeInv
  <2>1. Resolved(d) BY DEF Resolved
  <2>2. \A e \in Calls : Resolved(e) => config[e] = config[d] BY DEF Resolved
  <2> QED BY <2>1, <2>2 DEF CallInv, AgreeInv
<1>4. AloneInv(d)'
  <2> SUFFICES ASSUME ~ overlapped'[d] PROVE AloneInv(d)'
    BY DEF AloneInv
  <2>1. AloneInv(d) /\ ~ overlapped[d] BY DEF CallInv
  <2>2. CASE UNCHANGED <<rollup, l1>>
    <3>1. ReadRollup(d)' = ReadRollup(d) BY <2>2 DEF ReadRollup, UserConfig
    <3> QED BY <2>1, <2>2, <3>1 DEF AloneInv
  <2>3. CASE pc[d] \in {"ensure", "done", "failed", "hung"}
    BY <2>1, <2>3 DEF AloneInv
  <2> QED BY <2>2, <2>3
<1> QED BY <1>1, <1>2, <1>3, <1>4 DEF CallInv

\* The origin of the rollup file is kept by a step that does not write it and
\* brings no call past its truncation.
LEMMA OriginKept ==
  ASSUME FileOrigin, provider' = provider, rollup' = rollup,
         \A e \in Calls : config[e] # Missing => config'[e] = config[e],
         \A e \in Calls : Resolved(e)' /\ pc'[e] \in {"write"} \union PastWrite =>
                         Resolved(e) /\ pc[e] \in {"write"} \union PastWrite
  PROVE  FileOrigin'
<1> SUFFICES ASSUME NEW e \in Calls, Resolved(e)', rollup' # Torn,
                    pc'[e] \in {"write"} \union PastWrite
             PROVE  (\E d \in Calls : Resolved(d) /\ rollup = config[d])'
  BY DEF FileOrigin, PastWrite, PastHash, PastReread, PastWriteL1, PastClientRollup,
         PastClientL1, PastKeyRollup
<1>1. PICK d \in Calls : Resolved(d) /\ rollup = config[d] BY DEF FileOrigin
<1> QED BY <1>1 DEF Resolved

\* No step of any call disturbs the inductive invariant of all of them.
LEMMA StepInv == IInv /\ [Next]_vars => IInv'
<1> SUFFICES ASSUME IInv, [Next]_vars PROVE IInv'
  OBVIOUS
<1> USE TornAssumption, MissingAssumption DEF Ended, PastWrite, PastHash, PastReread, PastWriteL1,
        PastClientRollup, PastClientL1, PastKeyRollup
<1>t. TypeOK /\ FileOrigin BY DEF IInv
<1>p. \A d \in Calls : CallInv(d) BY DEF IInv
<1>u. \A d \in Calls : UserConfig(d) \in RollupConfig
  BY <1>t DEF TypeOK, UserConfig, RollupConfig, Provider
<1>r. \A d \in Calls : ReadRollup(d) \in RollupConfig \union {Torn}
  BY <1>t, <1>u DEF TypeOK, ReadRollup
<1>l. \A r \in RollupConfig : L1ChainId(r) \in Networks BY MainnetAssumption
   DEF L1ChainId, RollupConfig
<1> DEFINE Written(d) == pc[d] \in {"write"} \union PastWrite
<1>o. ASSUME provider' = provider, rollup' = rollup,
             \A e \in Calls : config[e] # Missing => config'[e] = config[e],
             \A e \in Calls : Resolved(e)' /\ Written(e)' => Resolved(e) /\ Written(e)
      PROVE  FileOrigin'
  BY <1>o, <1>t, OriginKept
<1> DEFINE Still(d) == /\ provider' = provider
                       /\ pc'[d] = pc[d]
                       /\ config'[d] = config[d]
                       /\ l1_config'[d] = l1_config[d]
                       /\ chain_id'[d] = chain_id[d]
                       /\ hash'[d] = hash[d]
                       /\ client_rollup'[d] = client_rollup[d]
                       /\ client_l1'[d] = client_l1[d]
                       /\ key_rollup'[d] = key_rollup[d]
                       /\ key_l1'[d] = key_l1[d]
<1>b. ASSUME NEW d \in Calls, Still(d), overlapped[d] => overlapped'[d],
             UNCHANGED <<rollup, l1>> \/ overlapped'[d] \/ pc[d] \in {"ensure", "done",
             "failed", "hung"},
             \A e \in Calls : config[e] # Missing => config'[e] = config[e]
      PROVE  CallInv(d)'
  BY <1>b, <1>p, Bystander
<1> HIDE DEF Still
<1>1. ASSUME NEW c \in Calls, UsePath(c) PROVE IInv'
  <2>1. /\ pc[c] = "ensure" /\ provider[c].path = "valid" /\ pc'[c] = "hash"
        /\ config'[c] = UserConfig(c) /\ l1_config'[c] = l1_config[c]
        /\ chain_id'[c] = chain_id[c] /\ hash'[c] = hash[c]
        /\ client_rollup'[c] = client_rollup[c] /\ client_l1'[c] = client_l1[c]
        /\ key_rollup'[c] = key_rollup[c] /\ key_l1'[c] = key_l1[c]
        /\ overlapped'[c] = overlapped[c] /\ provider' = provider /\ UNCHANGED <<rollup, l1>>
    BY <1>1, <1>t DEF UsePath, TypeOK, Goto, files, client, keys
  <2>2. \A d \in Calls : d # c => Still(d)
    BY <1>1, <1>t DEF UsePath, Still, TypeOK, Goto, files, client, keys
  <2>3. overlapped' = overlapped BY <1>1 DEF UsePath
  <2>4. \A e \in Calls : config[e] # Missing => config'[e] = config[e]
    BY <2>1, <2>2, <1>p DEF CallInv, Progress, Still
  <2>5. \A d \in Calls : d # c => CallInv(d)' BY <2>1, <2>2, <2>3, <2>4, <1>b
  <2>6. TypeOK'
    BY <1>1, <1>t, <1>p, <1>u, <1>r DEF UsePath, CallInv, TypeOK, Progress, Resolved,
       RollupConfig, L1Config, Provider, Goto, files, client, keys, Disturb
  <2>7. FileOrigin'
    <3>1. \A e \in Calls : Resolved(e)' /\ Written(e)' => Resolved(e) /\ Written(e)
      BY <2>1, <2>2 DEF Still, Resolved
    <3> QED BY <3>1, <2>1, <2>4, <1>t, <1>o
  <2>8. CallInv(c)'
    <3>r. ReadRollup(c)' = ReadRollup(c) BY <2>1 DEF ReadRollup, UserConfig
    <3>p. Progress(c) /\ AloneInv(c) /\ PathInv(c) /\ AgreeInv(c) BY <1>p DEF CallInv
    <3>n. ReadRollup(c)' = UserConfig(c) BY <2>1 DEF ReadRollup, UserConfig
    <3>1. Progress(c)'
      BY <3>p, <2>1, <1>u, <1>r, <1>t
         DEF TypeOK, Progress, Resolved, UserConfig, RollupConfig, L1Config
    <3>2. AloneInv(c)' BY <3>r, <3>n, <3>p, <2>1, <1>r DEF Progress, AloneInv
    <3>3. PathInv(c)' BY <3>p, <2>1, <1>r DEF PathInv, ReadRollup, UserConfig
    <3>4. AgreeInv(c)'
      BY <2>1 DEF AgreeInv
    <3> QED BY <3>1, <3>2, <3>3, <3>4 DEF CallInv
  <2> QED BY <2>5, <2>6, <2>7, <2>8 DEF IInv
<1>2. ASSUME NEW c \in Calls, NoOpNode(c) PROVE IInv'
  <2>1. /\ pc[c] = "ensure" /\ provider[c].path = "unusable" /\ pc'[c] = "failed"
        /\ config'[c] = config[c] /\ l1_config'[c] = l1_config[c] /\ chain_id'[c] = chain_id[c]
        /\ hash'[c] = hash[c] /\ client_rollup'[c] = client_rollup[c]
        /\ client_l1'[c] = client_l1[c] /\ key_rollup'[c] = key_rollup[c]
        /\ key_l1'[c] = key_l1[c] /\ overlapped'[c] = overlapped[c] /\ provider' = provider
        /\ UNCHANGED <<rollup, l1>>
    BY <1>2, <1>t DEF NoOpNode, TypeOK, Goto, files, client, keys
  <2>2. \A d \in Calls : d # c => Still(d)
    BY <1>2, <1>t DEF NoOpNode, Still, TypeOK, Goto, files, client, keys
  <2>3. overlapped' = overlapped BY <1>2 DEF NoOpNode
  <2>4. \A e \in Calls : config[e] # Missing => config'[e] = config[e]
    BY <2>1, <2>2 DEF Still
  <2>5. \A d \in Calls : d # c => CallInv(d)' BY <2>1, <2>2, <2>3, <2>4, <1>b
  <2>6. TypeOK'
    BY <1>2, <1>t, <1>p, <1>u, <1>r DEF NoOpNode, CallInv, TypeOK, Progress, Resolved,
       RollupConfig, L1Config, Provider, Goto, files, client, keys, Disturb
  <2>7. FileOrigin'
    <3>1. \A e \in Calls : Resolved(e)' /\ Written(e)' => Resolved(e) /\ Written(e)
      BY <2>1, <2>2 DEF Still, Resolved
    <3> QED BY <3>1, <2>1, <2>4, <1>t, <1>o
  <2>8. CallInv(c)'
    <3>r. ReadRollup(c)' = ReadRollup(c) BY <2>1 DEF ReadRollup, UserConfig
    <3>p. Progress(c) /\ AloneInv(c) /\ PathInv(c) /\ AgreeInv(c) BY <1>p DEF CallInv
    <3>1. Progress(c)'
      BY <3>p, <2>1, <1>u, <1>r, <1>t
         DEF TypeOK, Progress, Resolved, UserConfig, RollupConfig, L1Config
    <3>2. AloneInv(c)' BY <3>r, <3>p, <2>1, <1>r DEF Progress, AloneInv
    <3>3. PathInv(c)' BY <3>p, <2>1, <1>r DEF PathInv, ReadRollup, UserConfig
    <3>4. AgreeInv(c)'
      BY <2>1 DEF AgreeInv
    <3> QED BY <3>1, <3>2, <3>3, <3>4 DEF CallInv
  <2> QED BY <2>5, <2>6, <2>7, <2>8 DEF IInv
<1>3. ASSUME NEW c \in Calls, NEW b \in BOOLEAN, FetchRollup(c, b) PROVE IInv'
  <2>1. /\ pc[c] = "ensure" /\ provider[c].path = "unusable" /\ pc'[c] = "truncate"
        /\ config'[c] = [network |-> provider[c].network, merged |-> b]
        /\ l1_config'[c] = l1_config[c] /\ chain_id'[c] = chain_id[c] /\ hash'[c] = hash[c]
        /\ client_rollup'[c] = client_rollup[c] /\ client_l1'[c] = client_l1[c]
        /\ key_rollup'[c] = key_rollup[c] /\ key_l1'[c] = key_l1[c]
        /\ overlapped'[c] = overlapped[c] /\ provider' = provider /\ UNCHANGED <<rollup, l1>>
    BY <1>3, <1>t DEF FetchRollup, TypeOK, Goto, files, client, keys
  <2>2. \A d \in Calls : d # c => Still(d)
    BY <1>3, <1>t DEF FetchRollup, Still, TypeOK, Goto, files, client, keys
  <2>3. overlapped' = overlapped BY <1>3 DEF FetchRollup
  <2>4. \A e \in Calls : config[e] # Missing => config'[e] = config[e]
    BY <2>1, <2>2, <1>p DEF CallInv, Progress, Still
  <2>5. \A d \in Calls : d # c => CallInv(d)' BY <2>1, <2>2, <2>3, <2>4, <1>b
  <2>6. TypeOK'
    BY <1>3, <1>t, <1>p, <1>u, <1>r DEF FetchRollup, CallInv, TypeOK, Progress, Resolved,
       RollupConfig, L1Config, Provider, Goto, files, client, keys, Disturb
  <2>7. FileOrigin'
    <3>1. \A e \in Calls : Resolved(e)' /\ Written(e)' => Resolved(e) /\ Written(e)
      BY <2>1, <2>2 DEF Still, Resolved
    <3> QED BY <3>1, <2>1, <2>4, <1>t, <1>o
  <2>8. CallInv(c)'
    <3>r. ReadRollup(c)' = ReadRollup(c) BY <2>1 DEF ReadRollup, UserConfig
    <3>p. Progress(c) /\ AloneInv(c) /\ PathInv(c) /\ AgreeInv(c) BY <1>p DEF CallInv
    <3>k. provider[c].network \in Networks BY <1>t DEF TypeOK, Provider
    <3>m. config'[c] \in RollupConfig BY <2>1, <3>k, <1>3 DEF RollupConfig
    <3>1. Progress(c)'
      BY <3>m, <3>p, <2>1, <1>u, <1>r, <1>t
         DEF TypeOK, Progress, Resolved, UserConfig, RollupConfig, L1Config
    <3>2. AloneInv(c)' BY <3>r, <3>p, <2>1, <1>r DEF Progress, AloneInv
    <3>3. PathInv(c)' BY <3>p, <2>1, <1>r DEF PathInv, ReadRollup, UserConfig
    <3>4. AgreeInv(c)'
      BY <2>1 DEF AgreeInv
    <3> QED BY <3>1, <3>2, <3>3, <3>4 DEF CallInv
  <2> QED BY <2>5, <2>6, <2>7, <2>8 DEF IInv
<1>4. ASSUME NEW c \in Calls, Truncate(c) PROVE IInv'
  <2>1. /\ pc[c] = "truncate" /\ pc'[c] = "write" /\ config'[c] = config[c]
        /\ l1_config'[c] = l1_config[c] /\ chain_id'[c] = chain_id[c] /\ hash'[c] = hash[c]
        /\ client_rollup'[c] = client_rollup[c] /\ client_l1'[c] = client_l1[c]
        /\ key_rollup'[c] = key_rollup[c] /\ key_l1'[c] = key_l1[c]
        /\ overlapped'[c] = overlapped[c] /\ provider' = provider /\ rollup' = Torn /\ l1' = l1
    BY <1>4, <1>t DEF Truncate, TypeOK, Goto, files, client, keys, Disturb
  <2>2. \A d \in Calls : d # c => Still(d)
    BY <1>4, <1>t DEF Truncate, Still, TypeOK, Goto, files, client, keys, Disturb
  <2>3. \A d \in Calls : d # c => /\ overlapped[d] => overlapped'[d]
                                  /\ overlapped'[d] \/ pc[d] \in {"ensure", "done", "failed", "hung"}
    BY <1>4, <1>t DEF Truncate, TypeOK, Goto, files, client, keys, Disturb
  <2>4. \A e \in Calls : config[e] # Missing => config'[e] = config[e]
    BY <2>1, <2>2 DEF Still
  <2>5. ASSUME NEW d \in Calls, d # c PROVE CallInv(d)'
    <3>1. Still(d) /\ (overlapped[d] => overlapped'[d]) BY <2>2, <2>3, <2>5
    <3>2. overlapped'[d] \/ pc[d] \in {"ensure", "done", "failed", "hung"} BY <2>3, <2>5
    <3> QED BY <3>1, <3>2, <2>4, <1>b
  <2>6. TypeOK'
    BY <1>4, <1>t, <1>p, <1>u, <1>r DEF Truncate, CallInv, TypeOK, Progress, Resolved,
       RollupConfig, L1Config, Provider, Goto, files, client, keys, Disturb
  <2>7. FileOrigin'
    BY <2>1 DEF FileOrigin
  <2>8. CallInv(c)'
    <3>p. Progress(c) /\ AloneInv(c) /\ PathInv(c) /\ AgreeInv(c) BY <1>p DEF CallInv
    <3>1. Progress(c)'
      BY <3>p, <2>1, <1>u, <1>r, <1>t
         DEF TypeOK, Progress, Resolved, UserConfig, RollupConfig, L1Config
    <3>2. AloneInv(c)' BY <3>p, <2>1, <1>r DEF Progress, AloneInv
    <3>3. PathInv(c)' BY <3>p, <2>1, <1>r DEF PathInv, ReadRollup, UserConfig
    <3>4. AgreeInv(c)'
      BY <2>1 DEF AgreeInv
    <3> QED BY <3>1, <3>2, <3>3, <3>4 DEF CallInv
  <2> QED BY <2>5, <2>6, <2>7, <2>8 DEF IInv
<1>5. ASSUME NEW c \in Calls, Write(c) PROVE IInv'
  <2>1. /\ pc[c] = "write" /\ pc'[c] = "hash" /\ config'[c] = config[c]
        /\ l1_config'[c] = l1_config[c] /\ chain_id'[c] = chain_id[c] /\ hash'[c] = hash[c]
        /\ client_rollup'[c] = client_rollup[c] /\ client_l1'[c] = client_l1[c]
        /\ key_rollup'[c] = key_rollup[c] /\ key_l1'[c] = key_l1[c]
        /\ overlapped'[c] = overlapped[c] /\ provider' = provider
        /\ rollup' = config[c] /\ l1' = l1
    BY <1>5, <1>t DEF Write, TypeOK, Goto, files, client, keys, Disturb
  <2>2. \A d \in Calls : d # c => Still(d)
    BY <1>5, <1>t DEF Write, Still, TypeOK, Goto, files, client, keys, Disturb
  <2>3. \A d \in Calls : d # c => /\ overlapped[d] => overlapped'[d]
                                  /\ overlapped'[d] \/ pc[d] \in {"ensure", "done", "failed", "hung"}
    BY <1>5, <1>t DEF Write, TypeOK, Goto, files, client, keys, Disturb
  <2>4. \A e \in Calls : config[e] # Missing => config'[e] = config[e]
    BY <2>1, <2>2 DEF Still
  <2>5. ASSUME NEW d \in Calls, d # c PROVE CallInv(d)'
    <3>1. Still(d) /\ (overlapped[d] => overlapped'[d]) BY <2>2, <2>3, <2>5
    <3>2. overlapped'[d] \/ pc[d] \in {"ensure", "done", "failed", "hung"} BY <2>3, <2>5
    <3> QED BY <3>1, <3>2, <2>4, <1>b
  <2>6. TypeOK'
    BY <1>5, <1>t, <1>p, <1>u, <1>r DEF Write, CallInv, TypeOK, Progress, Resolved,
       RollupConfig, L1Config, Provider, Goto, files, client, keys, Disturb
  <2>7. FileOrigin'
    <3>1. Resolved(c) BY <2>1, <1>p DEF CallInv, Progress
    <3>2. Resolved(c)' BY <2>1, <3>1 DEF Resolved
    <3> QED BY <2>1, <3>2 DEF FileOrigin
  <2>8. CallInv(c)'
    <3>r. provider[c].path # "valid" BY <2>1, <1>p DEF CallInv, Progress, Resolved
    <3>s. ReadRollup(c)' = config[c] BY <2>1, <3>r DEF ReadRollup
    <3>p. Progress(c) /\ AloneInv(c) /\ PathInv(c) /\ AgreeInv(c) BY <1>p DEF CallInv
    <3>1. Progress(c)'
      BY <3>p, <2>1, <1>u, <1>r, <1>t
         DEF TypeOK, Progress, Resolved, UserConfig, RollupConfig, L1Config
    <3>2. AloneInv(c)' BY <3>r, <3>s, <3>p, <2>1, <1>r DEF Progress, AloneInv
    <3>3. PathInv(c)' BY <3>p, <2>1, <1>r DEF PathInv, ReadRollup, UserConfig
    <3>4. AgreeInv(c)'
      BY <2>1 DEF AgreeInv
    <3> QED BY <3>1, <3>2, <3>3, <3>4 DEF CallInv
  <2> QED BY <2>5, <2>6, <2>7, <2>8 DEF IInv
<1>6. ASSUME NEW c \in Calls, Hash(c) PROVE IInv'
  <2>1. /\ pc[c] = "hash" /\ ReadRollup(c) # Torn /\ pc'[c] = "reread" /\ config'[c] = config[c]
        /\ l1_config'[c] = l1_config[c] /\ chain_id'[c] = chain_id[c] /\ hash'[c] = ReadRollup(c)
        /\ client_rollup'[c] = client_rollup[c] /\ client_l1'[c] = client_l1[c]
        /\ key_rollup'[c] = key_rollup[c] /\ key_l1'[c] = key_l1[c]
        /\ overlapped'[c] = overlapped[c] /\ provider' = provider /\ UNCHANGED <<rollup, l1>>
    BY <1>6, <1>t DEF Hash, TypeOK, Goto, files, client, keys
  <2>2. \A d \in Calls : d # c => Still(d)
    BY <1>6, <1>t DEF Hash, Still, TypeOK, Goto, files, client, keys
  <2>3. overlapped' = overlapped BY <1>6 DEF Hash
  <2>4. \A e \in Calls : config[e] # Missing => config'[e] = config[e]
    BY <2>1, <2>2 DEF Still
  <2>5. \A d \in Calls : d # c => CallInv(d)' BY <2>1, <2>2, <2>3, <2>4, <1>b
  <2>6. TypeOK'
    BY <1>6, <1>t, <1>p, <1>u, <1>r DEF Hash, CallInv, TypeOK, Progress, Resolved,
       RollupConfig, L1Config, Provider, Goto, files, client, keys, Disturb
  <2>7. FileOrigin'
    <3>1. \A e \in Calls : Resolved(e)' /\ Written(e)' => Resolved(e) /\ Written(e)
      BY <2>1, <2>2 DEF Still, Resolved
    <3> QED BY <3>1, <2>1, <2>4, <1>t, <1>o
  <2>8. CallInv(c)'
    <3>r. ReadRollup(c)' = ReadRollup(c) BY <2>1 DEF ReadRollup, UserConfig
    <3>p. Progress(c) /\ AloneInv(c) /\ PathInv(c) /\ AgreeInv(c) BY <1>p DEF CallInv
    <3>1. Progress(c)'
      BY <3>p, <2>1, <1>u, <1>r, <1>t
         DEF TypeOK, Progress, Resolved, UserConfig, RollupConfig, L1Config
    <3>2. AloneInv(c)' BY <3>r, <3>p, <2>1, <1>r DEF Progress, AloneInv
    <3>3. PathInv(c)' BY <3>p, <2>1, <1>r DEF PathInv, ReadRollup, UserConfig
    <3>4. AgreeInv(c)'
      <4> SUFFICES ASSUME Resolved(c)', \A e \in Calls : Resolved(e)' => config'[e] = config'[c]
                   PROVE  AgreeInv(c)'
        BY DEF AgreeInv
      <4>1. Resolved(c) BY <2>1 DEF Resolved
      <4>2. \A e \in Calls : Resolved(e) => config[e] = config[c] BY <2>1, <2>4 DEF Resolved
      <4>3. ReadRollup(c) \in {config[c], Torn}
        BY <4>1, <4>2, <1>t, <2>1 DEF FileOrigin, ReadRollup, Resolved
      <4> QED BY <4>1, <4>2, <4>3, <3>p, <2>1 DEF AgreeInv
    <3> QED BY <3>1, <3>2, <3>3, <3>4 DEF CallInv
  <2> QED BY <2>5, <2>6, <2>7, <2>8 DEF IInv
<1>7. ASSUME NEW c \in Calls, Reread(c) PROVE IInv'
  <2>1. /\ pc[c] = "reread" /\ ReadRollup(c) # Torn /\ pc'[c] = "l1" /\ config'[c] = config[c]
        /\ l1_config'[c] = l1_config[c] /\ chain_id'[c] = L1ChainId(ReadRollup(c))
        /\ hash'[c] = hash[c] /\ client_rollup'[c] = client_rollup[c]
        /\ client_l1'[c] = client_l1[c] /\ key_rollup'[c] = key_rollup[c]
        /\ key_l1'[c] = key_l1[c] /\ overlapped'[c] = overlapped[c] /\ provider' = provider
        /\ UNCHANGED <<rollup, l1>>
    BY <1>7, <1>t DEF Reread, TypeOK, Goto, files, client, keys
  <2>2. \A d \in Calls : d # c => Still(d)
    BY <1>7, <1>t DEF Reread, Still, TypeOK, Goto, files, client, keys
  <2>3. overlapped' = overlapped BY <1>7 DEF Reread
  <2>4. \A e \in Calls : config[e] # Missing => config'[e] = config[e]
    BY <2>1, <2>2 DEF Still
  <2>5. \A d \in Calls : d # c => CallInv(d)' BY <2>1, <2>2, <2>3, <2>4, <1>b
  <2>6. TypeOK'
    <3>1. L1ChainId(ReadRollup(c)) \in Networks BY <2>1, <1>l, <1>r
    <3> QED BY <3>1, <1>7, <1>t DEF Reread, TypeOK, Goto, files, client, keys
  <2>7. FileOrigin'
    <3>1. \A e \in Calls : Resolved(e)' /\ Written(e)' => Resolved(e) /\ Written(e)
      BY <2>1, <2>2 DEF Still, Resolved
    <3> QED BY <3>1, <2>1, <2>4, <1>t, <1>o
  <2>8. CallInv(c)'
    <3>r. ReadRollup(c)' = ReadRollup(c) BY <2>1 DEF ReadRollup, UserConfig
    <3>p. Progress(c) /\ AloneInv(c) /\ PathInv(c) /\ AgreeInv(c) BY <1>p DEF CallInv
    <3>m. chain_id'[c] \in Networks BY <2>1, <1>l, <1>r
    <3>1. Progress(c)'
      BY <3>m, <3>p, <2>1, <1>u, <1>r, <1>t
         DEF TypeOK, Progress, Resolved, UserConfig, RollupConfig, L1Config
    <3>2. AloneInv(c)' BY <3>r, <3>p, <2>1, <1>r DEF Progress, AloneInv
    <3>3. PathInv(c)' BY <3>p, <2>1, <1>r DEF PathInv, ReadRollup, UserConfig
    <3>4. AgreeInv(c)'
      <4> SUFFICES ASSUME Resolved(c)', \A e \in Calls : Resolved(e)' => config'[e] = config'[c]
                   PROVE  AgreeInv(c)'
        BY DEF AgreeInv
      <4>1. Resolved(c) BY <2>1 DEF Resolved
      <4>2. \A e \in Calls : Resolved(e) => config[e] = config[c] BY <2>1, <2>4 DEF Resolved
      <4>3. ReadRollup(c) \in {config[c], Torn}
        BY <4>1, <4>2, <1>t, <2>1 DEF FileOrigin, ReadRollup, Resolved
      <4> QED BY <4>1, <4>2, <4>3, <3>p, <2>1 DEF AgreeInv
    <3> QED BY <3>1, <3>2, <3>3, <3>4 DEF CallInv
  <2> QED BY <2>5, <2>6, <2>7, <2>8 DEF IInv
<1>8. ASSUME NEW c \in Calls, NEW b \in BOOLEAN, FetchL1(c, b) PROVE IInv'
  <2>1. /\ pc[c] = "l1" /\ pc'[c] = "truncate l1" /\ config'[c] = config[c]
        /\ l1_config'[c] = [network |-> IF b THEN chain_id[c] ELSE provider[c].network, default |-> b]
        /\ chain_id'[c] = chain_id[c] /\ hash'[c] = hash[c]
        /\ client_rollup'[c] = client_rollup[c] /\ client_l1'[c] = client_l1[c]
        /\ key_rollup'[c] = key_rollup[c] /\ key_l1'[c] = key_l1[c]
        /\ overlapped'[c] = overlapped[c] /\ provider' = provider /\ UNCHANGED <<rollup, l1>>
    BY <1>8, <1>t DEF FetchL1, TypeOK, Goto, files, client, keys
  <2>2. \A d \in Calls : d # c => Still(d)
    BY <1>8, <1>t DEF FetchL1, Still, TypeOK, Goto, files, client, keys
  <2>3. overlapped' = overlapped BY <1>8 DEF FetchL1
  <2>4. \A e \in Calls : config[e] # Missing => config'[e] = config[e]
    BY <2>1, <2>2 DEF Still
  <2>5. \A d \in Calls : d # c => CallInv(d)' BY <2>1, <2>2, <2>3, <2>4, <1>b
  <2>6. TypeOK'
    BY <1>8, <1>t, <1>p, <1>u, <1>r DEF FetchL1, CallInv, TypeOK, Progress, Resolved,
       RollupConfig, L1Config, Provider, Goto, files, client, keys, Disturb
  <2>7. FileOrigin'
    <3>1. \A e \in Calls : Resolved(e)' /\ Written(e)' => Resolved(e) /\ Written(e)
      BY <2>1, <2>2 DEF Still, Resolved
    <3> QED BY <3>1, <2>1, <2>4, <1>t, <1>o
  <2>8. CallInv(c)'
    <3>r. ReadRollup(c)' = ReadRollup(c) BY <2>1 DEF ReadRollup, UserConfig
    <3>p. Progress(c) /\ AloneInv(c) /\ PathInv(c) /\ AgreeInv(c) BY <1>p DEF CallInv
    <3>l. chain_id[c] \in Networks BY <2>1, <3>p, <1>t DEF TypeOK, Progress
    <3>k. provider[c].network \in Networks BY <1>t DEF TypeOK, Provider
    <3>m. l1_config'[c] \in L1Config
      <4>1. ASSUME NEW n \in Networks PROVE [network |-> n, default |-> b] \in L1Config
        BY <1>8, <4>1 DEF L1Config
      <4>2. PICK n \in Networks : n = IF b THEN chain_id[c] ELSE provider[c].network BY <3>l, <3>k
      <4> QED BY <4>1, <4>2, <2>1
    <3>1. Progress(c)'
      BY <3>m, <3>p, <2>1, <1>u, <1>r, <1>t
         DEF TypeOK, Progress, Resolved, UserConfig, RollupConfig, L1Config
    <3>2. AloneInv(c)' BY <3>r, <3>p, <2>1, <1>r DEF Progress, AloneInv
    <3>3. PathInv(c)' BY <3>p, <2>1, <1>r DEF PathInv, ReadRollup, UserConfig
    <3>4. AgreeInv(c)'
      <4> SUFFICES ASSUME Resolved(c)', \A e \in Calls : Resolved(e)' => config'[e] = config'[c]
                   PROVE  AgreeInv(c)'
        BY DEF AgreeInv
      <4>1. Resolved(c) BY <2>1 DEF Resolved
      <4>2. \A e \in Calls : Resolved(e) => config[e] = config[c] BY <2>1, <2>4 DEF Resolved
      <4>3. ReadRollup(c) \in {config[c], Torn}
        BY <4>1, <4>2, <1>t, <2>1 DEF FileOrigin, ReadRollup, Resolved
      <4> QED BY <4>1, <4>2, <4>3, <3>p, <2>1 DEF AgreeInv
    <3> QED BY <3>1, <3>2, <3>3, <3>4 DEF CallInv
  <2> QED BY <2>5, <2>6, <2>7, <2>8 DEF IInv
<1>9. ASSUME NEW c \in Calls, TruncateL1(c) PROVE IInv'
  <2>1. /\ pc[c] = "truncate l1" /\ pc'[c] = "write l1" /\ config'[c] = config[c]
        /\ l1_config'[c] = l1_config[c] /\ chain_id'[c] = chain_id[c] /\ hash'[c] = hash[c]
        /\ client_rollup'[c] = client_rollup[c] /\ client_l1'[c] = client_l1[c]
        /\ key_rollup'[c] = key_rollup[c] /\ key_l1'[c] = key_l1[c]
        /\ overlapped'[c] = overlapped[c] /\ provider' = provider
        /\ l1' = Torn /\ rollup' = rollup
    BY <1>9, <1>t DEF TruncateL1, TypeOK, Goto, files, client, keys, Disturb
  <2>2. \A d \in Calls : d # c => Still(d)
    BY <1>9, <1>t DEF TruncateL1, Still, TypeOK, Goto, files, client, keys, Disturb
  <2>3. \A d \in Calls : d # c => /\ overlapped[d] => overlapped'[d]
                                  /\ overlapped'[d] \/ pc[d] \in {"ensure", "done", "failed", "hung"}
    BY <1>9, <1>t DEF TruncateL1, TypeOK, Goto, files, client, keys, Disturb
  <2>4. \A e \in Calls : config[e] # Missing => config'[e] = config[e]
    BY <2>1, <2>2 DEF Still
  <2>5. ASSUME NEW d \in Calls, d # c PROVE CallInv(d)'
    <3>1. Still(d) /\ (overlapped[d] => overlapped'[d]) BY <2>2, <2>3, <2>5
    <3>2. overlapped'[d] \/ pc[d] \in {"ensure", "done", "failed", "hung"} BY <2>3, <2>5
    <3> QED BY <3>1, <3>2, <2>4, <1>b
  <2>6. TypeOK'
    BY <1>9, <1>t, <1>p, <1>u, <1>r DEF TruncateL1, CallInv, TypeOK, Progress, Resolved,
       RollupConfig, L1Config, Provider, Goto, files, client, keys, Disturb
  <2>7. FileOrigin'
    <3>1. \A e \in Calls : Resolved(e)' /\ Written(e)' => Resolved(e) /\ Written(e)
      BY <2>1, <2>2 DEF Still, Resolved
    <3> QED BY <3>1, <2>1, <2>4, <1>t, <1>o
  <2>8. CallInv(c)'
    <3>r. ReadRollup(c)' = ReadRollup(c) BY <2>1 DEF ReadRollup, UserConfig
    <3>p. Progress(c) /\ AloneInv(c) /\ PathInv(c) /\ AgreeInv(c) BY <1>p DEF CallInv
    <3>1. Progress(c)'
      BY <3>p, <2>1, <1>u, <1>r, <1>t
         DEF TypeOK, Progress, Resolved, UserConfig, RollupConfig, L1Config
    <3>2. AloneInv(c)' BY <3>r, <3>p, <2>1, <1>r DEF Progress, AloneInv
    <3>3. PathInv(c)' BY <3>p, <2>1, <1>r DEF PathInv, ReadRollup, UserConfig
    <3>4. AgreeInv(c)'
      <4> SUFFICES ASSUME Resolved(c)', \A e \in Calls : Resolved(e)' => config'[e] = config'[c]
                   PROVE  AgreeInv(c)'
        BY DEF AgreeInv
      <4>1. Resolved(c) BY <2>1 DEF Resolved
      <4>2. \A e \in Calls : Resolved(e) => config[e] = config[c] BY <2>1, <2>4 DEF Resolved
      <4>3. ReadRollup(c) \in {config[c], Torn}
        BY <4>1, <4>2, <1>t, <2>1 DEF FileOrigin, ReadRollup, Resolved
      <4> QED BY <4>1, <4>2, <4>3, <3>p, <2>1 DEF AgreeInv
    <3> QED BY <3>1, <3>2, <3>3, <3>4 DEF CallInv
  <2> QED BY <2>5, <2>6, <2>7, <2>8 DEF IInv
<1>10. ASSUME NEW c \in Calls, WriteL1(c) PROVE IInv'
  <2>1. /\ pc[c] = "write l1" /\ pc'[c] = "verify" /\ config'[c] = config[c]
        /\ l1_config'[c] = l1_config[c] /\ chain_id'[c] = chain_id[c] /\ hash'[c] = hash[c]
        /\ client_rollup'[c] = client_rollup[c] /\ client_l1'[c] = client_l1[c]
        /\ key_rollup'[c] = key_rollup[c] /\ key_l1'[c] = key_l1[c]
        /\ overlapped'[c] = overlapped[c] /\ provider' = provider
        /\ l1' = l1_config[c] /\ rollup' = rollup
    BY <1>10, <1>t DEF WriteL1, TypeOK, Goto, files, client, keys, Disturb
  <2>2. \A d \in Calls : d # c => Still(d)
    BY <1>10, <1>t DEF WriteL1, Still, TypeOK, Goto, files, client, keys, Disturb
  <2>3. \A d \in Calls : d # c => /\ overlapped[d] => overlapped'[d]
                                  /\ overlapped'[d] \/ pc[d] \in {"ensure", "done", "failed", "hung"}
    BY <1>10, <1>t DEF WriteL1, TypeOK, Goto, files, client, keys, Disturb
  <2>4. \A e \in Calls : config[e] # Missing => config'[e] = config[e]
    BY <2>1, <2>2 DEF Still
  <2>5. ASSUME NEW d \in Calls, d # c PROVE CallInv(d)'
    <3>1. Still(d) /\ (overlapped[d] => overlapped'[d]) BY <2>2, <2>3, <2>5
    <3>2. overlapped'[d] \/ pc[d] \in {"ensure", "done", "failed", "hung"} BY <2>3, <2>5
    <3> QED BY <3>1, <3>2, <2>4, <1>b
  <2>6. TypeOK'
    BY <1>10, <1>t, <1>p, <1>u, <1>r DEF WriteL1, CallInv, TypeOK, Progress, Resolved,
       RollupConfig, L1Config, Provider, Goto, files, client, keys, Disturb
  <2>7. FileOrigin'
    <3>1. \A e \in Calls : Resolved(e)' /\ Written(e)' => Resolved(e) /\ Written(e)
      BY <2>1, <2>2 DEF Still, Resolved
    <3> QED BY <3>1, <2>1, <2>4, <1>t, <1>o
  <2>8. CallInv(c)'
    <3>r. ReadRollup(c)' = ReadRollup(c) BY <2>1 DEF ReadRollup, UserConfig
    <3>p. Progress(c) /\ AloneInv(c) /\ PathInv(c) /\ AgreeInv(c) BY <1>p DEF CallInv
    <3>1. Progress(c)'
      BY <3>p, <2>1, <1>u, <1>r, <1>t
         DEF TypeOK, Progress, Resolved, UserConfig, RollupConfig, L1Config
    <3>2. AloneInv(c)' BY <3>r, <3>p, <2>1, <1>r DEF Progress, AloneInv
    <3>3. PathInv(c)' BY <3>p, <2>1, <1>r DEF PathInv, ReadRollup, UserConfig
    <3>4. AgreeInv(c)'
      <4> SUFFICES ASSUME Resolved(c)', \A e \in Calls : Resolved(e)' => config'[e] = config'[c]
                   PROVE  AgreeInv(c)'
        BY DEF AgreeInv
      <4>1. Resolved(c) BY <2>1 DEF Resolved
      <4>2. \A e \in Calls : Resolved(e) => config[e] = config[c] BY <2>1, <2>4 DEF Resolved
      <4>3. ReadRollup(c) \in {config[c], Torn}
        BY <4>1, <4>2, <1>t, <2>1 DEF FileOrigin, ReadRollup, Resolved
      <4> QED BY <4>1, <4>2, <4>3, <3>p, <2>1 DEF AgreeInv
    <3> QED BY <3>1, <3>2, <3>3, <3>4 DEF CallInv
  <2> QED BY <2>5, <2>6, <2>7, <2>8 DEF IInv
<1>11. ASSUME NEW c \in Calls, Verify(c) PROVE IInv'
  <2>1. /\ pc[c] = "verify" /\ pc'[c] = "client rollup" /\ config'[c] = config[c]
        /\ l1_config'[c] = l1_config[c] /\ chain_id'[c] = chain_id[c] /\ hash'[c] = hash[c]
        /\ client_rollup'[c] = client_rollup[c] /\ client_l1'[c] = client_l1[c]
        /\ key_rollup'[c] = key_rollup[c] /\ key_l1'[c] = key_l1[c]
        /\ overlapped'[c] = overlapped[c] /\ provider' = provider /\ UNCHANGED <<rollup, l1>>
    BY <1>11, <1>t DEF Verify, TypeOK, Goto, files, client, keys
  <2>2. \A d \in Calls : d # c => Still(d)
    BY <1>11, <1>t DEF Verify, Still, TypeOK, Goto, files, client, keys
  <2>3. overlapped' = overlapped BY <1>11 DEF Verify
  <2>4. \A e \in Calls : config[e] # Missing => config'[e] = config[e]
    BY <2>1, <2>2 DEF Still
  <2>5. \A d \in Calls : d # c => CallInv(d)' BY <2>1, <2>2, <2>3, <2>4, <1>b
  <2>6. TypeOK'
    BY <1>11, <1>t, <1>p, <1>u, <1>r DEF Verify, CallInv, TypeOK, Progress, Resolved,
       RollupConfig, L1Config, Provider, Goto, files, client, keys, Disturb
  <2>7. FileOrigin'
    <3>1. \A e \in Calls : Resolved(e)' /\ Written(e)' => Resolved(e) /\ Written(e)
      BY <2>1, <2>2 DEF Still, Resolved
    <3> QED BY <3>1, <2>1, <2>4, <1>t, <1>o
  <2>8. CallInv(c)'
    <3>r. ReadRollup(c)' = ReadRollup(c) BY <2>1 DEF ReadRollup, UserConfig
    <3>p. Progress(c) /\ AloneInv(c) /\ PathInv(c) /\ AgreeInv(c) BY <1>p DEF CallInv
    <3>1. Progress(c)'
      BY <3>p, <2>1, <1>u, <1>r, <1>t
         DEF TypeOK, Progress, Resolved, UserConfig, RollupConfig, L1Config
    <3>2. AloneInv(c)' BY <3>r, <3>p, <2>1, <1>r DEF Progress, AloneInv
    <3>3. PathInv(c)' BY <3>p, <2>1, <1>r DEF PathInv, ReadRollup, UserConfig
    <3>4. AgreeInv(c)'
      <4> SUFFICES ASSUME Resolved(c)', \A e \in Calls : Resolved(e)' => config'[e] = config'[c]
                   PROVE  AgreeInv(c)'
        BY DEF AgreeInv
      <4>1. Resolved(c) BY <2>1 DEF Resolved
      <4>2. \A e \in Calls : Resolved(e) => config[e] = config[c] BY <2>1, <2>4 DEF Resolved
      <4>3. ReadRollup(c) \in {config[c], Torn}
        BY <4>1, <4>2, <1>t, <2>1 DEF FileOrigin, ReadRollup, Resolved
      <4> QED BY <4>1, <4>2, <4>3, <3>p, <2>1 DEF AgreeInv
    <3> QED BY <3>1, <3>2, <3>3, <3>4 DEF CallInv
  <2> QED BY <2>5, <2>6, <2>7, <2>8 DEF IInv
<1>12. ASSUME NEW c \in Calls, ClientRollup(c) PROVE IInv'
  <2>1. /\ pc[c] = "client rollup"
        /\ pc'[c] = (IF ReadRollup(c) = Torn THEN "hung" ELSE "client l1")
        /\ config'[c] = config[c] /\ l1_config'[c] = l1_config[c] /\ chain_id'[c] = chain_id[c]
        /\ hash'[c] = hash[c]
        /\ client_rollup'[c] = (IF ReadRollup(c) = Torn THEN client_rollup[c] ELSE ReadRollup(c))
        /\ client_l1'[c] = client_l1[c] /\ key_rollup'[c] = key_rollup[c]
        /\ key_l1'[c] = key_l1[c] /\ overlapped'[c] = overlapped[c] /\ provider' = provider
        /\ UNCHANGED <<rollup, l1>>
    BY <1>12, <1>t DEF ClientRollup, TypeOK, Goto, files, client, keys
  <2>2. \A d \in Calls : d # c => Still(d)
    BY <1>12, <1>t DEF ClientRollup, Still, TypeOK, Goto, files, client, keys
  <2>3. overlapped' = overlapped BY <1>12 DEF ClientRollup
  <2>4. \A e \in Calls : config[e] # Missing => config'[e] = config[e]
    BY <2>1, <2>2 DEF Still
  <2>5. \A d \in Calls : d # c => CallInv(d)' BY <2>1, <2>2, <2>3, <2>4, <1>b
  <2>6. TypeOK'
    <3>1. client_rollup' \in [Calls -> RollupConfig \union {Missing}]
      <4>1. CASE ReadRollup(c) = Torn BY <4>1, <1>12, <1>t DEF TypeOK, ClientRollup
      <4>2. CASE ReadRollup(c) # Torn
        <5>1. ReadRollup(c) \in RollupConfig BY <4>2, <1>r, <1>t DEF TypeOK
        <5>2. client_rollup' = [client_rollup EXCEPT ![c] = ReadRollup(c)]
          BY <4>2, <1>12 DEF ClientRollup
        <5> QED BY <5>1, <5>2, <1>t DEF TypeOK
      <4> QED BY <4>1, <4>2
    <3>2. pc' = [pc EXCEPT ![c] = IF ReadRollup(c) = Torn THEN "hung" ELSE "client l1"]
      BY <1>12 DEF ClientRollup, Goto
    <3>3. pc'[c] \in PastWrite \union Ended BY <2>1
    <3>4. pc' \in [Calls -> {"ensure", "truncate", "write"} \union PastWrite \union Ended]
      BY <3>2, <3>3, <1>t DEF TypeOK
    <3>5. UNCHANGED <<files, provider, config, l1_config, chain_id, hash, client_l1, keys, overlapped>>
      BY <1>12 DEF ClientRollup
    <3> QED BY <3>1, <3>4, <3>5, <1>t DEF TypeOK, files, keys
  <2>7. FileOrigin'
    <3>1. \A e \in Calls : Resolved(e)' /\ Written(e)' => Resolved(e) /\ Written(e)
      BY <2>1, <2>2 DEF Still, Resolved
    <3> QED BY <3>1, <2>1, <2>4, <1>t, <1>o
  <2>8. CallInv(c)'
    <3>r. ReadRollup(c)' = ReadRollup(c) BY <2>1 DEF ReadRollup, UserConfig
    <3>p. Progress(c) /\ AloneInv(c) /\ PathInv(c) /\ AgreeInv(c) BY <1>p DEF CallInv
    <3>c. config[c] \in RollupConfig BY <2>1, <3>p, <1>t DEF TypeOK, Progress
    <3>n. ~ overlapped[c] => ReadRollup(c) = config[c] /\ ReadRollup(c) # Torn
      BY <2>1, <3>c, <3>p DEF AloneInv
    <3>v. provider[c].path = "valid" => ReadRollup(c) = UserConfig(c) /\ ReadRollup(c) # Torn
      BY <1>u DEF ReadRollup
    <3>1. Progress(c)'
      BY <3>p, <2>1, <1>u, <1>r, <1>t
         DEF TypeOK, Progress, Resolved, UserConfig, RollupConfig, L1Config
    <3>2. AloneInv(c)' BY <3>r, <3>n, <3>p, <2>1, <1>r DEF Progress, AloneInv
    <3>3. PathInv(c)' BY <3>v, <3>p, <2>1 DEF PathInv, UserConfig
    <3>4. AgreeInv(c)'
      <4> SUFFICES ASSUME Resolved(c)', \A e \in Calls : Resolved(e)' => config'[e] = config'[c]
                   PROVE  AgreeInv(c)'
        BY DEF AgreeInv
      <4>1. Resolved(c) BY <2>1 DEF Resolved
      <4>2. \A e \in Calls : Resolved(e) => config[e] = config[c] BY <2>1, <2>4 DEF Resolved
      <4>3. ReadRollup(c) \in {config[c], Torn}
        BY <4>1, <4>2, <1>t, <2>1 DEF FileOrigin, ReadRollup, Resolved
      <4> QED BY <4>1, <4>2, <4>3, <3>p, <2>1 DEF AgreeInv
    <3> QED BY <3>1, <3>2, <3>3, <3>4 DEF CallInv
  <2> QED BY <2>5, <2>6, <2>7, <2>8 DEF IInv
<1>13. ASSUME NEW c \in Calls, ClientL1(c) PROVE IInv'
  <2>1. /\ pc[c] = "client l1"
        /\ pc'[c] = (IF l1 = Torn THEN "hung" ELSE "keys rollup")
        /\ config'[c] = config[c] /\ l1_config'[c] = l1_config[c] /\ chain_id'[c] = chain_id[c]
        /\ hash'[c] = hash[c] /\ client_rollup'[c] = client_rollup[c]
        /\ client_l1'[c] = (IF l1 = Torn THEN client_l1[c] ELSE l1)
        /\ key_rollup'[c] = key_rollup[c] /\ key_l1'[c] = key_l1[c]
        /\ overlapped'[c] = overlapped[c] /\ provider' = provider /\ UNCHANGED <<rollup, l1>>
    BY <1>13, <1>t DEF ClientL1, TypeOK, Goto, files, client, keys
  <2>2. \A d \in Calls : d # c => Still(d)
    BY <1>13, <1>t DEF ClientL1, Still, TypeOK, Goto, files, client, keys
  <2>3. overlapped' = overlapped BY <1>13 DEF ClientL1
  <2>4. \A e \in Calls : config[e] # Missing => config'[e] = config[e]
    BY <2>1, <2>2 DEF Still
  <2>5. \A d \in Calls : d # c => CallInv(d)' BY <2>1, <2>2, <2>3, <2>4, <1>b
  <2>6. TypeOK'
    <3>1. client_l1' \in [Calls -> L1Config \union {Missing}]
      <4>1. CASE l1 = Torn BY <4>1, <1>13, <1>t DEF TypeOK, ClientL1
      <4>2. CASE l1 # Torn
        <5>1. l1 \in L1Config BY <4>2, <1>r, <1>t DEF TypeOK
        <5>2. client_l1' = [client_l1 EXCEPT ![c] = l1] BY <4>2, <1>13 DEF ClientL1
        <5> QED BY <5>1, <5>2, <1>t DEF TypeOK
      <4> QED BY <4>1, <4>2
    <3>2. pc' = [pc EXCEPT ![c] = IF l1 = Torn THEN "hung" ELSE "keys rollup"]
      BY <1>13 DEF ClientL1, Goto
    <3>3. pc'[c] \in PastWrite \union Ended BY <2>1
    <3>4. pc' \in [Calls -> {"ensure", "truncate", "write"} \union PastWrite \union Ended]
      BY <3>2, <3>3, <1>t DEF TypeOK
    <3>5. UNCHANGED <<files, provider, config, l1_config, chain_id, hash, client_rollup, keys, overlapped>>
      BY <1>13 DEF ClientL1
    <3> QED BY <3>1, <3>4, <3>5, <1>t DEF TypeOK, files, keys
  <2>7. FileOrigin'
    <3>1. \A e \in Calls : Resolved(e)' /\ Written(e)' => Resolved(e) /\ Written(e)
      BY <2>1, <2>2 DEF Still, Resolved
    <3> QED BY <3>1, <2>1, <2>4, <1>t, <1>o
  <2>8. CallInv(c)'
    <3>r. ReadRollup(c)' = ReadRollup(c) BY <2>1 DEF ReadRollup, UserConfig
    <3>p. Progress(c) /\ AloneInv(c) /\ PathInv(c) /\ AgreeInv(c) BY <1>p DEF CallInv
    <3>c. l1_config[c] \in L1Config BY <2>1, <3>p, <1>t DEF TypeOK, Progress
    <3>n. ~ overlapped[c] => l1 = l1_config[c] /\ l1 # Torn
      BY <2>1, <3>c, <3>p DEF AloneInv
    <3>1. Progress(c)'
      BY <3>p, <2>1, <1>u, <1>r, <1>t
         DEF TypeOK, Progress, Resolved, UserConfig, RollupConfig, L1Config
    <3>2. AloneInv(c)' BY <3>r, <3>n, <3>p, <2>1, <1>r DEF Progress, AloneInv
    <3>3. PathInv(c)' BY <3>p, <2>1, <1>r DEF PathInv, ReadRollup, UserConfig
    <3>4. AgreeInv(c)'
      <4> SUFFICES ASSUME Resolved(c)', \A e \in Calls : Resolved(e)' => config'[e] = config'[c]
                   PROVE  AgreeInv(c)'
        BY DEF AgreeInv
      <4>1. Resolved(c) BY <2>1 DEF Resolved
      <4>2. \A e \in Calls : Resolved(e) => config[e] = config[c] BY <2>1, <2>4 DEF Resolved
      <4>3. ReadRollup(c) \in {config[c], Torn}
        BY <4>1, <4>2, <1>t, <2>1 DEF FileOrigin, ReadRollup, Resolved
      <4> QED BY <4>1, <4>2, <4>3, <3>p, <2>1 DEF AgreeInv
    <3> QED BY <3>1, <3>2, <3>3, <3>4 DEF CallInv
  <2> QED BY <2>5, <2>6, <2>7, <2>8 DEF IInv
<1>14. ASSUME NEW c \in Calls, KeyRollup(c) PROVE IInv'
  <2>1. /\ pc[c] = "keys rollup" /\ pc'[c] = "keys l1" /\ config'[c] = config[c]
        /\ l1_config'[c] = l1_config[c] /\ chain_id'[c] = chain_id[c] /\ hash'[c] = hash[c]
        /\ client_rollup'[c] = client_rollup[c] /\ client_l1'[c] = client_l1[c]
        /\ key_rollup'[c] = (IF ReadRollup(c) = Torn THEN Missing ELSE ReadRollup(c))
        /\ key_l1'[c] = key_l1[c] /\ overlapped'[c] = overlapped[c] /\ provider' = provider
        /\ UNCHANGED <<rollup, l1>>
    BY <1>14, <1>t DEF KeyRollup, TypeOK, Goto, files, client, keys
  <2>2. \A d \in Calls : d # c => Still(d)
    BY <1>14, <1>t DEF KeyRollup, Still, TypeOK, Goto, files, client, keys
  <2>3. overlapped' = overlapped BY <1>14 DEF KeyRollup
  <2>4. \A e \in Calls : config[e] # Missing => config'[e] = config[e]
    BY <2>1, <2>2 DEF Still
  <2>5. \A d \in Calls : d # c => CallInv(d)' BY <2>1, <2>2, <2>3, <2>4, <1>b
  <2>6. TypeOK'
    BY <1>14, <1>t, <1>p, <1>u, <1>r DEF KeyRollup, CallInv, TypeOK, Progress, Resolved,
       RollupConfig, L1Config, Provider, Goto, files, client, keys, Disturb
  <2>7. FileOrigin'
    <3>1. \A e \in Calls : Resolved(e)' /\ Written(e)' => Resolved(e) /\ Written(e)
      BY <2>1, <2>2 DEF Still, Resolved
    <3> QED BY <3>1, <2>1, <2>4, <1>t, <1>o
  <2>8. CallInv(c)'
    <3>r. ReadRollup(c)' = ReadRollup(c) BY <2>1 DEF ReadRollup, UserConfig
    <3>p. Progress(c) /\ AloneInv(c) /\ PathInv(c) /\ AgreeInv(c) BY <1>p DEF CallInv
    <3>c. config[c] \in RollupConfig BY <2>1, <3>p, <1>t DEF TypeOK, Progress
    <3>n. ~ overlapped[c] => ReadRollup(c) = config[c] /\ ReadRollup(c) # Torn
      BY <2>1, <3>c, <3>p DEF AloneInv
    <3>v. provider[c].path = "valid" => ReadRollup(c) = UserConfig(c) /\ ReadRollup(c) # Torn
      BY <1>u DEF ReadRollup
    <3>1. Progress(c)'
      BY <3>p, <2>1, <1>u, <1>r, <1>t
         DEF TypeOK, Progress, Resolved, UserConfig, RollupConfig, L1Config
    <3>2. AloneInv(c)' BY <3>r, <3>n, <3>p, <2>1, <1>r DEF Progress, AloneInv
    <3>3. PathInv(c)' BY <3>v, <3>p, <2>1 DEF PathInv, UserConfig
    <3>4. AgreeInv(c)'
      <4> SUFFICES ASSUME Resolved(c)', \A e \in Calls : Resolved(e)' => config'[e] = config'[c]
                   PROVE  AgreeInv(c)'
        BY DEF AgreeInv
      <4>1. Resolved(c) BY <2>1 DEF Resolved
      <4>2. \A e \in Calls : Resolved(e) => config[e] = config[c] BY <2>1, <2>4 DEF Resolved
      <4>3. ReadRollup(c) \in {config[c], Torn}
        BY <4>1, <4>2, <1>t, <2>1 DEF FileOrigin, ReadRollup, Resolved
      <4> QED BY <4>1, <4>2, <4>3, <3>p, <2>1 DEF AgreeInv
    <3> QED BY <3>1, <3>2, <3>3, <3>4 DEF CallInv
  <2> QED BY <2>5, <2>6, <2>7, <2>8 DEF IInv
<1>15. ASSUME NEW c \in Calls, KeyL1(c) PROVE IInv'
  <2>1. /\ pc[c] = "keys l1" /\ pc'[c] = "done" /\ config'[c] = config[c]
        /\ l1_config'[c] = l1_config[c] /\ chain_id'[c] = chain_id[c] /\ hash'[c] = hash[c]
        /\ client_rollup'[c] = client_rollup[c] /\ client_l1'[c] = client_l1[c]
        /\ key_rollup'[c] = key_rollup[c]
        /\ key_l1'[c] = (IF l1 = Torn THEN Missing ELSE l1)
        /\ overlapped'[c] = overlapped[c] /\ provider' = provider /\ UNCHANGED <<rollup, l1>>
    BY <1>15, <1>t DEF KeyL1, TypeOK, Goto, files, client, keys
  <2>2. \A d \in Calls : d # c => Still(d)
    BY <1>15, <1>t DEF KeyL1, Still, TypeOK, Goto, files, client, keys
  <2>3. overlapped' = overlapped BY <1>15 DEF KeyL1
  <2>4. \A e \in Calls : config[e] # Missing => config'[e] = config[e]
    BY <2>1, <2>2 DEF Still
  <2>5. \A d \in Calls : d # c => CallInv(d)' BY <2>1, <2>2, <2>3, <2>4, <1>b
  <2>6. TypeOK'
    BY <1>15, <1>t, <1>p, <1>u, <1>r DEF KeyL1, CallInv, TypeOK, Progress, Resolved,
       RollupConfig, L1Config, Provider, Goto, files, client, keys, Disturb
  <2>7. FileOrigin'
    <3>1. \A e \in Calls : Resolved(e)' /\ Written(e)' => Resolved(e) /\ Written(e)
      BY <2>1, <2>2 DEF Still, Resolved
    <3> QED BY <3>1, <2>1, <2>4, <1>t, <1>o
  <2>8. CallInv(c)'
    <3>r. ReadRollup(c)' = ReadRollup(c) BY <2>1 DEF ReadRollup, UserConfig
    <3>p. Progress(c) /\ AloneInv(c) /\ PathInv(c) /\ AgreeInv(c) BY <1>p DEF CallInv
    <3>c. l1_config[c] \in L1Config BY <2>1, <3>p, <1>t DEF TypeOK, Progress
    <3>n. ~ overlapped[c] => l1 = l1_config[c] /\ l1 # Torn
      BY <2>1, <3>c, <3>p DEF AloneInv
    <3>1. Progress(c)'
      BY <3>p, <2>1, <1>u, <1>r, <1>t
         DEF TypeOK, Progress, Resolved, UserConfig, RollupConfig, L1Config
    <3>2. AloneInv(c)' BY <3>r, <3>n, <3>p, <2>1, <1>r DEF Progress, AloneInv
    <3>3. PathInv(c)' BY <3>p, <2>1, <1>r DEF PathInv, ReadRollup, UserConfig
    <3>4. AgreeInv(c)'
      <4> SUFFICES ASSUME Resolved(c)', \A e \in Calls : Resolved(e)' => config'[e] = config'[c]
                   PROVE  AgreeInv(c)'
        BY DEF AgreeInv
      <4>1. Resolved(c) BY <2>1 DEF Resolved
      <4>2. \A e \in Calls : Resolved(e) => config[e] = config[c] BY <2>1, <2>4 DEF Resolved
      <4>3. ReadRollup(c) \in {config[c], Torn}
        BY <4>1, <4>2, <1>t, <2>1 DEF FileOrigin, ReadRollup, Resolved
      <4> QED BY <4>1, <4>2, <4>3, <3>p, <2>1 DEF AgreeInv
    <3> QED BY <3>1, <3>2, <3>3, <3>4 DEF CallInv
  <2> QED BY <2>5, <2>6, <2>7, <2>8 DEF IInv
<1>16. ASSUME NEW c \in Calls, Fail(c) PROVE IInv'
  <2>1. /\ pc[c] \notin {"keys rollup", "keys l1"} \union Ended
        /\ pc'[c] = "failed" /\ config'[c] = config[c] /\ l1_config'[c] = l1_config[c]
        /\ chain_id'[c] = chain_id[c] /\ hash'[c] = hash[c]
        /\ client_rollup'[c] = client_rollup[c] /\ client_l1'[c] = client_l1[c]
        /\ key_rollup'[c] = key_rollup[c] /\ key_l1'[c] = key_l1[c]
        /\ overlapped'[c] = overlapped[c] /\ provider' = provider /\ UNCHANGED <<rollup, l1>>
    BY <1>16, <1>t DEF Fail, TypeOK, Goto, files, client, keys
  <2>2. \A d \in Calls : d # c => Still(d)
    BY <1>16, <1>t DEF Fail, Still, TypeOK, Goto, files, client, keys
  <2>3. overlapped' = overlapped BY <1>16 DEF Fail
  <2>4. \A e \in Calls : config[e] # Missing => config'[e] = config[e]
    BY <2>1, <2>2 DEF Still
  <2>5. \A d \in Calls : d # c => CallInv(d)' BY <2>1, <2>2, <2>3, <2>4, <1>b
  <2>6. TypeOK'
    BY <1>16, <1>t, <1>p, <1>u, <1>r DEF Fail, CallInv, TypeOK, Progress, Resolved,
       RollupConfig, L1Config, Provider, Goto, files, client, keys, Disturb
  <2>7. FileOrigin'
    <3>1. \A e \in Calls : Resolved(e)' /\ Written(e)' => Resolved(e) /\ Written(e)
      BY <2>1, <2>2 DEF Still, Resolved
    <3> QED BY <3>1, <2>1, <2>4, <1>t, <1>o
  <2>8. CallInv(c)'
    <3>r. ReadRollup(c)' = ReadRollup(c) BY <2>1 DEF ReadRollup, UserConfig
    <3>p. Progress(c) /\ AloneInv(c) /\ PathInv(c) /\ AgreeInv(c) BY <1>p DEF CallInv
    <3>1. Progress(c)'
      BY <3>p, <2>1, <1>u, <1>r, <1>t
         DEF TypeOK, Progress, Resolved, UserConfig, RollupConfig, L1Config
    <3>2. AloneInv(c)' BY <3>r, <3>p, <2>1, <1>r DEF Progress, AloneInv
    <3>3. PathInv(c)' BY <3>p, <2>1, <1>r DEF PathInv, ReadRollup, UserConfig
    <3>4. AgreeInv(c)'
      BY <2>1 DEF AgreeInv
    <3> QED BY <3>1, <3>2, <3>3, <3>4 DEF CallInv
  <2> QED BY <2>5, <2>6, <2>7, <2>8 DEF IInv
<1>17. CASE UNCHANGED vars
  <2> USE <1>17 DEF vars, files, client, keys
  <2>1. TypeOK' BY <1>t DEF TypeOK
  <2>2. FileOrigin' BY <1>t DEF FileOrigin, Resolved
  <2>3. \A d \in Calls : CallInv(d)' BY <1>b DEF Still
  <2> QED BY <2>1, <2>2, <2>3 DEF IInv
<1> QED
  BY <1>1, <1>2, <1>3, <1>4, <1>5, <1>6, <1>7, <1>8, <1>9, <1>10, <1>11, <1>12, <1>13, <1>14, <1>15, <1>16, <1>17
     DEF Next, Call

\* The inductive invariant of the calls and their shared files.
THEOREM Inductive == Spec => []IInv
<1> QED BY InitInv, StepInv, PTL DEF Spec

\* A call that no other call's write overlaps returns a witness of the one
\* configuration it resolved and never hangs on its files.
THEOREM AloneConsistent == Spec => []AloneIsConsistent
<1>1. IInv => AloneIsConsistent
  BY DEF IInv, CallInv, AloneInv, AloneIsConsistent, RollupParts, L1Parts, PastWrite, PastHash,
     PastReread, PastWriteL1, PastClientRollup, PastClientL1, PastKeyRollup
<1> QED BY <1>1, Inductive, PTL

\* A provider with a usable rollup configuration path is isolated from the
\* other calls as to the rollup configuration and the chain id.
THEOREM PathIsolation == Spec => []PathIsolates
<1>1. IInv => PathIsolates
  BY DEF IInv, CallInv, PathInv, PathIsolates, RollupParts, PastWrite, PastHash, PastReread,
     PastWriteL1, PastClientRollup, PastClientL1, PastKeyRollup
<1> QED BY <1>1, Inductive, PTL

\* Calls whose nodes give them the same rollup configuration may overlap.
THEOREM AgreeingOverlap == Spec => []AgreeingCallsMayOverlap
<1>1. IInv => AgreeingCallsMayOverlap
  BY DEF IInv, CallInv, AgreeInv, AgreeingCallsMayOverlap, PastWrite, PastHash, PastReread,
     PastWriteL1, PastClientRollup, PastClientL1, PastKeyRollup
<1> QED BY <1>1, Inductive, PTL

=============================================================================
