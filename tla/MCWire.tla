------------------------------- MODULE MCWire -------------------------------
(* Instances of the frames and messages for TLC.                           *)
EXTENDS Wire

\* Types in the order of fr_msg_type, numbered through.
Types == 1 .. 26
OK == 25
M(type, fields) == [type |-> type, fields |-> fields]
AllKinds ==
  [HELLO |-> M(1, hello_req), AUTH |-> M(2, auth_req), PING |-> M(3, data), CLOSE |-> M(4, nothing),
   CREATE_UPLOAD |-> M(5, create_upload_req), PUT_CHUNK |-> M(6, put_chunk_req),
   QUERY_UPLOAD |-> M(7, one_string), COMMIT_UPLOAD |-> M(8, one_string),
   ABORT_UPLOAD |-> M(9, one_string), GET_ARTIFACT |-> M(10, get_artifact_req),
   DATA |-> M(11, data), LIST_ARTIFACTS |-> M(12, list_artifacts_req), SHOW_ARTIFACT |-> M(13, ref),
   STATUS |-> M(14, nothing), DELETE_ARTIFACT |-> M(15, ref), RUN_GC |-> M(16, run_gc_req),
   USER_ADD |-> M(17, user_add_req), USER_DISABLE |-> M(18, one_string),
   USER_LIST |-> M(19, nothing), TOKEN_CREATE |-> M(20, token_create_req),
   TOKEN_REVOKE |-> M(21, one_id), TOKEN_LIST |-> M(22, one_string), SESSION_LIST |-> M(23, nothing),
   SESSION_ABORT |-> M(24, one_string), ERROR |-> M(26, error_payload),
   hello_ok |-> M(OK, one_string), auth_ok |-> M(OK, auth_ok),
   create_upload_ok |-> M(OK, create_upload_ok), put_chunk_ok |-> M(OK, put_chunk_ok),
   query_upload_ok |-> M(OK, query_upload_ok), commit_upload_ok |-> M(OK, commit_upload_ok),
   get_artifact_ok |-> M(OK, get_artifact_ok), list_artifacts_ok |-> M(OK, list_artifacts_ok),
   show_artifact_ok |-> M(OK, show_artifact_ok), status_ok |-> M(OK, status_ok),
   delete_artifact_ok |-> M(OK, delete_artifact_ok), run_gc_ok |-> M(OK, run_gc_ok),
   user_list_ok |-> M(OK, user_list_ok), token_create_ok |-> M(OK, token_create_ok),
   token_list_ok |-> M(OK, token_list_ok), session_list_ok |-> M(OK, session_list_ok),
   ok |-> M(OK, nothing)]

\* The smallest and the largest value of a field.
Low == [u8 |-> 0, version |-> 1, u32 |-> 0, u64 |-> 0, i32 |-> -(Radix4 \div 2),
        i64 |-> -(Radix8 \div 2), flag |-> FALSE, str |-> <<>>, optional |-> <<>>,
        bitmap |-> <<>>, digest |-> <<0, 1>>, rest |-> <<>>, list |-> <<>>]
LongString == [i \in 1 .. MaxStringLen |-> i % Radix]
High == [u8 |-> Radix - 1, version |-> 1, u32 |-> Radix4 - 1, u64 |-> Radix8 - 1,
         i32 |-> Radix4 \div 2 - 1, i64 |-> Radix8 \div 2 - 1, flag |-> TRUE,
         str |-> LongString, optional |-> <<LongString>>,
         bitmap |-> [i \in 1 .. MaxBitmap |-> Radix - 1], digest |-> <<3, 2>>, rest |-> <<1, 2, 3>>]
HighOf(f) ==
  IF f.k = "list" THEN [i \in 1 .. MaxItems |-> [n \in DOMAIN f.item |-> High[f.item[n].k]]]
  ELSE High[f.k]
LowOf(f) == Low[f.k]

Message(kind, v, header) == [kind |-> kind, v |-> v, header |-> header]
LowMessage(k) == Message(k, [i \in DOMAIN AllKinds[k].fields |-> LowOf(AllKinds[k].fields[i])], "encoder")
HighMessage(k) == Message(k, [i \in DOMAIN AllKinds[k].fields |-> HighOf(AllKinds[k].fields[i])], "encoder")
Samples == {LowMessage(k) : k \in DOMAIN AllKinds} \cup {HighMessage(k) : k \in DOMAIN AllKinds}

\* Every message before one without a payload and behind one with; frames with
\* wrong headers, alone, first and behind a message.
Foreign == {[LowMessage("ERROR") EXCEPT !.header = h] : h \in {"type", "flags", "request", "length", "version"}}
AllScripts ==
  {<<m, LowMessage("ok")>> : m \in Samples} \cup {<<HighMessage("DATA"), m>> : m \in Samples}
  \cup {<<f, LowMessage("ok")>> : f \in Foreign} \cup {<<HighMessage("AUTH"), f>> : f \in Foreign}
FewScripts == {<<HighMessage("AUTH"), LowMessage("ok")>>, <<HighMessage("DATA"), HighMessage("ERROR")>>}
=============================================================================
