---------------------------- MODULE DesfireApi ----------------------------
(***************************************************************************)
(* The API calls that reach the card through nxpsc_exchange(), each as the *)
(* request it makes: nxpsc_desfire.c, nxpsc_advanced.c and the calls at    *)
(* the end of nxpsc_core.c.                                                *)
(*                                                                         *)
(*   cmd   the native command                                              *)
(*   len   payload length in bytes, a representative where it varies       *)
(*   tx,rx the modes asked for inside a session                            *)
(*   ans   the payload lengths the card may answer with                    *)
(*   when  how the modes depend on the session, see TxMode in SecureChannel*)
(*   own   the key whose change ends the session: "never", "always" or a   *)
(*         key number                                                      *)
(***************************************************************************)
EXTENDS Integers

Comm == {"plain", "mac", "enc"}
Whens == {"eff", "eff_mode", "auth", "uid", "always"}

Ack == {0}
\* none, fewer bytes than a MAC or a cipher block, and more than two blocks
Data == {0, 5, 40}

Call(cmd, len, tx, rx, ans, when) ==
    [cmd |-> cmd, len |-> len, tx |-> tx, rx |-> rx, ans |-> ans, when |-> when,
     own |-> "never"]

\* eff(): MACed inside a session, plain without one
Maced(cmd, len, ans) == Call(cmd, len, "mac", "mac", ans, "eff")

\* the answer to a write carries a MAC unless the file is plain
AckMode(comm) == IF comm = "plain" THEN "plain" ELSE "mac"
Reads(cmd, len, comm) == Call(cmd, len, comm, comm, Data, "eff")
Writes(cmd, len, comm) == Call(cmd, len, comm, AckMode(comm), Ack, "eff")

-----------------------------------------------------------------------------
\* applications
create_app == Maced("CreateApplication", 5, Ack)
delete_application == Maced("DeleteApplication", 3, Ack)
get_application_ids == Maced("GetApplicationIDs", 0, Data)
format_picc == Maced("FormatPICC", 0, Ack)
set_configuration(len) == Call("SetConfiguration", 1 + len, "enc", "mac", Ack, "auth")

\* keys
get_key_version == Maced("GetKeyVersion", 1, {1})
get_key_settings == Maced("GetKeySettings", 0, {2})
change_key_settings == Call("ChangeKeySettings", 1, "enc", "mac", Ack, "auth")
change_key(key_no) ==
    [Call("ChangeKey", 18, "enc_plain", "mac", Ack, "auth") EXCEPT !.own = key_no]
change_key_ev2(key_set, key_no) ==
    [Call("ChangeKeyEV2", 23, "enc_plain", "mac", Ack, "auth")
       EXCEPT !.own = IF key_set = 0 THEN key_no ELSE "never"]

\* files
get_file_ids == Maced("GetFileIDs", 0, Data)
get_iso_file_ids == Maced("GetISOFileIDs", 0, Data)
get_file_settings == Maced("GetFileSettings", 1, {7})
change_file_settings_raw(len) ==
    Call("ChangeFileSettings", 1 + len, "enc", "mac", Ack, "auth")
create_file == Maced("CreateFile", 7, Ack)
delete_file == Maced("DeleteFile", 1, Ack)
read_data(comm) == Reads("ReadData", 7, comm)
write_data(len, comm) == Writes("WriteData", 7 + len, comm)
get_value(comm) == [Reads("GetValue", 1, comm) EXCEPT !.ans = {4}]
value_op(cmd, comm) == Writes(cmd, 5, comm)
write_record(len, comm) == Writes("WriteRecord", 7 + len, comm)
update_record(len, comm) == Writes("UpdateRecord", 10 + len, comm)
read_records(comm) == Reads("ReadRecords", 7, comm)
clear_record_file == Maced("ClearRecordFile", 1, Ack)

\* transactions
commit_transaction == Maced("CommitTransaction", 0, Ack)
commit_transaction_tmac == Maced("CommitTransaction", 1, {12})
abort_transaction == Maced("AbortTransaction", 0, Ack)
commit_reader_id == Call("CommitReaderID", 16, "mac", "mac", {16}, "auth")

\* advanced: these name their modes without asking whether a session is open
create_transaction_mac_file ==
    Call("CreateTransMacFile", 22, "enc", "mac", Ack, "always")
create_delegated_application ==
    Call("CreateDelegatedApplication", 60, "mac", "mac", Ack, "always")
get_delegated_info == Call("GetDelegatedInfo", 2, "mac", "mac", {8}, "always")
create_mfc_mapping ==
    Call("CreateMFCMapping", 64, "enc", "mac", Ack, "always")
init_key_set == Call("InitializeKeySet", 2, "mac", "mac", Ack, "always")
finalize_key_set == Call("FinalizeKeySet", 2, "mac", "mac", Ack, "always")
roll_key_set ==
    [Call("RollKeySet", 1, "mac", "plain", Ack, "always") EXCEPT !.own = "always"]
restrict_mfc_update == Call("RestrictMFCUpdate", 4, "mac", "mac", Ack, "eff_mode")
notify_transaction_success ==
    Call("NotifyTransactionSuccess", 0, "mac", "mac", Ack, "eff_mode")

\* card information: a bare request whose answer is MACed inside a session
get_version == Call("GetVersion", 0, "plain", "mac", {28}, "eff_mode")
get_free_memory == Call("FreeMemory", 0, "plain", "mac", {3}, "eff_mode")
get_signature == Call("ReadSig", 1, "plain", "mac", {56}, "eff_mode")
get_card_uid == Call("GetCardUID", 0, "mac", "enc", {7}, "uid")

\* nxpsc_command(): the caller names command and modes itself
command(cmd, tx, rx) == Call(cmd, 0, tx, rx, Ack, "always")

-----------------------------------------------------------------------------
FileCalls ==
    UNION {{read_data(c), write_data(8, c), write_data(64, c), get_value(c),
            value_op("Credit", c), value_op("Debit", c),
            value_op("LimitedCredit", c), write_record(8, c),
            update_record(8, c), read_records(c)} : c \in Comm}
    \cup {get_file_ids, get_iso_file_ids, get_file_settings,
          change_file_settings_raw(3), create_file, delete_file,
          clear_record_file, commit_transaction, commit_transaction_tmac,
          abort_transaction, commit_reader_id}

ApplicationCalls ==
    {create_app, delete_application, get_application_ids, format_picc,
     set_configuration(1), get_key_version, get_key_settings,
     change_key_settings}

InfoCalls == {get_version, get_free_memory, get_signature, get_card_uid}

AdvancedCalls ==
    {create_transaction_mac_file, create_delegated_application,
     get_delegated_info, create_mfc_mapping, init_key_set, finalize_key_set,
     restrict_mfc_update, notify_transaction_success,
     command("AbortTransaction", "mac", "mac")}
=============================================================================
