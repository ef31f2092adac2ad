-------------------------- MODULE MCSecureChannel --------------------------
(***************************************************************************)
(* Instances of SecureChannel for TLC.                                     *)
(***************************************************************************)
EXTENDS SecureChannel, TLC

\* session keys are only compared for equality
KeySymmetry == Permutations(Keys)

\* what the next call depends on: everything but the record of the last one, which the
\* properties read of the step that wrote it
Remembered == <<reader, session_lost, selected_aid, iso_chaining, card, card_aid, dead,
                apart, card_dropped, aid_known>>

OwnKeyCalls == {change_key("0"), change_key_ev2(0, "0"), roll_key_set}

\* every call but those that end the session of key number "0"
AllCalls == FileCalls \cup ApplicationCalls \cup InfoCalls \cup AdvancedCalls
            \cup {change_key("other"), change_key_ev2(1, "0"), change_key_ev2(0, "other")}

\* one call of each shape the EV2 and LRP channels tell apart
Ev3Calls == {read_data(c) : c \in Comm}
            \cup {write_data(8, "mac"), write_data(64, "enc"), get_free_memory,
                  get_card_uid, change_key_ev2(0, "0"), roll_key_set}

\* single calls, for the runs that follow one path
LongWrite == {write_data(64, "mac")}
FullRead == {read_data("enc")}
FullValue == {get_value("enc")}
=============================================================================
