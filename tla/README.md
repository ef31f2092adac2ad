# libnxpsc in TLA+

A model of libnxpsc's secure messaging: what the library believes about its
session with a DESFire-family card or a MIFARE Plus, what the card believes, and
what happens to the two when commands fail, answers are lost, keys are replaced and
calls are made in an order nobody planned; and beside it the algorithms underneath
whose corner cases unit vectors miss: padding, chaining, counters, the settings of
SDM. It sits beside the sources: paths below are relative to the repository
(`src/nxpsc_core.c`, `docs/hardware-notes.md`, ...).

## 1. The system

libnxpsc is a synchronous, single threaded C library. A caller opens a
`nxpsc_card_t` on a transport (a function that sends one frame and receives one),
and every call runs to completion on the caller's stack. All state is in that
structure. Nothing is persisted and nothing runs in the background, so the
hazards are not interleavings of threads: there are **two state machines that
have to move in step, and only a lossy request/answer link between them**. The
card holds a session key, a transaction identifier (TI), a command counter or an
IV chain, and a selected application. The library holds its copy of each, and it
learns of a change only through an answer that can be lost.

### Components

| Component | Source | State it keeps | Operations | What makes it correct |
|---|---|---|---|---|
| Sessions and exchange | `nxpsc_core.c` | `channel`, `authenticated`, `session_lost`, `cmd_ctr`, `iv`, `ti`, keys | `nxpsc_open/close`, `nxpsc_exchange`, `nxpsc_reset_channel` | the reader's session is the card's; after an error status it is gone on both sides |
| Encode and decode | `nxpsc_channel.c` | `mode`, `last_cmd`, `last_request_zero_len`, `iv` | `nxpsc_channel_encode/decode` for D40, EV1, EV2, LRP | both sides protect the same messages and chain the same bytes; nothing unverified passes for verified |
| Authentication | `nxpsc_channel.c` | installs or replaces the session | `nxpsc_authenticate`, `nxpsc_authenticate_nonfirst` | a success leaves both sides with one new session |
| Framing | `nxpsc_core.c` | none of its own, `last_status` | `nxpsc_raw_exchange_ex`, `frame_exchange` | one request and one answer, whatever the number of frames; it terminates |
| DESFire commands | `nxpsc_desfire.c` | `selected_aid` | applications, keys, files, values, records, transactions; GetDFNames reads its own frames | each call asks for the modes the card uses; `selected_aid` is the card's |
| Advanced commands | `nxpsc_advanced.c` | `iso_chaining` | transaction MAC, delegated applications, key sets, proximity check | the same |
| ISO 7816 commands | `nxpsc_core.c`, `nxpsc_desfire.c` | - | `nxpsc_iso_exchange`, ISO selects, binary reads and updates | bypasses secure messaging without leaving the reader in a wrong session |
| Card information | `nxpsc_core.c` | version cache, `type` | GetVersion, FreeMemory, ReadSig, GetCardUID | the answer is MACed inside a session |
| NTAG 424 DNA | `nxpsc_ntag424.c` | - | select, SDM settings | select leaves application and opcodes right; the settings read back as they were meant |
| MIFARE Plus SL3 | `nxpsc_plus.c` | `plus_r_ctr`, `plus_w_ctr`, `mac_mismatch`, and the keys of the session | authenticate (first, non-first), read, write, value operations | counters in step with the card's; a repeated write is not carried out twice unnoticed |
| Cryptography | `nxpsc_crypto.c` | RNG hook | AES, DES, CMAC, LRP, KDFs, CRC, padding, CBC | what is padded, chained or searched comes out as it went in |
| Transaction MAC | `nxpsc_advanced.c` | - | the TMI of a record write, the TMAC over a transaction | different transactions have different inputs |

Outside: the transport (a callback), the card, `tests/mockcard.c` (a test double
of the card), the examples, mbed TLS.

### How they interact

A call of `nxpsc_desfire.c` or `nxpsc_advanced.c` builds a payload, picks two
modes (request and answer; mostly through `eff()` or `eff_mode()`, which make
them plain without a session) and hands both to `nxpsc_exchange()`. That refuses
when the session was lost, has the payload wrapped by `nxpsc_channel_encode()`,
sends it with `nxpsc_raw_exchange()`, drops the session on an error status,
counts the command otherwise, and unwraps the answer with
`nxpsc_channel_decode()`. Some calls do not go that way: authentication, ISO
exchanges, GetDFNames, the proximity check and all of MIFARE Plus send their own frames, and a few
(ChangeKey of the session's own key, RollKeySet, SelectApplication) reset the
session themselves.

### What is hard

* **Lost messages.** Lost request and lost answer look the same to the library;
  in the second case the card is one command ahead, or has a session the library
  does not know of, or lacks the one the library believes in.
* **Error paths that differ.** An error status can be seen by `nxpsc_exchange()`,
  by `nxpsc_raw_exchange_ex()` between two frames, by an authentication, or by
  the proximity check. The card ends its session in every case.
* **Who is protected, and how long.** Four channels, three modes each way, two
  tables of exceptions, and length tests in each decoder.
* **Order inside one exchange.** When the counter moves and when the IV is
  chained, relative to MAC and status.
* **Two counters and a sticky flag.** MIFARE Plus counts reads and writes apart, and
  its MAC verdict is a field of the card structure that outlives the call.
* **Formats without lengths.** Legacy answers are found by their CRC, EV2 payloads by
  their padding, SDM offsets by the conditions before them, DF names by their frame.

`PROJECT.json` lists each hazard at its line, with the properties about it.

## 2. Modules

```
WireFormat      DesfireApi          pure: channels and messages; API calls as data
      \           /
      SecureChannel                 the two state machines and every call
      /           \
MCSecureChannel  SecureChannelProofs

OneExchange                         abstract: what nxpsc_raw_exchange() promises
      |  (INSTANCE ... WITH)
   Framing                          nxpsc_raw_exchange_ex() frame by frame
      |
FramingProofs

DfNames -- DfNamesProofs            nxpsc_get_df_names() frame by frame

Plus -- PlusProofs                  the MIFARE Plus session
  |
MCPlus

Codec -- SdmSettings -- Conversions pure algorithms; Conversions calls each of them
  |           |             |
CodecProofs   |             |       lemmas about the algorithms; Iteration: least elements,
  |  \        |             |       induction and what a recursive function computes
  |   SdmSettingsProofs     |
  |           |             |
  +----- ConversionsProofs -+       the properties of Conversions as theorems
```

`SecureChannel` takes an exchange as one step. `Framing` is the reason it may:
whatever the number of frames, a call behaves as one exchange of `OneExchange`,
whose ways to return are the actions `CallLost`, `CallCutShort`, `CallRejected`
and `CallDone` of `SecureChannel`.

### WireFormat: `nxpsc_channel.c` as operators

What a request and an answer look like per channel, and when they verify.
Cryptography is symbolic: a message is sealed `by` a session record, and it
verifies against a session with the same key, TI and counter and, where the
channel chains one, IV. `encode_d40/ev1/ev2` say whether a frame goes out plain,
MACed or enciphered; `Encoded` what that does to the IV; `decode_*` give the
return code, the session afterwards, whether anything was verified, and whether
the caller gets exactly the card's payload. Lengths are real: header lengths come
from `cmd_headers[]`, padding from `nxpsc_padded_len()`, so short answers meet
the length tests of the code. The block they are padded to follows the type of the
session's key (`block_len()`), except on EV2 and LRP. An enciphered payload of no
bytes is an error to every decoder, as `pure == 0` is in the code.

The IV is kept as the sequence of what ran through it. Two IVs are equal when
the same messages were chained since the last zero, which is what a CMAC chain
gives up to collisions. Two kinds of entry can be in one side's IV alone, both on
EV1: `cipher` is an enciphered answer the card chains and `decode_ev1()`, which works
on a copy, does not; `stray` is an answer without a MAC on which `decode_ev1()` has
run the CMAC before comparing. On LRP the sequence counts the enciphered messages (the
code counts blocks of 16 bytes; the model counts one per message, since both
sides encipher the same message).

### DesfireApi: the calls as data

Each API call that goes through `nxpsc_exchange()` is a record: native command,
payload length, modes, the answer lengths the card may give, how the modes depend
on the session (`eff()`, `eff_mode()`, a check for a session first, or neither),
and which key's change ends the session. It is the place to look up what a call
asks for, and to add a new one.

### SecureChannel: the two state machines

| Variable | Code |
|---|---|
| `reader` | `channel`, `key_type` (`kt`), session keys (`key`), `ti`, `cmd_ctr`, `iv`, `key_no`; `authenticated` is `reader.chan # "AUTO"` |
| `session_lost`, `selected_aid`, `iso_chaining` | the fields of the same name |
| `card`, `card_aid`, `dead` | the card (external) |
| `apart`, `card_dropped`, `aid_known`, `last` | history, read by the properties only |

A call is one step, since nothing can happen on the reader between its start and
its return; it is split by what happens on the wire:

| Action | Code |
|---|---|
| `CallRefused` | a call that asks for a session finds none; `nxpsc_exchange()` with `session_lost` |
| `CallLost` | the transport fails: request lost, answer to a refused command lost, or answer to a command the card carried out lost |
| `CallCutShort` | an error status between two frames, `nxpsc_raw_exchange_ex()` returning `NXPSC_E_CARD` |
| `CallRejected` | an error status at the end |
| `CallDone` | carried out and answered, whatever decoding makes of the answer |
| `Authenticate`, `AuthRefused`, `AuthLost`, `AuthUnsupported` | `nxpsc_authenticate()` into `auth_legacy/ev2/lrp` |
| `AuthenticateNonFirst`, `NonFirstRefused`, `NonFirstLost`, `NonFirstRefusedLocally` | `nxpsc_authenticate_nonfirst()` |
| `SelectDone`, `SelectRejected`, `SelectLost` | `nxpsc_select_application()` |
| `IsoExchange`, `ntag424_select` | ISO 7816 calls, which leave session and `selected_aid` alone, and the NTAG select, which does not |
| `GetDfNames`, `GetDfNamesRefused` | `nxpsc_get_df_names()` |
| `ProximityCheck` | `nxpsc_proximity_check()` |
| `ResetChannel`, `Reopen`, `SetIsoChaining`, `FieldLost` | the calls of that name, `nxpsc_close()` and `nxpsc_open()`, the card leaving the field |

The card is modelled from what the code, its comments and `tests/mockcard.c`
expect of it: it looks up every command in its native form, accepts a request
that has the form it wants and verifies, may refuse any command with an error
status (which ends its session), and ends the session whose key was replaced.

About an EV1 card the repository says different things in two places, and each is a
constant of the model:

* `CipherChains`: whether an enciphered answer moves the card's IV. It does if the IV
  is the "last block of previous crypto operation"
  (`docs/reference/unofficial_desfire_bible.md:860`); the test double leaves it alone
  (`tests/mockcard.c:578`), as `decode_ev1()` does (`nxpsc_channel.c:703`).
* `Unmaced`: the commands whose answer carries no MAC before EV2. The reference has
  every EV1 answer MACed or enciphered, and `decode_ev1()` relies on it; the test
  double answers the directory style commands without one (`tests/mockcard.c:681`).

No run can decide which of them is the card. What is shown is which description the code
keeps its promises against: the reference's MACs, and the test double's IV. The runs take
the card of the reference (`CipherChains = TRUE`, `Unmaced` empty), where `ev1_iv` shows the
disagreement; the theorems take any.

Abstractions, beyond cryptography and payload bytes:

* an answer longer than the buffer of `nxpsc_exchange()` itself (an error of
  `nxpsc_raw_exchange()`, before the command is counted), or an ISO-wrapped answer
  without `0x91`, is a lost one (`CallLost`). One that only overflows the caller's buffer
  is not: it is decoded, counted and chained, and then `NXPSC_E_LENGTH` (`Delivered`);
* an enciphered D40 answer has one checksum; that `decode_d40()` looks for a CRC16 and
  then, on later cards, for a CRC32 is one search (the CRC16 search itself is in `Codec`);
* checks on the length of a decoded payload, made by some calls after the
  exchange, change no state and are left out;
* `CardType` is a constant: `nxpsc_identify()` runs before everything else;
* the two sides draw a fresh key per authentication. With a finite set of keys a
  fresh one is one neither side holds.

`apart` is the heart of the model's history: it becomes true when something
happened that can separate the two sides (a loss, an error between two frames, a
drop on one side only, a call around `nxpsc_exchange()`), and false when both
sides provably meet again: a first authentication, an error status that ends
both sessions, an acknowledged selection, or **an answer whose verification
succeeded**.

### OneExchange and Framing: one request, one answer, many frames

`Framing` runs the two loops of `nxpsc_raw_exchange_ex()`, one frame there and
back per step.

| Variable | Code |
|---|---|
| `call`, `len`, `follow_af` | the parameters of the call (its number stands for the bytes of `data`) |
| `sent`, `status` | the locals of the same name |
| `result` | the return code, and `resp` up to `total` |
| `pc` | idle, in the first loop (`sending`), in the second (`following`) |
| `card`, `log` | the card's end of a chain (external), and what it carried out (history) |

| Action | Code |
|---|---|
| `Call` | the call, up to its first frame |
| `SendFrame` | a frame of the request: `take`, `frame_cmd`, the check for `0xAF`, and the answer of the last one |
| `FollowFrame` | `0xAF` sent, another frame of the answer appended |
| `SendLost`, `FollowLost` | `frame_exchange()` fails: the transport does, or an ISO-wrapped answer is too short or has no `0x91`. The card may or may not have taken the frame |

A byte is the pair of its call and its place in it, so a piece sent twice, left
out, or taken from another call's answer shows. The card keeps a half-received
payload or a half-sent answer when a call fails, and the next call meets it. It is
assumed to know from a command how long its payload is, to take a command byte
other than `0xAF` for a new command, and to put data into every answer frame that
says `0xAF`. The last of these is what termination hangs on (below); a card that
sends empty `0xAF` frames for ever keeps the code in its loop for ever.

The `0xAF` which the authentications and GetDFNames send themselves is not a call
here: an authentication has a fixed number of frames and is one step of
`SecureChannel`, the loop of GetDFNames is `DfNames`.

### DfNames: the list that is read frame by frame

`nxpsc_get_df_names()` calls `nxpsc_raw_exchange_ex()` once per frame, because a DF
name ends where its frame ends. `pc`, `cmd`, `apps` and `result` are its locals and
results, `list` and `rest` the card's. `FrameListed` is one pass of the loop;
`FrameLost`, `FrameRefused` and `FrameTooLong` are its ways out. A failed call leaves
`rest` on the card, which must not show up in the next call. In `SecureChannel` the
whole call is the one step `GetDfNames`, because only its guard and its effect on the
sessions matter there.

### Plus: a second session protocol

`nxpsc_plus.c` shares the fields of `nxpsc_card_t` with the DESFire channels but none
of their code, so it has a module of its own.

| Variable | Code |
|---|---|
| `reader` | `session_mac` (`key`), `ti`, `plus_r_ctr` (`r`), `plus_w_ctr` (`w`) |
| `mac_mismatch` | the field of that name |
| `card` | the card's session (external) |
| `doubt`, `unreported`, `last` | history: which of session and counters a loss may have moved apart, how many writes were carried out but not reported, the last call |

| Action | Code |
|---|---|
| `Refused` | bad parameters, no session, a buffer too small: nothing reaches the wire |
| `CallLost`, `CallRejected` | a read or a write of any kind whose frames are lost, or that draws an error status; the reader keeps its session |
| `ReadDone` | `nxpsc_plus_read()`, its MAC asked for or not, right or wrong |
| `WriteDone` | `nxpsc_plus_write()`, `_value_op()`, `_value_transfer()`, `_restore()`, `_transfer()` |
| `AuthenticateFirst`, `FirstFailed`, `AuthenticateNonFirst`, `NonFirstFailed` | `nxpsc_plus_authenticate()` |
| `ResetAuth`, `PlainFrame`, `Exchange`, `ResetChannel`, `FieldLost` | `nxpsc_plus_reset_auth()`; the calls without a session; `nxpsc_exchange()` outside one; `nxpsc_reset_channel()`; the field |

`CtrMod` stands for 2^16 and `IvMod` for 2^8: the MACs cover the whole counters, the
IVs of a non-first authentication only their low bytes. `nxpsc_exchange()` inside a
Plus session is left out: it is a DESFire command to a card that has none.

### Codec, SdmSettings, Conversions: the algorithms underneath

`Codec` has `nxpsc_crc16()` and `search_crc_pos()`, the padding and its two ways back,
`nxpsc_cmac()`'s masked input, `nxpsc_cbc_crypt_ex()` in both directions, the LRP
counter, the DES key version and the TMI of a record write. `SdmSettings` has
`nxpsc_sdm_build_settings()` and its helpers, and the card's way of reading the result.
`Conversions` chooses an input, applies one of them, and states what relates the two.
The block cipher is an arbitrary fixed permutation of blocks of two bits: what is
checked is where blocks and IVs go. The CRC is the real one, over bytes.

## 3. Properties and runs

In `SecureChannel` and `Plus` every call is one step, so nothing is waiting for
anything, and no fairness is assumed. `Framing` and `DfNames` assume `WF_vars(Step)`:
the library is synchronous, and the transport's callback returns from every frame,
with an answer or an error. The callers owe nothing: `Call` is not fair. That a loop
ends then rests on the buffer (`Framing`) or on the card's list, which ends (`DfNames`).

| Property | Meaning |
|---|---|
| `TypeOK` | types, and `session_lost` never with an open session, the pair `eff()` relies on |
| `Agreement` | not apart: the same channel, key, TI, counter, key number and IV on both sides, the IV up to an EV1 answer that only one side chains. In particular a verified answer proves agreement, whatever was lost before |
| `CarriedOutIsReported` | sides that agree, IV included: what the card did and answered is reported as done, with exactly its payload. Owed to the caller is an answer that fits the buffer and is not an empty one where the decoders refuse those |
| `NothingLostIsReported` | the same wherever nothing has separated the sides, so also behind an enciphered EV1 answer: false of a card that chains it, proved of one that does not |
| `SuccessMeansSession` | inside a session, success of a call that demands a protected answer means the card did it, in this session, at this counter |
| `NoSilentDowngrade` | after the card threw the session away, no call that looks at `session_lost` goes out plain |
| `AidAgreement` | `selected_aid` is the card's after an acknowledged selection |
| `DisabledOnlyApart` | GetDFNames is fatal only after something went wrong before it |
| `Implements` (`Framing`) | the abstract `OneExchange`: a call is carried out at most once, on its own payload whole and in order, and a success has the whole of its own answer, whatever an earlier call left on the card |
| `Returned` (`Framing`, `DfNames`) | every call returns; in `Framing` even against a card that sends `0xAF` for ever, with data; in `DfNames` when the card's list ends |
| `TypeOK` (`Framing`, `DfNames`) | the buffer, the caller's array and its names never overflow; in `Framing`, the buffer holds the first bytes of the running call's own answer |
| `Listed` (`DfNames`) | a success returns the card's own list in order, as far as there is room, whatever list an earlier call abandoned, and no frame in it was longer than the code's buffer |
| `InStep` (`Plus`) | an answered read or write proves session and counter, a non-first authentication TI and both counters, and it lasts until the next loss |
| `AtMostOnce` (`Plus`) | however often a write is repeated in a session, at most one was carried out and not reported |
| `LostWriteBlocks` (`Plus`) | after a lost answer to a write, no write of the session succeeds |
| `CrcFound` | the CRC search returns a payload if there is one, the shortest reading, and never more than was sent |
| `PaddingUndone` | what is padded, both places that unpad find the end of |
| `MacInputsDiffer` | two messages are never MACed as the same buffer, and the buffer fits |
| `CbcUndone` | a message in two parts is received as sent, in place, and the IVs agree |
| `CounterSucceeds` | the LRP counter counts, wraps, and leaves the nibbles behind it alone |
| `VersionKept` | a key version is read back, and only parity bits move |
| `SettingsReadBack` | SDM settings are built exactly if they fit, and a card reads back what was meant |
| `TmiTellsApart` | two record writes never contribute the same bytes to the transaction MAC |
| `DroppedNeedsAuth`, `CryptoMeansMac`, `FormIsExpected` | what documents and comments promise and the code does not keep |

Passing runs:

* `ev1_card`: an EV1 card that chains enciphered answers, DES, 3K3DES and AES keys (a
  D40 session, and EV1 sessions with short and long blocks), channels picked by the
  library and EV2 forced (which DES keys refuse), every API call except a change of the
  session's own key. One call at a time is enough to see every table entry; `MaxIv = 6`
  allows three exchanges between resets of the IV.
* `ev3_card`: EV2 and LRP on an NTAG424-like card, one call of each shape those
  channels tell apart, with own-key changes, RollKeySet and non-first authentications
  of two key numbers, ISO chaining on and off. `CtrMod = 3` makes the command counter
  wrap (2^16 in the code), `MaxIv = 4` allows four enciphered messages.
* `framing`: two calls, so that the second meets what the first left. Frames carry two
  bytes (54 in the code, the card's frames vary), payloads have up to five (no frame to
  three, full and partial last frames), answers up to three or no end, the buffer four:
  answers shorter than the buffer, filling it, and longer than it. Deadlock is not
  checked: after the last call the system may stop.
* `df_frames`: lists of up to three frames of 4, 5, 40 or 70 bytes (too short for an
  application, just long enough, with a name over 16 bytes, longer than the code's
  frame buffer), room for two entries.
* `plus`: counters modulo 4 whose low part is modulo 2, so that low bytes coincide while
  counters differ, and counters wrap. Five keys: reader and card hold up to two each, a
  session key and a TI, and the fifth is always fresh.
* `conversions`: blocks of 4 bytes, payloads of up to three bytes of 0, 99 and 0x80 (two
  of which look like padding), payloads that end in their own CRC or half of it, a
  wrong byte in each place, MAC inputs with and without a least length, every first
  and last nibble around a carry, offsets that do and do not fit, buffers one byte too
  small. A behaviour is one call, so it stops, and deadlock is not checked.

In these two runs of `SecureChannel` TLC compares states by `Remembered`, which leaves out
the record `last` of the previous call: no guard reads it, and the properties read it
of the step that wrote it, so every step is still checked. Two application
identifiers and a key number and "another" are all the code tells apart. Keys are
symmetric: they are only compared.

Violation runs show where the code departs from what its documents or comments
say; `PROJECT.json` quotes both sides:

| Run | What it shows |
|---|---|
| `chained_error` | an error between two frames leaves the reader in a session the card ended (`nxpsc_core.c:409`) |
| `ev1_own_key` | on EV1 the plain answer to an own-key change is a length error |
| `ev1_full_read` | on EV1 a full-mode read accepts a short plain answer |
| `ev1_iv` | if an EV1 card's IV is the last block of the previous operation, the command after an enciphered answer fails, nothing lost (`nxpsc_channel.c:703`) |
| `chained_opcodes` | ISO chained opcodes have no header length, so their parameters are enciphered |
| `plus_sticky` | after one wrong MAC, reads that ask for none report `NXPSC_E_CRYPTO` too |

Departures that the models contain and no run is spent on:

* Relatives of `chained_error`: a refused non-first authentication leaves the reader its
  session (`nxpsc_channel.c:1041`); an error on an own-key change clears `session_lost`
  by its unconditional `nxpsc_reset_channel()` (`nxpsc_desfire.c:606`); and the calls on
  `eff_mode()` do not look at `session_lost` (`nxpsc_advanced.c:30`). `ev1_card` leaves
  out the second kind, and `NoSilentDowngrade` excepts the last by name.
* If an EV1 card leaves the answers of directory style commands without a MAC, as the test
  double does (`tests/mockcard.c:681`), the library rejects them: it asks for `MODE_MAC` and
  `decode_ev1()` then looks for one (`nxpsc_channel.c:669`). `CarriedOutIsReported` fails on
  the first `GetApplicationIDs` once that command is in `Unmaced`; the runs leave it empty.
* `nxpsc_get_df_names()` refuses only inside a session of the reader's. After a lost last
  answer of an authentication, or a `nxpsc_reset_channel()`, the card alone has one, the
  command goes out and the card disables itself (`nxpsc_desfire.c:318`, against
  `docs/hardware-notes.md:237`). `DisabledOnlyApart` says that it takes such a step.
* Two loops have no end of their own. `nxpsc_raw_exchange_ex()` follows empty `0xAF`
  frames for ever (`nxpsc_core.c:424`), and `nxpsc_get_df_names()` a list that never ends
  (`nxpsc_desfire.c:363`). `Returned` does not show either: the card of `Framing` puts data
  into a frame that says `0xAF`, and every list of the card of `DfNames` ends.
* A proximity check that succeeds leaves the reader's session open, and
  `docs/advanced.md:210` says the session is over (`nxpsc_advanced.c:439`).
* `nxpsc_create_transaction_mac_file()` and `nxpsc_create_mfc_mapping()` ask for
  encipherment without asking for a session; without one their key material goes out
  in the clear (`nxpsc_advanced.c:106`, against `docs/advanced.md:54`).
* A MIFARE Plus session survives an error status on the reader's side, where
  `nxpsc_exchange()` would drop it (`nxpsc.h:245`).
* A legacy answer whose payload ends in its own CRC, followed by zeros, is cut short: it
  can be read in two ways, and `CrcFound` says which is taken.

## 4. Proofs

`SecureChannelProofs` proves, for any number of keys, key numbers, key types,
channels, applications and counter values and any set of API calls within
`ApiAssumption`:

* `TypeCorrect`: `Spec => []TypeOK`
* `SessionsAgree`: `Spec => []Agreement`
* `OnlyApartDisables`: `Spec => DisabledOnlyApart`
* `SelectionAgrees`: `Spec => []AidAgreement`
* `LossIsRemembered`: `Spec => NoSilentDowngrade`, if no call replaces the key of its own
  session (`NoOwnKeyCalls`)
* `SuccessIsTheCards`: `Spec => SuccessMeansSession`, if no authentication ends on D40 and,
  where one can end on EV1, no call asks for an enciphered answer (`AnswersSealed`)
* `CarriedOutReported`: `Spec => CarriedOutIsReported`, on EV1 if no call replaces the key of
  its own session (`Ev1KeepsItsKey`), on D40 for native requests (`LegacyIsNative`), and on
  both if the card MACs the answers the calls expect a MAC on (`AnswersMaced`)
* `NothingLostReported`: `Spec => NothingLostIsReported`, under the same hypotheses, if
  enciphered answers leave the card's IV alone (`~CipherChains`)

The first six hold for every EV1 card the constants describe: the reference's, the test
double's, and any mixture.

The hypotheses are where the code stops keeping the promise: without `NoOwnKeyCalls`,
`nxpsc_desfire.c:606` forgets a loss; without `AnswersSealed` the run `ev1_full_read` is a
counterexample, without `Ev1KeepsItsKey` the run `ev1_own_key`, with `CipherChains` the run
`ev1_iv`; without `AnswersMaced` the library rejects what the card left without a MAC
(section 3); and a legacy read under a chained opcode asks for the other form of answer than
the card gives (what the run `chained_opcodes` shows of requests), which `LegacyIsNative`
leaves out. On EV2 and LRP
alone `AnswersSealed`, `Ev1KeepsItsKey`, `LegacyIsNative` and `AnswersMaced` hold outright.
The instance of `ev1_card` satisfies the hypotheses of `LossIsRemembered` and
`CarriedOutReported`, and with `CipherChains = FALSE` (TLC finds no violation there either)
those of `NothingLostReported`; that of `ev3_card` satisfies those of `SuccessIsTheCards` and
`CarriedOutReported`.

`Agreement` is not inductive. A verified answer only shows that key, TI, counter
and IV coincide; that channel and key number do as well follows from
`SameOrigin` (two open sessions with one key come from one authentication), and
that nothing else is left to differ follows from `WellFormed` (a session carries
only the state its channel has, AES keys on EV2 and LRP, and one-sided IV entries on EV1
only). Hence
`IInv == TypeOK /\ Agreement /\ WellFormed(reader) /\ WellFormed(card) /\ SameOrigin`,
theorem `Inductive`. The argument:

1. Encoding, counting, decoding, executing and answering each keep a session in
   its *kin* (same channel, key, TI, key number) or close it, so `WellFormed` and
   `SameOrigin` are kept by every exchange (`KinStep`).
2. **`VerifiedAgrees`**: whatever the two sides were before, if the answer
   verified, the reader's session after decoding equals the card's after
   answering, or differs from it in nothing but the IV and by the enciphered answer the
   card has just chained (`Near`). This is where the channels' differences matter: EV1 needs the IV,
   LRP needs an answer that deciphers (no MAC covers its block counter), D40 and
   EV2 need only the counter.
3. **`InSyncStays`**: two sides that are equal are equal or near after an exchange,
   verified or not, and near ones stay near (`NearStays`): an IV that holds a one-sided
   entry keeps it until the session ends. This needs the encoders and decoders to chain the same
   messages, and `ApiAssumption`: an enciphered answer is only asked for by
   requests that are all header, so that `last_request_zero_len` has the card's
   opinion.
4. Every other step closes both sides, sets `apart`, or leaves both alone.

The four conditional theorems rest on `Inductive` and on small invariants.
`LossKnown`: when the card has dropped a session, the reader either still believes in it
or has `session_lost`; decoding never closes a session and only an own-key call resets the
flag without the caller's doing. `OnOpened`: the reader is only ever on a channel an
authentication can open, and chained opcodes are in use only where they were asked for.
On EV1, EV2 and LRP a success then has a MAC that verifies (`SuccessVerifies`), hence the
card's key, by `SameOrigin` its channel, and by the injectivity of counting its counter;
and between sides that agree every answer the card may give is long enough and verifies,
channel by channel (`D40AnswerTaken`, `Ev1AnswerTaken`, `Ev2AnswerTaken`,
`PlainAnswerTaken`). `Unmarked`: with a card that leaves its IV alone and MACs its answers,
the card's IV never holds a one-sided entry, and the reader's only when something separated
the sides; near sides are then equal ones, and `NothingLostReported` follows from the same
four lemmas.

`FramingProofs` proves, for every number of calls and every size of payload,
frame, answer and buffer:

* `FramingTypeOK`: `Spec => []TypeOK`
* `FramingImplements`: `Spec => Implements`, the refinement

The invariant says what the card holds in the middle of a call: exactly the bytes
acknowledged so far (`Sending`), or the answer to this call from behind what the
buffer holds (`Following`); and that the log has no entry of a call to come, nor of
this one until its last frame (`Past`), which is why it is carried out at most once.
`EmissionsSound` and `RequestSound` say what a frame can do on the card,
`CollectSound` what the library makes of it; each action is then shown to be either
an acknowledgement, invisible outside (`Acknowledged`), or a step towards the end
(`Proceeds`), which is a `CarryOut` or a `Return` of the abstract call or invisible.

`PlusProofs` proves, for any number of keys and any two moduli of which one divides
the other (as 2^8 does 2^16), `PlusTypeOK`, `PlusInStep`, `PlusAtMostOnce` and
`PlusLostWriteBlocks`. What they need is `AheadByOne`: within a session the card's
counters are the reader's or one ahead, the write counter exactly when a write is
unreported. A card that is ahead accepts no MAC of the reader's, so it cannot get further
ahead (`Unanswered`), and an answer shows it is not (`Answered`). A non-first
authentication compares only low bytes; two counters at most one apart with the same
low byte are the same (`LowByteInc`, `IvsProveCounters`), which is where the second
modulus has to be more than 1.

`DfNamesProofs` proves `DfNamesTypeOK` and `DfNamesListed`: for every list and every size
of the caller's array, neither the array nor a name in it overflows, and a success returns
the card's own list in order, as far as there is room. `Progress` is what makes `Listed`
inductive: in the loop, the array says what the first `n` frames of the list say, and the
card still has to send exactly the others (`Unread`). A list that an abandoned call left
half read needs no clause, because the first frame of a call starts the list over.

`ConversionsProofs` proves every property of `Conversions`, for every block size and
payloads of any length: `ConversionsPadding`, `ConversionsMac`, `ConversionsCbc`,
`ConversionsCounter`, `ConversionsVersion`, `ConversionsTmi`, `ConversionsCrc`,
`ConversionsSettings`. Its invariant `IInv` only says that the output is what the algorithm
returns for the input (a lemma, `ConversionsAnswered`). The weight is in lemmas about the algorithms,
which hold for all data, beyond the inputs of the run:

* `Iteration` derives what the library's induction theorems cannot be instantiated for:
  every non-empty set of naturals has a least element (`Least`), hence a set that holds 0
  and the successor of each of its members holds all (`Induction`, `UpTo`), hence a function
  defined by recursion on `0..len` has the values its definition says (`Run`). A statement
  about every `n` is put as membership of a set, so no operator is a parameter.
* `CodecProofs`: `PaddedIs` and `PaddingIsUndone` find the last mark; `MacInputsAreApart`
  compares masked and unmasked buffers; `CbcReceived` shows, from the permutation and from
  `XorBlocks` alone, that chaining back undoes chaining and that both ends keep one IV;
  `CounterStepsRun` says where the carry of the LRP counter stops and what is before and
  behind it; `VersionReadBack` and `KeyBitsStay` are about single bits; `WritesAreApart` reads
  a record write back from its TMI. The register of the CRC is followed exactly, through
  `XorNibbleFacts` (which enumerates two nibbles), `CrcStepIs` and `CrcStepStays`, because a
  reading that ends beyond the last byte that is not zero has a CRC of zero: such a register
  was zero already where the search looks (`ZerosKeepRegister`), and it is never zero after
  one byte (`OneByteRegister`); both are in `ConversionsProofs`.
* `SdmSettingsProofs`: the offsets the settings hold are listed in the card's order
  (`FieldsAre`), each lies behind as many as the card counts before it (`CountsAre`,
  `ListedAt`, `SettingsAre`), and the card's conditions are the library's
  (`CardExpectsHeld`), although it sees only the bytes before. That they fit 27 bytes rests
  on the UID and the enciphered PICC data never being mirrored together (`HeldApart`).

The assumptions on the constants are evaluated by TLC in every run.

Model-checked only:

* `Returned` in `Framing` and `DfNames`: liveness under fairness, which needs `ENABLED`;
* `SuccessMeansSession` on a D40 session, and where EV1 answers are enciphered: false of the
  code in general, and not a property of `ev1_card`.

## 5. Not modelled

* The ciphers, CMAC and LRP as functions of their keys, CRC32 (32-bit words are beyond
  TLC's integers), LRP tables, key derivation, session keys, random numbers: functions of
  bytes with published vectors, which the self test (`nxpsc_selftest.c`) runs. The modes
  around the ciphers (CBC, padding, masking, counters) are in `Codec`.
* The bytes of payloads and their parsing after a call, and the key store helpers.
* How ISO 7816 wrapping lays out a frame; a wrapped answer that is too short counts as
  lost.
* The keys and the MAC of `nxpsc_tmac_compute()`; what it takes is in `Codec`.
* What `nxpsc_identify()` and `nxpsc_get_card_uid()` keep when another card is presented to
  the same handle: `CardType` is a constant, and there is one card.
* `nxpsc_exchange()` inside a MIFARE Plus session.
* The self test, `tests/` (a double of the card, used as a description of it), the
  examples, mbed TLS.

## 6. Plan

Done, in this order: `WireFormat`, `DesfireApi`, `SecureChannel` and the proofs of its
invariants; `OneExchange`, `Framing` and the refinement; `Plus` and its proofs; `DfNames`;
`Codec`, `SdmSettings`, `Conversions`; the conditional theorems of `SecureChannel`, on every
channel; `Listed`; `Iteration` and the lemmas about the algorithms; the theorems of
`Conversions`. Every safety property of a passing run is a theorem.

Left:

1. That one step of `SecureChannel` is one call of `OneExchange`, as a theorem: today it is
   an argument of this README (section 2).
2. A second card on the same handle, with the cached version, type and UID.
