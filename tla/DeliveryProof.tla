--------------------------- MODULE DeliveryProof ---------------------------
(***************************************************************************)
(* Proof of delivery by one-time code and e-way bill drafts (backend/apps/ *)
(* sales: send_delivery_otp, verify_delivery_otp, eway_bill.py).  A code   *)
(* is replaced by the next one sent; a wrong code is counted inside the    *)
(* transaction that the error then rolls back.  A code is sent by SMS and  *)
(* then by WhatsApp (send_sms, send_whatsapp of apps/notifications), each  *)
(* logged with the channel that took it.                                   *)
(***************************************************************************)
EXTENDS Naturals, FiniteSets

CONSTANTS Bills,           \* invoices; Phone[b]: whether the customer has one
          Phone,
          Configured,      \* the media ("sms", "whatsapp") whose gateway settings resolve
          Verifiers,       \* verify calls at a time
          MaxAttempts,     \* InvoiceDeliveryOTP.MAX_ATTEMPTS
          MaxSends, MaxTries, \* bounds: codes sent, verify calls
          Distances        \* kilometres an e-way bill is asked for

VARIABLES
    otp,       \* otp[b]: its row: [code, expired, attempts, verified]; code 0: no row
    confirmed, \* confirmed[b]: the code that confirmed the delivery, 0 for none
    verify,    \* verify[v]: the call being served
    sending,   \* what the send calls have still to send: <<bill, code, medium>>
    sent,      \* SmsLog and WhatsAppLog: <<bill, code, medium, channel>>
    wrong,     \* wrong[b]: wrong codes answered since the last send
    eway,      \* eway[b]: days of validity of the e-way bill draft, 0: none
    sends, tries

proofVars == <<otp, confirmed, verify, sending, sent, wrong, eway, sends, tries>>

NoCall == [stage |-> "idle", bill |-> CHOOSE b \in Bills : TRUE, code |-> 0, row |-> 0]

NewOtp(code) == [code |-> code, expired |-> FALSE, attempts |-> 0, verified |-> FALSE]

Init ==
    /\ otp = [b \in Bills |-> NewOtp(0)]
    /\ confirmed = [b \in Bills |-> 0]
    /\ verify = [v \in Verifiers |-> NoCall]
    /\ sending = {} /\ sent = {}
    /\ wrong = [b \in Bills |-> 0]
    /\ eway = [b \in Bills |-> 0]
    /\ sends = 0 /\ tries = 0

\* send_delivery_otp: a new code replaces the row ...
SendOtp(b) ==
    /\ Phone[b]
    /\ sends < MaxSends
    /\ sends' = sends + 1
    /\ otp' = [otp EXCEPT ![b] = NewOtp(sends')]
    /\ wrong' = [wrong EXCEPT ![b] = 0]
    /\ sending' = sending \cup {<<b, sends', "sms">>}
    /\ UNCHANGED <<confirmed, verify, sent, eway, tries>>

\* The channels a message may be logged with: the console without a gateway, and
\* with one that cannot be reached.
Channels(medium) == IF medium \in Configured THEN {"gateway", "console"} ELSE {"console"}

\* ... then the SMS is sent and logged ...
SendSms(b, code) ==
    /\ <<b, code, "sms">> \in sending
    /\ \E channel \in Channels("sms") : sent' = sent \cup {<<b, code, "sms", channel>>}
    /\ sending' = (sending \ {<<b, code, "sms">>}) \cup {<<b, code, "whatsapp">>}
    /\ UNCHANGED <<otp, confirmed, verify, wrong, eway, sends, tries>>

\* ... and the WhatsApp message.
SendWhatsApp(b, code) ==
    /\ <<b, code, "whatsapp">> \in sending
    /\ \E channel \in Channels("whatsapp") : sent' = sent \cup {<<b, code, "whatsapp", channel>>}
    /\ sending' = sending \ {<<b, code, "whatsapp">>}
    /\ UNCHANGED <<otp, confirmed, verify, wrong, eway, sends, tries>>

\* notify_invoice_ready_whatsapp: on demand, with no code (0).
NotifyReady(b) ==
    /\ Phone[b]
    /\ sending' = sending \cup {<<b, 0, "whatsapp">>}
    /\ UNCHANGED <<otp, confirmed, verify, sent, wrong, eway, sends, tries>>

\* A call dies or its template is bad: the customer is told nothing more.
StopSending(x) ==
    /\ x \in sending
    /\ sending' = sending \ {x}
    /\ UNCHANGED <<otp, confirmed, verify, sent, wrong, eway, sends, tries>>

\* OTP_VALIDITY_MINUTES pass.
Expire(b) ==
    /\ otp[b].code # 0 /\ ~otp[b].expired
    /\ otp' = [otp EXCEPT ![b].expired = TRUE]
    /\ UNCHANGED <<confirmed, verify, sending, sent, wrong, eway, sends, tries>>

\* The conditions under which verify_delivery_otp looks at the code.
Acceptable(o) == o.code # 0 /\ ~o.verified /\ o.attempts < MaxAttempts /\ ~o.expired

\* verify_delivery_otp reads the row; a refused call changes nothing.
ReadOtp(v, b, code) ==
    /\ verify[v] = NoCall
    /\ tries < MaxTries
    /\ tries' = tries + 1
    /\ Acceptable(otp[b])
    /\ verify' = [verify EXCEPT ![v] = [stage |-> "read", bill |-> b, code |-> code, row |-> otp[b].code]]
    /\ UNCHANGED <<otp, confirmed, sending, sent, wrong, eway, sends>>

Done(v) == verify' = [verify EXCEPT ![v] = NoCall]

\* attempts + 1 is saved, and rolled back by the DomainError that follows.
AttemptsAfterWrongCode(n) == n

WrongCode(v) ==
    LET b == verify[v].bill IN
    /\ verify[v].stage = "read"
    /\ verify[v].code # verify[v].row
    /\ otp' = [otp EXCEPT ![b].attempts = AttemptsAfterWrongCode(@)]
    /\ wrong' = [wrong EXCEPT ![b] = @ + (IF otp[b].code = verify[v].row THEN 1 ELSE 0)]
    /\ Done(v)
    /\ UNCHANGED <<confirmed, sending, sent, eway, sends, tries>>

\* verified_at is saved on the row, whichever code it holds by now, and the invoice.
RightCode(v) ==
    LET b == verify[v].bill IN
    /\ verify[v].stage = "read"
    /\ verify[v].code = verify[v].row
    /\ otp' = [otp EXCEPT ![b].verified = TRUE]
    /\ confirmed' = [confirmed EXCEPT ![b] = verify[v].code]
    /\ Done(v)
    /\ UNCHANGED <<sending, sent, wrong, eway, sends, tries>>

\* generate_eway_bill: one day for every 200 km begun, replacing the last draft.
ValidityDays(km) == LET d == IF km > 1 THEN km ELSE 1 IN (d + 199) \div 200

GenerateEwayBill(b, km) ==
    /\ eway' = [eway EXCEPT ![b] = ValidityDays(km)]
    /\ eway' # eway
    /\ UNCHANGED <<otp, confirmed, verify, sending, sent, wrong, sends, tries>>

Next ==
    \/ \E b \in Bills : SendOtp(b) \/ Expire(b) \/ NotifyReady(b)
    \/ \E b \in Bills, code \in 0..MaxSends : SendSms(b, code) \/ SendWhatsApp(b, code)
    \/ \E x \in sending : StopSending(x)
    \/ \E b \in Bills, km \in Distances : GenerateEwayBill(b, km)
    \/ \E v \in Verifiers, b \in Bills, code \in 0..MaxSends : ReadOtp(v, b, code)
    \/ \E v \in Verifiers : WrongCode(v) \/ RightCode(v)

Spec == Init /\ [][Next]_proofVars

-----------------------------------------------------------------------------
(* Properties *)

TypeOK ==
    /\ \A b \in Bills : otp[b].code \in 0..MaxSends /\ otp[b].attempts \in 0..MaxAttempts
    /\ confirmed \in [Bills -> 0..MaxSends]
    /\ \A v \in Verifiers : verify[v].stage \in {"idle", "read"}
    /\ \A x \in sending \cup sent : x[1] \in Bills /\ x[2] \in 0..MaxSends
    /\ eway \in [Bills -> Nat]
    /\ sends \in 0..MaxSends /\ tries \in 0..MaxTries

\* What the model and the error text promise: after MAX_ATTEMPTS wrong codes the
\* invoice's code is locked until another is sent.
WrongCodesLock == \A b \in Bills : wrong[b] >= MaxAttempts => ~Acceptable(otp[b])
=============================================================================
