------------------------------- MODULE Accounts -------------------------------
(***************************************************************************)
(* Customers and referral partners, and the one-time codes that prove      *)
(* their email and their mobile number: OtpService, UsersService, the      *)
(* signup, resend, login and mobile flows of src/src/auth, and             *)
(* ReferralAuthService.                                                    *)
(*                                                                         *)
(* A request runs as a sequence of statements, each a step, without any    *)
(* lock.  save() of a row that was read before writes every column of the  *)
(* copy; a request may be cut off between any two statements.              *)
(*                                                                         *)
(* An account stands for its email, a code for its token: the n-th code    *)
(* has token n.  The age of a code is what the time tells apart: "young"   *)
(* while it holds the cooldown, then "usable", then "expired" (the         *)
(* cooldown fits inside the lifetime, config/env.validation.ts).  Status   *)
(* and emailVerified of an account change together, as `verified`.         *)
(*                                                                         *)
(* Not in the code: where a code was delivered (`to`), why it is consumed, *)
(* `proof`, the code by which an account was last verified, and `calm`,    *)
(* the accounts none of whose requests have overlapped yet.                *)
(***************************************************************************)
EXTENDS Integers, Sequences, FiniteSets

CONSTANTS
    Users,        \* emails of customers
    Partners,     \* emails of referral partners
    Numbers,      \* mobile numbers of supported countries
    Requests,     \* concurrent requests
    MaxAttempts,  \* OTP_MAX_ATTEMPTS
    MaxCodes,     \* bound on the rows of otp_verifications
    Nothing       \* no row, no number

ASSUME SubjectsAssumption == Users \cap Partners = {}
ASSUME AttemptsAssumption == MaxAttempts \in Nat \ {0}
ASSUME CodesAssumption == MaxCodes \in Nat
ASSUME NothingAssumption == Nothing \notin Users \cup Partners \cup Numbers
ASSUME RequestsAssumption == IsFiniteSet(Requests)

VARIABLES
    account,      \* users and referral_partners, by email
    codes,        \* otp_verifications, in the order of createdAt
    request,      \* what each request is in the middle of
    proof,        \* see above
    calm          \* see above

vars == <<account, codes, request, proof, calm>>

Subjects == Users \cup Partners
Purposes == {"signup", "mobile"}
Ages == <<"young", "usable", "expired">>

AccountRow == [verified : BOOLEAN, mobile : Numbers \cup {Nothing}, mobileOk : BOOLEAN]
CodeRow == [subject : Subjects, purpose : Purposes, attempts : 0 .. MaxAttempts,
            consumed : {"no", "used", "replaced"}, age : {"young", "usable", "expired"},
            to : Subjects \cup Numbers \cup {Nothing}]

ASSUME NoRowAssumption == Nothing \notin AccountRow

NewAccount == [verified |-> FALSE, mobile |-> Nothing, mobileOk |-> FALSE]

Exists(s) == account[s] # Nothing
Verified(s) == Exists(s) /\ account[s].verified
HoldsNumber(s, n) == Exists(s) /\ account[s].mobileOk /\ account[s].mobile = n

CodesOf(s, purpose) ==
    {i \in 1 .. Len(codes) : codes[i].subject = s /\ codes[i].purpose = purpose}
Open(s, purpose) == {i \in CodesOf(s, purpose) : codes[i].consumed = "no"}
\* Mutant of Locked: one more guess than the limit.
LockedLate(i) == codes[i].attempts > MaxAttempts
Locked(i) == codes[i].attempts >= MaxAttempts
Young(i) == codes[i].age = "young"
IsLatest(i, set) == i \in set /\ \A j \in set : j <= i

-----------------------------------------------------------------------------
(* Requests.  `row` is the account it has read, `id` its code, `attempts`  *)
(* what it has read of that code, `number` the mobile number it is about.  *)

Blank == [at |-> "done", op |-> "none", who |-> Nothing, number |-> Nothing,
          id |-> 0, right |-> FALSE, attempts |-> 0, row |-> Nothing]

At(r, where) == request[r].at = where
Goto(r, where) == request' = [request EXCEPT ![r].at = where]
Finish(r) == request' = [request EXCEPT ![r] = Blank]
Copy(r, where) ==
    request' = [request EXCEPT ![r].at = where, ![r].row = account[request[r].who]]

\* The accounts a request reads or writes.
Touched(d) == {d.who} \cup {codes[i].subject : i \in {d.id} \cap (1 .. Len(codes))}
Busy(s) == \E q \in Requests : request[q].at # "done" /\ s \in Touched(request[q])

Begin(r, d) ==
    /\ At(r, "done")
    /\ request' = [request EXCEPT ![r] = d]
    /\ calm' = calm \ {s \in Touched(d) : Busy(s)}

\* The bound on codes, those that requests under way may still make included.
MayMint == Len(codes) + Cardinality({q \in Requests :
             request[q].op \in {"first", "again", "mobile"} /\ request[q].id = 0}) < MaxCodes

\* The purpose of the codes a request makes or checks.
PurposeOf(r) == IF request[r].op \in {"mobile", "verifyMobile"} THEN "mobile" ELSE "signup"

-----------------------------------------------------------------------------
(* Saving an account.                                                      *)

\* Mutant of NumberTaken: the database has no such index.
NumberNeverTaken(s, row) == FALSE

\* uq_users_mobile, whichever save meets it: the holder is another row.
NumberTaken(s, row) ==
    row.mobileOk /\ \E t \in Users \ {s} : HoldsNumber(t, row.mobile)

Save(s, row) ==
    /\ ~ NumberTaken(s, row)
    /\ account' = [account EXCEPT ![s] = row]

-----------------------------------------------------------------------------
(* Signup, and the recovery of a signup that was never verified.           *)

\* findByEmail: a verified account is taken (EMAIL_TAKEN), one that is not is
\* claimed anew.  Users are read again for it, after the hash of the password.
Signup(r, s) ==
    /\ MayMint /\ s \in Users /\ ~ Verified(s)
    /\ Begin(r, [Blank EXCEPT !.at = IF Exists(s) THEN "reread" ELSE "insert",
                              !.op = IF Exists(s) THEN "again" ELSE "first",
                              !.who = s])
    /\ UNCHANGED <<account, codes, proof>>

\* The same of a partner, whose row is not read again.
Register(r, s) ==
    /\ MayMint /\ s \in Partners /\ ~ Verified(s)
    /\ Begin(r, [Blank EXCEPT !.at = IF Exists(s) THEN "overwrite" ELSE "insert",
                              !.op = IF Exists(s) THEN "again" ELSE "first",
                              !.who = s, !.row = account[s]])
    /\ UNCHANGED <<account, codes, proof>>

\* The loser of two first signups meets the unique index of the email.
Insert(r) ==
    LET s == request[r].who IN
    /\ At(r, "insert")
    /\ \/ ~ Exists(s) /\ account' = [account EXCEPT ![s] = NewAccount] /\ Goto(r, "cool")
       \/ Exists(s) /\ Finish(r) /\ UNCHANGED account
    /\ UNCHANGED <<codes, proof, calm>>

\* overwritePending reads the user ...
Reread(r) ==
    /\ At(r, "reread")
    /\ Copy(r, "overwrite")
    /\ UNCHANGED <<account, codes, proof, calm>>

\* ... and saves the copy with the new password and name.
Overwrite(r) ==
    LET d == request[r] IN
    /\ At(r, "overwrite")
    /\ \/ Save(d.who, d.row) /\ Goto(r, "open")
       \/ NumberTaken(d.who, d.row) /\ Finish(r) /\ UNCHANGED account
    /\ UNCHANGED <<codes, proof, calm>>

\* ensureEmailVerification: a usable code sent moments ago is handed out again.
EnsureOpen(r) ==
    LET s == request[r].who
        usable == {i \in Open(s, "signup") : codes[i].age # "expired" /\ ~ Locked(i)}
    IN  /\ At(r, "open")
        /\ IF \E i \in usable : IsLatest(i, usable) /\ Young(i)
           THEN Finish(r) ELSE Goto(r, "cool")
        /\ UNCHANGED <<account, codes, proof, calm>>

\* A login with the right password and an unverified email (customers only).
LoginUnverified(r, s) ==
    /\ MayMint /\ s \in Users /\ Exists(s) /\ ~ Verified(s)
    /\ Begin(r, [Blank EXCEPT !.at = "open", !.op = "again", !.who = s])
    /\ UNCHANGED <<account, codes, proof>>

\* Any signup token, old or new, asks for a new code while the account is pending.
Resend(r, i) ==
    LET s == codes[i].subject IN
    /\ MayMint /\ codes[i].purpose = "signup" /\ Exists(s) /\ ~ Verified(s)
    /\ Begin(r, [Blank EXCEPT !.at = "cool", !.op = "again", !.who = s])
    /\ UNCHANGED <<account, codes, proof>>

-----------------------------------------------------------------------------
(* OtpService.issue ("first") and reissue (all others).                    *)

\* Mutant of Cool: open codes are kept.
CoolAndKeep(r) ==
    LET mine == CodesOf(request[r].who, PurposeOf(r)) IN
    /\ At(r, "cool")
    /\ IF \E i \in mine : IsLatest(i, mine) /\ Young(i) THEN Finish(r) ELSE Goto(r, "mint")
    /\ UNCHANGED <<account, codes, proof, calm>>

\* Mutant of Cool: the open codes are invalidated before the cooldown is checked.
CoolLate(r) ==
    LET mine == CodesOf(request[r].who, PurposeOf(r)) IN
    /\ At(r, "cool")
    /\ codes' = [i \in 1 .. Len(codes) |->
                   IF i \in Open(request[r].who, PurposeOf(r))
                   THEN [codes[i] EXCEPT !.consumed = "replaced"] ELSE codes[i]]
    /\ IF \E i \in mine : IsLatest(i, mine) /\ Young(i) THEN Finish(r) ELSE Goto(r, "mint")
    /\ UNCHANGED <<account, proof, calm>>

\* Mutant of Cool: a consumed code does not hold the cooldown.
CoolOpen(r) ==
    LET mine == Open(request[r].who, PurposeOf(r)) IN
    /\ At(r, "cool")
    /\ IF \E i \in mine : IsLatest(i, mine) /\ Young(i)
       THEN Finish(r)
       ELSE Goto(r, IF request[r].op = "first" THEN "mint" ELSE "invalidate")
    /\ UNCHANGED <<account, codes, proof, calm>>

\* assertCooldown: the latest code counts, consumed or not.
Cool(r) ==
    LET mine == CodesOf(request[r].who, PurposeOf(r)) IN
    /\ At(r, "cool")
    /\ IF \E i \in mine : IsLatest(i, mine) /\ Young(i)
       THEN Finish(r)
       ELSE Goto(r, IF request[r].op = "first" THEN "mint" ELSE "invalidate")
    /\ UNCHANGED <<account, codes, proof, calm>>

Invalidate(r) ==
    /\ At(r, "invalidate")
    /\ codes' = [i \in 1 .. Len(codes) |->
                   IF i \in Open(request[r].who, PurposeOf(r))
                   THEN [codes[i] EXCEPT !.consumed = "replaced"] ELSE codes[i]]
    /\ Goto(r, "mint")
    /\ UNCHANGED <<account, proof, calm>>

\* For a mobile number the account is staged before the message is sent.
Mint(r) ==
    /\ At(r, "mint")
    /\ codes' = Append(codes, [subject |-> request[r].who, purpose |-> PurposeOf(r),
                               attempts |-> 0, consumed |-> "no", age |-> "young",
                               to |-> Nothing])
    /\ request' = [request EXCEPT ![r].id = Len(codes) + 1,
                                  ![r].at = IF request[r].op = "mobile"
                                            THEN "stageRead" ELSE "send"]
    /\ UNCHANGED <<account, proof, calm>>

\* MailerService, SmsService: the code arrives.
Send(r) ==
    LET d == request[r] IN
    /\ At(r, "send")
    /\ codes' = [codes EXCEPT ![d.id].to = IF d.op = "mobile" THEN d.number ELSE d.who]
    /\ Finish(r)
    /\ UNCHANGED <<account, proof, calm>>

-----------------------------------------------------------------------------
(* The mobile number.                                                      *)

SetMobile(r, s, n) ==
    /\ MayMint /\ s \in Users /\ Verified(s) /\ ~ account[s].mobileOk
    /\ Begin(r, [Blank EXCEPT !.at = "free", !.op = "mobile", !.who = s, !.number = n])
    /\ UNCHANGED <<account, codes, proof>>

\* assertMobileFree, advisory both when the number is set and when it is verified.
Free(r) ==
    LET d == request[r] IN
    /\ At(r, "free")
    /\ IF \E t \in Users \ {d.who} : HoldsNumber(t, d.number)
       THEN Finish(r)
       ELSE Goto(r, IF d.op = "mobile" THEN "cool" ELSE "markRead")
    /\ UNCHANGED <<account, codes, proof, calm>>

\* setPendingMobile
StageRead(r) ==
    /\ At(r, "stageRead")
    /\ Copy(r, "stage")
    /\ UNCHANGED <<account, codes, proof, calm>>

Stage(r) ==
    LET d == request[r] IN
    /\ At(r, "stage")
    /\ Save(d.who, [d.row EXCEPT !.mobile = d.number, !.mobileOk = FALSE])
    /\ Goto(r, "send")
    /\ UNCHANGED <<codes, proof, calm>>

-----------------------------------------------------------------------------
(* Verification.                                                           *)

\* Mutant of Acceptable: the purpose of the code is not compared.
AcceptableAny(i, purpose, kind) ==
    /\ codes[i].subject \in kind
    /\ codes[i].consumed = "no"
    /\ codes[i].age # "expired"
    /\ ~ Locked(i)

\* The row a token finds must be of the flow, open, in time and not locked.
Acceptable(i, purpose, kind) ==
    /\ codes[i].purpose = purpose
    /\ codes[i].subject \in kind
    /\ codes[i].consumed = "no"
    /\ codes[i].age # "expired"
    /\ ~ Locked(i)

\* The holder of a code is who it was delivered to.
Guess(right, i) == right => codes[i].to # Nothing

VerifyOtp(r, i, right) ==
    /\ Guess(right, i)
    /\ \E kind \in {Users, Partners} : Acceptable(i, "signup", kind)
    /\ Begin(r, [Blank EXCEPT !.at = "check", !.op = "verify", !.who = codes[i].subject,
                              !.id = i, !.right = right, !.attempts = codes[i].attempts])
    /\ UNCHANGED <<account, codes, proof>>

VerifyMobile(r, s, i, right) ==
    /\ s \in Users /\ Verified(s)
    /\ Guess(right, i)
    /\ Acceptable(i, "mobile", Users)
    /\ Begin(r, [Blank EXCEPT !.at = "check", !.op = "verifyMobile", !.who = s,
                              !.id = i, !.right = right, !.attempts = codes[i].attempts])
    /\ UNCHANGED <<account, codes, proof>>

\* The hash is compared, and the row saved as it was read but for one column.
CheckWrong(r) ==
    LET d == request[r] IN
    /\ At(r, "check") /\ ~ d.right
    /\ codes' = [codes EXCEPT ![d.id].attempts = d.attempts + 1, ![d.id].consumed = "no"]
    /\ Finish(r)
    /\ UNCHANGED <<account, proof, calm>>

\* A code of another account ends the verification of a number after it is used.
CheckRight(r) ==
    LET d == request[r] IN
    /\ At(r, "check") /\ d.right
    /\ codes' = [codes EXCEPT ![d.id].attempts = d.attempts, ![d.id].consumed = "used"]
    /\ IF d.op = "verify" THEN Goto(r, "markRead")
       ELSE IF codes[d.id].subject = d.who THEN Goto(r, "number")
       ELSE Finish(r)
    /\ UNCHANGED <<account, proof, calm>>

\* verifyMobileOtp reads the number that is pending now.
NumberRead(r) ==
    LET n == account[request[r].who].mobile IN
    /\ At(r, "number")
    /\ \/ n = Nothing /\ Finish(r)
       \/ n # Nothing /\ request' = [request EXCEPT ![r].at = "free", ![r].number = n]
    /\ UNCHANGED <<account, codes, proof, calm>>

\* markVerified, markMobileVerified and the partners' verifyOtp read the account ...
MarkRead(r) ==
    /\ At(r, "markRead")
    /\ Copy(r, "mark")
    /\ UNCHANGED <<account, codes, proof, calm>>

\* ... and save it.
Mark(r) ==
    LET d == request[r]
        row == [d.row EXCEPT !.verified = TRUE]
    IN  /\ At(r, "mark") /\ d.op = "verify"
        /\ \/ /\ Save(d.who, row)
              /\ proof' = [proof EXCEPT ![d.who].signup = d.id]
           \/ NumberTaken(d.who, row) /\ UNCHANGED <<account, proof>>
        /\ Finish(r)
        /\ UNCHANGED <<codes, calm>>

MarkMobile(r) ==
    LET d == request[r]
        row == [d.row EXCEPT !.mobileOk = TRUE]
    IN  /\ At(r, "mark") /\ d.op = "verifyMobile"
        /\ \/ /\ Save(d.who, row)
              /\ proof' = [proof EXCEPT ![d.who].mobile = d.id]
           \/ NumberTaken(d.who, row) /\ UNCHANGED <<account, proof>>
        /\ Finish(r)
        /\ UNCHANGED <<codes, calm>>

-----------------------------------------------------------------------------
(* Other writers of the same rows.                                         *)

\* createInvited: an invitation proved the email.
CreateInvited(s) ==
    /\ s \in Users /\ ~ Exists(s)
    /\ account' = [account EXCEPT ![s] = [NewAccount EXCEPT !.verified = TRUE]]
    /\ UNCHANGED <<codes, request, proof, calm>>

\* The login of a partner saves what it read before the password was checked; a
\* customer's sets lastLoginAt alone.
PartnerLogin(r, s) ==
    /\ s \in Partners /\ Verified(s)
    /\ Begin(r, [Blank EXCEPT !.at = "touch", !.op = "login", !.who = s, !.row = account[s]])
    /\ UNCHANGED <<account, codes, proof>>

OnLogin(r) ==
    /\ At(r, "touch")
    /\ Save(request[r].who, request[r].row)
    /\ Finish(r)
    /\ UNCHANGED <<codes, proof, calm>>

\* Time: a code is never older than one that was made before it.
GrowOlder(i) ==
    \E k \in 1 .. 2 :
      /\ codes[i].age = Ages[k]
      /\ \A j \in 1 .. i - 1 : \E m \in k + 1 .. 3 : codes[j].age = Ages[m]
      /\ codes' = [codes EXCEPT ![i].age = Ages[k + 1]]
      /\ UNCHANGED <<account, request, proof, calm>>

\* The process or a connection dies, or the provider fails.
CutOff(r) ==
    /\ ~ At(r, "done")
    /\ Finish(r)
    /\ UNCHANGED <<account, codes, proof, calm>>

-----------------------------------------------------------------------------
Init ==
    /\ account = [s \in Subjects |-> Nothing]
    /\ codes = << >>
    /\ request = [r \in Requests |-> Blank]
    /\ proof = [s \in Subjects |-> [signup |-> 0, mobile |-> 0]]
    /\ calm = Subjects

Step(r) ==
    \/ Insert(r) \/ Reread(r) \/ Overwrite(r) \/ EnsureOpen(r)
    \/ Cool(r) \/ Invalidate(r) \/ Mint(r) \/ Send(r)
    \/ Free(r) \/ StageRead(r) \/ Stage(r)
    \/ CheckWrong(r) \/ CheckRight(r) \/ NumberRead(r)
    \/ MarkRead(r) \/ Mark(r) \/ MarkMobile(r) \/ OnLogin(r)

Arrive(r) ==
    \/ \E s \in Subjects : Signup(r, s) \/ Register(r, s) \/ LoginUnverified(r, s)
                           \/ PartnerLogin(r, s)
    \/ \E s \in Users, n \in Numbers : SetMobile(r, s, n)
    \/ \E i \in 1 .. Len(codes) :
         \/ Resend(r, i)
         \/ \E right \in BOOLEAN : \/ VerifyOtp(r, i, right)
                                   \/ \E s \in Users : VerifyMobile(r, s, i, right)

Next ==
    \/ \E r \in Requests : Step(r) \/ Arrive(r) \/ CutOff(r)
    \/ \E s \in Users : CreateInvited(s)
    \/ \E i \in 1 .. Len(codes) : GrowOlder(i)

Spec == Init /\ [][Next]_vars

-----------------------------------------------------------------------------
(* Properties.                                                             *)

RequestRow == [at : {"done", "insert", "reread", "overwrite", "open", "cool", "invalidate",
                     "mint", "send", "free", "stageRead", "stage", "check", "number",
                     "markRead", "mark", "touch"},
               op : {"none", "first", "again", "mobile", "verify", "verifyMobile", "login"},
               who : Subjects \cup {Nothing}, number : Numbers \cup {Nothing},
               id : 0 .. MaxCodes, right : BOOLEAN, attempts : 0 .. MaxAttempts - 1,
               row : AccountRow \cup {Nothing}]

\* Every row has its columns, and a code never counts more wrong guesses than the
\* limit (attempts of otp_verifications, OtpService.verify).
TypeOK ==
    /\ account \in [Subjects -> AccountRow \cup {Nothing}]
    /\ codes \in Seq(CodeRow) /\ Len(codes) <= MaxCodes
    /\ request \in [Requests -> RequestRow]
    /\ proof \in [Subjects -> [signup : 0 .. MaxCodes, mobile : 0 .. MaxCodes]]
    /\ calm \subseteq Subjects

\* Two users never hold the same verified number, however their verifications and
\* the checks that the number is free interleave (assertMobileFree, uq_users_mobile).
OneHolderPerNumber ==
    \A s, t \in Users : s # t => \A n \in Numbers : ~ (HoldsNumber(s, n) /\ HoldsNumber(t, n))

\* What verified an account was a code of this account, made for this purpose and
\* delivered to somebody, through all races (OtpService.verify, verifyMobileOtp).
OwnCode ==
    \A s \in Subjects, purpose \in Purposes :
      LET i == proof[s][purpose] IN
      i # 0 => i \in CodesOf(s, purpose) /\ codes[i].to # Nothing

\* A number is verified by a code that was sent to it: setMobile replaces the
\* codes of an earlier number before it stages the new one, wherever it is cut off.
\* Requests of one user that overlap are exempt: markMobileVerified reads the account
\* anew after the code was accepted, and verifies whatever number is staged by then.
NumberProved ==
    \A s \in calm \cap Users :
      Exists(s) /\ account[s].mobileOk => codes[proof[s].mobile].to = account[s].mobile

\* While the cooldown runs, the code that started it has not been replaced, so a
\* refusal (429) never leaves its owner without a code to wait for.
NeverStranded ==
    \A s \in calm, purpose \in Purposes :
      \A i \in CodesOf(s, purpose) : Young(i) => codes[i].consumed # "replaced"

\* An account has one open code per purpose and one within the cooldown: issue,
\* reissue and ensureEmailVerification together, on every path that sends a code.
OneCodeAtATime ==
    \A s \in calm, purpose \in Purposes :
      \A i, j \in CodesOf(s, purpose) :
        i # j => /\ ~ (Young(i) /\ Young(j))
                 /\ ~ (i \in Open(s, purpose) /\ j \in Open(s, purpose))
=============================================================================
