------------------------------ MODULE Providers -----------------------------
(***************************************************************************)
(* What becomes of one message: the checks of its recipient, the provider  *)
(* the module's factories choose for its channel, and what the provider    *)
(* returns or throws.  Pure operators; Automation uses them.               *)
(***************************************************************************)
EXTENDS Integers, FiniteSets

Channels == {"email", "sms", "push"}

\* A recipient, by what the checks look at: an e-mail address, another text
\* with an @, a + and digits that do not start with 0, another text after a +,
\* digits, or a text that is none of them; and how many characters it has.
Address ==
    [form : {"email", "at", "e164", "plus", "digits", "other"}, length : Nat]

----------------------------------------------------------------------------
(* recipient.util.ts, and the check of MessageService *)

IsValidEmail(to) == to.form = "email"

IsValidPhone(to) ==
    \/ to.form = "digits" /\ to.length \in 10 .. 15
    \/ to.form = "e164" /\ to.length \in 9 .. 16

ValidateRecipient(channel, to) ==
    /\ to.length > 0
    /\ channel = "email" => IsValidEmail(to)
    /\ channel = "sms" => IsValidPhone(to)
    /\ channel = "push" => to.length >= 10

HasAt(to) == to.form \in {"email", "at"}

AssertToMatchesChannel(channel, to) ==
    /\ channel = "sms" => ~HasAt(to)
    /\ channel = "email" => HasAt(to)

----------------------------------------------------------------------------
(* The providers.  Answers are what the service behind a provider may say: *)
(* it takes the message, or the call throws.                               *)

Answers == {"taken", "denied", "limited", "broken"}

Returned(provider) == [provider |-> provider, error |-> "none"]
Thrown(error) == [provider |-> "none", error |-> error]

FakeSend(channel) ==
    CASE channel = "email" -> Returned("fake-email")
      [] channel = "sms" -> Returned("fake-sms")
      [] channel = "push" -> Returned("fake-push")

\* Without EMAIL_FROM it throws; so it does when Resend returns an error.
EmailSend(configured, to, answer) ==
    IF configured /\ answer = "taken" THEN Returned("resend") ELSE Thrown("plain")

AssertE164(to) == to.form \in {"e164", "plus"} /\ to.length >= 8

SmsSend(configured, to, answer) ==
    IF configured /\ AssertE164(to) /\ answer = "taken" THEN Returned("twilio")
    ELSE Thrown("plain")

\* Firebase is configured when the provider is made, or the process stops.
PushSend(to, answer) ==
    IF answer = "taken" THEN Returned("fcm") ELSE Thrown("plain")

RealSend(env, channel, to, answer) ==
    CASE channel = "email" -> EmailSend("email" \notin env.unset, to, answer)
      [] channel = "sms" -> SmsSend("sms" \notin env.unset, to, answer)
      [] channel = "push" -> PushSend(to, answer)

\* The fallback answers for the primary when that throws ProviderConfigError.
\* No provider does: the error is made in methods named catch, called by nobody.
FallbackSend(primary, fallback) ==
    IF primary.error = "config"
    THEN [fallback EXCEPT !.provider = "fallback"] ELSE primary

\* Mutant: the mode is not looked at, so a demo sends for real.
ChosenByNodeEnv(env) ==
    IF env.mode = "test" THEN "fake"
    ELSE IF env.allowFallback THEN "fallback" ELSE "real"

\* The factories of CommunicationsModule: NODE_ENV, COMMUNICATIONS_MODE,
\* COMMUNICATIONS_ALLOW_FAKE_FALLBACK.
Chosen(env) ==
    IF env.mode \in {"test", "demo"} THEN "fake"
    ELSE IF env.allowFallback THEN "fallback" ELSE "real"

\* registry.get(channel).send(...)
Send(env, channel, to, answer) ==
    LET real == RealSend(env, channel, to, answer)
    IN  CASE Chosen(env) = "fake" -> FakeSend(channel)
          [] Chosen(env) = "real" -> real
          [] Chosen(env) = "fallback" -> FallbackSend(real, FakeSend(channel))

Env == [mode : {"test", "demo", "live"}, allowFallback : BOOLEAN,
        unset : SUBSET {"email", "sms"}]
=============================================================================
