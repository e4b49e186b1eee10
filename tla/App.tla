-------------------------------- MODULE App --------------------------------
(***************************************************************************)
(* The client side: the application with its session and circuit, its      *)
(* wallet and its settings; the opening of its database; the channel to    *)
(* the privileged service; the mobile library on top; and the traffic      *)
(* shaper.  The first three share App.mu, which is never held across a     *)
(* call, and App.cfg, which UpdateConfig replaces and the other two read   *)
(* once per request: what they take from it (resolvers, selection policy,  *)
(* network, hourly budget, the entry region) their models leave open or    *)
(* have as a constant.  The others are processes, libraries and files of   *)
(* their own.  A behaviour exercises one of them.                          *)
(***************************************************************************)
EXTENDS Session, Wallet, Settings, Schema, Channel, Mobile, Shaper

VARIABLE work

appVars == <<sessionVars, walletVars, settingsVars>>
aroundVars == <<schemaVars, channelVars, mobileVars, shaperVars>>

Init ==
    /\ work \in {"session", "wallet", "settings", "schema", "channel", "mobile", "shaper"}
    /\ SessionInit /\ WalletInit /\ SettingsInit /\ SchemaInit
    /\ ChannelInit /\ MobileInit /\ ShaperInit

AppNext ==
    /\ UNCHANGED aroundVars
    /\ \/ work = "session" /\ SessionNext /\ UNCHANGED <<walletVars, settingsVars>>
       \/ work = "wallet" /\ WalletNext /\ UNCHANGED <<sessionVars, settingsVars>>
       \/ work = "settings" /\ SettingsNext /\ UNCHANGED <<sessionVars, walletVars>>

AroundNext ==
    /\ UNCHANGED appVars
    /\ \/ work = "schema" /\ SchemaNext /\ UNCHANGED <<channelVars, mobileVars, shaperVars>>
       \/ work = "channel" /\ ChannelNext /\ UNCHANGED <<schemaVars, mobileVars, shaperVars>>
       \/ work = "mobile" /\ MobileNext /\ UNCHANGED <<schemaVars, channelVars, shaperVars>>
       \/ work = "shaper" /\ ShaperNext /\ UNCHANGED <<schemaVars, channelVars, mobileVars>>

Next == UNCHANGED work /\ (AppNext \/ AroundNext)

Spec == Init /\ [][Next]_<<work, appVars, aroundVars>>
=============================================================================
