---------------------------- MODULE CompanySettings ----------------------------
(***************************************************************************)
(* What is set for a company and for a workspace: the JSON column          *)
(* company.data, which four handlers read, change and write back whole,    *)
(* and the table notification_config, rewritten user by user in a READ     *)
(* COMMITTED transaction and without a unique index.                       *)
(***************************************************************************)
EXTENDS Naturals

CONSTANTS
  Setter,    \* calls that write company.data, each made once (a bound of the model)
  DataKey,   \* keys of company.data; "isr_percentage", "coi_enabled", "scrap_status" among them
  Member,    \* users of the workspace
  NotificationType,
  Rewriting, \* calls of SetConfig, each made once (a bound of the model)
  Unset

VARIABLES
  data,     \* data[k]: the call that wrote key k, or Unset
  setting,  \* the calls that write company.data
  configs,  \* committed rows of notification_config of the workspace
  config    \* the calls of SetConfig

settingsVars == <<data, setting, configs, config>>

SettingStep == {"none", "write", "done"}
NotificationConfig == [user : Member, type : NotificationType, by : Rewriting \cup {"before"}]

\* "missed" is a history: the keys, or the types of a user, that other calls changed
\* since this one read them.
NoSetting == [step |-> "none", key |-> "none", seen |-> [k \in DataKey |-> Unset], missed |-> {}]
NoConfig == [step |-> "none", want |-> [u \in Member |-> {}], left |-> {}, user |-> Unset,
             current |-> {}, added |-> {}, removed |-> {}, missed |-> {}]

SettingsInit ==
  /\ data = [k \in DataKey |-> Unset]
  /\ setting = [s \in Setter |-> NoSetting]
  /\ configs = {[user |-> u, type |-> "ERROR", by |-> "before"] : u \in Member}
  /\ config = [c \in Rewriting |-> NoConfig]

-----------------------------------------------------------------------------
(* company.data *)

\* The row is read: by the middleware, or by the handler itself.
ReadData(s, k) ==
  /\ setting[s].step = "none"
  /\ setting' = [setting EXCEPT ![s] = [step |-> "write", key |-> k, seen |-> data, missed |-> {}]]
  /\ UNCHANGED <<data, configs, config>>

\* Variant: the keys are written back as the default row has them.
WriteDataFresh(s) ==
  /\ setting[s].step = "write"
  /\ data' = [k \in DataKey |-> IF k = setting[s].key THEN s ELSE Unset]
  /\ setting' = [t \in Setter |->
       IF t = s THEN [NoSetting EXCEPT !.step = "done"]
       ELSE IF setting[t].step = "write"
       THEN [setting[t] EXCEPT !.missed = @ \cup {k \in DataKey : data'[k] # data[k]}]
       ELSE setting[t]]
  /\ UNCHANGED <<configs, config>>

\* SetData, SetISRPercentage, the COI flag and the status of the scraper: one key is
\* set in what was read, and the whole column is written.
WriteData(s) ==
  /\ setting[s].step = "write"
  /\ data' = [setting[s].seen EXCEPT ![setting[s].key] = s]
  /\ setting' = [t \in Setter |->
       IF t = s THEN [NoSetting EXCEPT !.step = "done"]
       ELSE IF setting[t].step = "write"
       THEN [setting[t] EXCEPT !.missed = @ \cup {k \in DataKey : data'[k] # data[k]}]
       ELSE setting[t]]
  /\ UNCHANGED <<configs, config>>

\* The UPDATE fails, the value is refused, or the process dies.
WriteDataFails(s) ==
  /\ setting[s].step = "write"
  /\ setting' = [setting EXCEPT ![s] = [NoSetting EXCEPT !.step = "done"]]
  /\ UNCHANGED <<data, configs, config>>

-----------------------------------------------------------------------------
(* notification_config *)

\* The request names users per type: "want" is the inverse, for the users who exist.
SetConfig(c, want) ==
  /\ config[c].step = "none"
  /\ config' = [config EXCEPT ![c] = [NoConfig EXCEPT !.step = "next", !.want = want,
                                        !.left = {u \in Member : want[u] # {}}]]
  /\ UNCHANGED <<data, setting, configs>>

\* The users in the order of a Go map: the types each has now.
ReadConfigs(c, u) ==
  /\ config[c].step = "next" /\ u \in config[c].left
  /\ config' = [config EXCEPT ![c].step = "change", ![c].user = u,
                  ![c].left = @ \ {u},
                  ![c].current = {r.type : r \in {q \in configs : q.user = u}}]
  /\ UNCHANGED <<data, setting, configs>>

\* The DELETE goes by the types, not by the rows that were read.
Obsolete(c) == {r \in configs : /\ r.user = config[c].user
                                /\ r.type \in config[c].current \ config[c].want[config[c].user]}

Missing(c) == {[user |-> config[c].user, type |-> t, by |-> c] :
                 t \in config[c].want[config[c].user] \ config[c].current}

\* INSERT of the new types and DELETE of the obsolete ones, which waits for the rows
\* that another transaction deletes.
ChangeConfigs(c) ==
  /\ config[c].step = "change"
  /\ \A d \in Rewriting \ {c} : Obsolete(c) \cap config[d].removed = {}
  /\ config' = [config EXCEPT ![c].step = "next", ![c].user = Unset, ![c].current = {},
                  ![c].added = @ \cup Missing(c), ![c].removed = @ \cup Obsolete(c)]
  /\ UNCHANGED <<data, setting, configs>>

Closed == [NoConfig EXCEPT !.step = "done"]

CommitConfigs(c) ==
  /\ config[c].step = "next" /\ config[c].left = {}
  /\ configs' = (configs \ config[c].removed) \cup config[c].added
  /\ config' = [d \in Rewriting |->
       IF d = c THEN Closed
       ELSE IF config[d].step \in {"next", "change"}
       THEN [config[d] EXCEPT
               !.missed = @ \cup {<<r.user, r.type>> : r \in config[c].removed \cup config[c].added},
               !.removed = @ \ config[c].removed]
       ELSE config[d]]
  /\ UNCHANGED <<data, setting>>

\* A statement fails, two transactions wait for each other, or the process dies.
RollbackConfigs(c) ==
  /\ config[c].step \in {"next", "change"}
  /\ config' = [config EXCEPT ![c] = Closed]
  /\ UNCHANGED <<data, setting, configs>>

DataNext ==
  \E s \in Setter :
    \/ \E k \in DataKey : ReadData(s, k)
    \/ WriteData(s)
    \/ WriteDataFails(s)

ConfigsNext ==
  \E c \in Rewriting :
    \/ \E want \in [Member -> SUBSET NotificationType] : SetConfig(c, want)
    \/ \E u \in Member : ReadConfigs(c, u)
    \/ ChangeConfigs(c)
    \/ CommitConfigs(c)
    \/ RollbackConfigs(c)

SettingsNext == DataNext \/ ConfigsNext

SettingsSpec == SettingsInit /\ [][SettingsNext]_settingsVars

-----------------------------------------------------------------------------
(* Properties *)

\* A setting of a company is undone by a call for another setting only when that call
\* had read the column before the first one wrote it.
SettingKept ==
  [][\A k \in DataKey : data'[k] # data[k] =>
       \E s \in Setter : /\ setting[s].step = "write" /\ setting'[s].step = "done"
                         /\ (k = setting[s].key \/ k \in setting[s].missed)]_settingsVars

TypesOf(u) == {r.type : r \in {q \in configs : q.user = u}}

\* When a call commits, each of its users has the types it asked for, but for those
\* that overlapping calls changed; a user it does not name keeps what he has.
ConfigIsWhatWasAsked ==
  [][\A c \in Rewriting : config[c].step = "next" /\ config'[c].step = "done" /\ configs' # configs =>
       \A u \in Member, t \in NotificationType :
         IF config[c].want[u] = {} THEN t \in TypesOf(u)' <=> t \in TypesOf(u)
         ELSE (t \in TypesOf(u)' <=> t \in config[c].want[u])
                \/ <<u, t>> \in config[c].missed]_settingsVars

\* A setting, of a company or of the notifications of its users, is lost only by calls
\* that overlap.
SettingsNeedOverlap == SettingKept /\ ConfigIsWhatWasAsked

=============================================================================
