---------------------------- MODULE MCSettingsSync ----------------------------
(* Two windows and the tray, commands that overlap in pairs, patches of one    *)
(* field and one whose second field is refused.                                *)
EXTENDS SettingsSync, TLC

CONSTANTS panel, settings, menu, t1, t2
MCWindows == {panel, settings}
MCTasks == {t1, t2}
MCValues == [theme |-> {"dark", "light"}, mode |-> {"full", "minimal"},
             tz |-> {"local", "UTC"}, region |-> {"china", "international"}]
MCDefault == [theme |-> "dark", mode |-> "full", tz |-> "local", region |-> "china"]
MCPatches == {[theme |-> "light"], [mode |-> "minimal", tz |-> "UTC"],
              [theme |-> "light", region |-> "atlantis"]}
MCSymmetry == Permutations(MCWindows) \cup Permutations(MCTasks)
===============================================================================
