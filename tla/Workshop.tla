------------------------------ MODULE Workshop ------------------------------
(***************************************************************************)
(* The client's workshop manager (CCFWorkshopManager): which items it      *)
(* tracks, lists as subscribed and shows in the browser, which of them are *)
(* on the search path, which the player has disabled, and what the engine  *)
(* has loaded.                                                             *)
(*                                                                         *)
(* Steam is the environment.  The subscriptions it reports, what it        *)
(* installs and when, and its answers are its own: a refresh reads any set *)
(* of items, and a subscription or its end may be answered at any time or  *)
(* never, which is what happens to the first of two calls in flight.       *)
(* Left out: the state of one item (CCFWorkshopItem) and the downloads it  *)
(* starts, uploads, weapon mods and the HUD's scheme, which has a reload   *)
(* flag of its own.                                                        *)
(***************************************************************************)
EXTENDS Integers

CONSTANTS
    Items,      \* published file ids
    Content,    \* the items that replace game content, by their tags and by their folders alike
    Skins,      \* those of them of type WEAPON_SKIN
    Owned,      \* the items of this user
    Vanishing,  \* the items whose files Steam may remove while the game runs
    None        \* no item

ASSUME ItemAssumption ==
    /\ Skins \subseteq Content /\ Content \subseteq Items
    /\ Owned \subseteq Items /\ Vanishing \subseteq Items /\ None \notin Items

VARIABLES
    installed,      \* the items with k_EItemStateInstalled and a folder
    posted,         \* the items of which an ItemInstalled_t is on its way
    tracked,        \* m_mapItems
    browse,         \* m_vecBrowseableItems
    listed,         \* m_vecSubscribedItems
    recently,       \* m_vecRecentlyUnsubscribed
    refreshQueued,
    browsing,       \* m_hCurrentQuery is a query, and its call is registered
    deleting,       \* m_nPendingDeleteFileID while m_bDeleteInProgress
    disabled,       \* m_vecDisabledItems
    saved,          \* cfg/workshop_disabled.txt
    paths,          \* the items whose folder is on the search path, Content at its head
    skins,          \* how often an item is in m_vecMountedWeaponSkins
    reloadPending,  \* m_bContentReloadPending
    loaded          \* the content the engine has loaded

steam == <<installed, posted>>
lists == <<listed, recently, refreshQueued>>
calls == <<browsing, deleting>>
toggles == <<disabled, saved>>
mounts == <<paths, skins, reloadPending>>
vars == <<steam, tracked, browse, lists, calls, toggles, mounts, loaded>>

NoItem == [f \in Items |-> 0]

Init ==
    /\ installed \in SUBSET Items /\ posted = {}
    /\ tracked = {} /\ browse = {}
    /\ listed = {} /\ recently = {} /\ refreshQueued = TRUE
    /\ browsing = FALSE /\ deleting = None
    /\ saved \in SUBSET Items /\ disabled = saved
    /\ paths = {} /\ skins = NoItem /\ reloadPending = FALSE /\ loaded = {}

\* The game ends, at any time, and is started again: InitWorkshop.
Restart ==
    /\ posted' = {}
    /\ tracked' = {} /\ browse' = {}
    /\ listed' = {} /\ recently' = {} /\ refreshQueued' = TRUE
    /\ browsing' = FALSE /\ deleting' = None
    /\ disabled' = saved
    /\ paths' = {} /\ skins' = NoItem /\ reloadPending' = FALSE /\ loaded' = {}
    /\ UNCHANGED <<installed, saved>>

-----------------------------------------------------------------------------
(* Mounting and unmounting. *)

\* Mutant: the player's choice is not looked at.
MountableAlways(f, off) == f \in installed

Mountable(f, off) == f \in installed /\ f \notin off

\* An item that is in the list is not added again.
TrackedAsSkin(S) == [f \in Items |-> IF f \in S /\ skins[f] = 0 THEN 1 ELSE skins[f]]

MountableOf(S) == {f \in S : Mountable(f, disabled)}

\* The folders of M are added to the search path, which is the effect of
\* MountWorkshopItem, and of MountWeaponSkin.
AddSearchPaths(M) ==
    /\ paths' = paths \cup M
    /\ skins' = TrackedAsSkin(M \cap Content)

\* m_bContentReloadPending after that.
ReloadAsked(M) == reloadPending \/ M \cap Content # {}

MountItems(M) == AddSearchPaths(M) /\ reloadPending' = ReloadAsked(M)

Untracked(f) == [skins EXCEPT ![f] = IF @ = 0 THEN 0 ELSE @ - 1]

\* Mutant: the list is asked after the item has been removed from it.
WasContentModLate(f) == Untracked(f)[f] > 0

WasContentMod(f) == skins[f] > 0

\* What RemoveSearchPath removes: the folder of f.  Without an install folder the
\* path of a tracked item is uninitialized: what lay there before, or nothing.
Unmounted(f) ==
    IF f \in installed THEN {paths \ {f}}
    ELSE IF f \in tracked THEN {paths} \cup {paths \ {g} : g \in Items}
    ELSE {paths}

\* UnmountWorkshopItem; it ends early for an item that is neither installed nor tracked.
Unmount(f) ==
    /\ skins' = Untracked(f)
    /\ paths' \in Unmounted(f)
    /\ reloadPending' = (reloadPending \/ (WasContentMod(f) /\ f \in installed \cup tracked))

-----------------------------------------------------------------------------
(* The subscriptions. *)

\* Items that Steam may still report although they were unsubscribed are skipped.
ToMount(L) == L \ recently

\* L is what Steam reports.
RefreshSubscriptions(L) ==
    /\ listed' = L /\ recently' = {}
    /\ tracked' = tracked \cup (L \ recently)
    /\ AddSearchPaths(MountableOf(ToMount(L)))

\* cf_workshop_refresh and the workshop panel.
RefreshNow ==
    \E L \in SUBSET Items :
        /\ RefreshSubscriptions(L)
        /\ reloadPending' = ReloadAsked(MountableOf(ToMount(L)))
        /\ UNCHANGED <<steam, browse, refreshQueued, calls, toggles, loaded>>

\* Update, every frame.  The content reload, which this refresh may ask for, is
\* done unless the last one is too recent.
Update ==
    \E L \in SUBSET Items, ready \in BOOLEAN :
        LET pending == ReloadAsked(IF refreshQueued THEN MountableOf(ToMount(L)) ELSE {})
        IN  /\ IF refreshQueued THEN RefreshSubscriptions(L)
               ELSE UNCHANGED <<listed, recently, tracked, paths, skins>>
            /\ refreshQueued' = FALSE
            /\ reloadPending' = (pending /\ ~ready)
            /\ loaded' = IF pending /\ ready THEN paths' \cap Content ELSE loaded
            /\ UNCHANGED <<steam, browse, calls, toggles>>

\* The answer to SubscribeItem: the item is mounted if it is installed already.
Steam_OnSubscribeItem(f) ==
    /\ refreshQueued' = TRUE
    /\ MountItems(MountableOf({f}))
    /\ UNCHANGED <<steam, tracked, browse, listed, recently, calls, toggles, loaded>>

\* Mutant: the browser keeps the item.
RemoveItemOnly(f) == tracked' = tracked \ {f} /\ UNCHANGED browse

\* Neither unmounts the item nor does it touch the subscriptions.
RemoveItem(f) == tracked' = tracked \ {f} /\ browse' = browse \ {f}

\* The answer to UnsubscribeItem.
Steam_OnUnsubscribeItem(f) ==
    /\ recently' = recently \cup {f}
    /\ Unmount(f)
    /\ RemoveItem(f)
    /\ listed' = listed \ {f}
    /\ UNCHANGED <<steam, refreshQueued, calls, toggles, loaded>>

-----------------------------------------------------------------------------
(* What the player does to single items. *)

\* Mutant: the list is saved before it is changed.
SetItemEnabledSavedBefore(f, enabled) ==
    /\ enabled <=> f \in disabled
    /\ disabled' = IF enabled THEN disabled \ {f} ELSE disabled \cup {f}
    /\ saved' = disabled
    /\ IF enabled THEN AddSearchPaths({f} \cap installed)
       ELSE paths' \in Unmounted(f) /\ skins' = Untracked(f)
    /\ reloadPending' = TRUE
    /\ UNCHANGED <<steam, tracked, browse, lists, calls, loaded>>

\* The list is saved at once, and a content reload asked for in any case.
SetItemEnabled(f, enabled) ==
    /\ enabled <=> f \in disabled
    /\ disabled' = IF enabled THEN disabled \ {f} ELSE disabled \cup {f}
    /\ saved' = disabled'
    /\ IF enabled THEN AddSearchPaths({f} \cap installed)
       ELSE paths' \in Unmounted(f) /\ skins' = Untracked(f)
    /\ reloadPending' = TRUE
    /\ UNCHANGED <<steam, tracked, browse, lists, calls, loaded>>

\* QueryItemDetails, PrepareMap, OnWorkshopMapIDReceived and others track an item.
AddItem(f) ==
    /\ tracked' = tracked \cup {f}
    /\ UNCHANGED <<steam, browse, lists, calls, toggles, mounts, loaded>>

\* One at a time; an item of others is refused, here or by Steam.
DeleteItem(f) ==
    /\ deleting = None /\ f \in Owned
    /\ deleting' = f
    /\ UNCHANGED <<steam, tracked, browse, lists, browsing, toggles, mounts, loaded>>

Steam_OnDeleteItem(ok) ==
    /\ deleting # None
    /\ deleting' = None
    /\ IF ok THEN RemoveItem(deleting) ELSE UNCHANGED <<tracked, browse>>
    /\ UNCHANGED <<steam, lists, browsing, toggles, mounts, loaded>>

\* The console mounts an item that has content, whatever its type, and whether it
\* is disabled or not.
MountWeaponSkin(f) ==
    /\ f \in Content \cap installed /\ skins[f] = 0
    /\ MountItems({f})
    /\ UNCHANGED <<steam, tracked, browse, lists, calls, toggles, loaded>>

UnmountWeaponSkin(f) ==
    /\ skins[f] > 0
    /\ paths' = IF f \in installed THEN paths \ {f} ELSE paths
    /\ skins' = Untracked(f)
    /\ reloadPending' = TRUE
    /\ UNCHANGED <<steam, tracked, browse, lists, calls, toggles, loaded>>

\* Those of which the type is known by now.
SkinsToMount == SUBSET {f \in Skins : f \in listed \cap tracked \cap installed}

MountAllWeaponSkins ==
    \E S \in SkinsToMount :
        /\ MountItems({f \in S : skins[f] = 0})
        /\ UNCHANGED <<steam, tracked, browse, lists, calls, toggles, loaded>>

\* All content is unmounted, only skins are mounted again, and only they ask for a reload.
RefreshWeaponSkins ==
    \E S \in SkinsToMount :
        /\ paths' = (paths \ {f \in installed : skins[f] > 0}) \cup S
        /\ skins' = [f \in Items |-> IF f \in S THEN 1 ELSE 0]
        /\ reloadPending' = ReloadAsked(S)
        /\ UNCHANGED <<steam, tracked, browse, lists, calls, toggles, loaded>>

-----------------------------------------------------------------------------
(* The browser. *)

\* QueryRecentItems waits for the query before it, the others replace that one.
QueryRecentItems ==
    /\ ~browsing
    /\ browsing' = TRUE
    /\ UNCHANGED <<steam, tracked, browse, lists, deleting, toggles, mounts, loaded>>

\* SearchWorkshop, QueryPopularItems, QueryUserItems.
SearchWorkshop ==
    /\ browsing' = TRUE
    /\ UNCHANGED <<steam, tracked, browse, lists, deleting, toggles, mounts, loaded>>

QueryFails ==
    /\ browsing
    /\ browsing' = FALSE
    /\ UNCHANGED <<steam, tracked, browse, lists, deleting, toggles, mounts, loaded>>

Steam_OnQueryCompleted ==
    /\ browsing
    /\ browsing' = FALSE
    /\ \E hits \in SUBSET Items : browse' = hits /\ tracked' = tracked \cup hits
    /\ UNCHANGED <<steam, lists, deleting, toggles, mounts, loaded>>

\* cf_workshop_clear_cache: ClearBrowseableItems, then QueryRecentItems.
ClearBrowseableItems ==
    /\ browse' = {} /\ tracked' = {} /\ browsing' = TRUE
    /\ UNCHANGED <<steam, lists, deleting, toggles, mounts, loaded>>

-----------------------------------------------------------------------------
(* Steam installs items, tells of it, and removes their files. *)

\* Also an update of an item that is installed.
SteamInstalls(f) ==
    /\ installed' = installed \cup {f} /\ posted' = posted \cup {f}
    /\ UNCHANGED <<tracked, browse, lists, calls, toggles, mounts, loaded>>

SteamRemovesFiles(f) ==
    /\ f \in installed \cap Vanishing
    /\ installed' = installed \ {f}
    /\ UNCHANGED <<posted, tracked, browse, lists, calls, toggles, mounts, loaded>>

\* Mutant: only items that are tracked are mounted.
ToldInstalledTracked(f) == MountableOf({f} \cap tracked)

ToldInstalled(f) == MountableOf({f})

\* Whether the item is tracked, or subscribed still, does not matter.
Steam_OnItemInstalled(f) ==
    /\ f \in posted
    /\ posted' = posted \ {f}
    /\ MountItems(ToldInstalled(f))
    /\ UNCHANGED <<installed, tracked, browse, lists, calls, toggles, loaded>>

\* The download that the game asked for is complete.
Steam_OnDownloadItem(f) ==
    /\ f \in tracked
    /\ MountItems(MountableOf({f}))
    /\ UNCHANGED <<steam, tracked, browse, lists, calls, toggles, loaded>>

ItemSteps(f) ==
    \/ AddItem(f) \/ DeleteItem(f)
    \/ \E enabled \in BOOLEAN : SetItemEnabled(f, enabled)
    \/ MountWeaponSkin(f) \/ UnmountWeaponSkin(f)
SteamSteps(f) ==
    \/ SteamInstalls(f) \/ SteamRemovesFiles(f)
    \/ Steam_OnItemInstalled(f) \/ Steam_OnDownloadItem(f)
    \/ Steam_OnSubscribeItem(f) \/ Steam_OnUnsubscribeItem(f)

Next ==
    \/ \E f \in Items : ItemSteps(f) \/ SteamSteps(f)
    \/ \E ok \in BOOLEAN : Steam_OnDeleteItem(ok)
    \/ Update \/ RefreshNow
    \/ MountAllWeaponSkins \/ RefreshWeaponSkins
    \/ QueryRecentItems \/ SearchWorkshop \/ QueryFails \/ Steam_OnQueryCompleted
    \/ ClearBrowseableItems \/ Restart

Spec == Init /\ [][Next]_vars

-----------------------------------------------------------------------------
\* A content item is at most once in m_vecMountedWeaponSkins, of which
\* unmounting removes one entry.
TypeOK ==
    /\ installed \subseteq Items /\ posted \subseteq Items
    /\ tracked \subseteq Items /\ browse \subseteq Items
    /\ listed \subseteq Items /\ recently \subseteq Items /\ refreshQueued \in BOOLEAN
    /\ browsing \in BOOLEAN /\ deleting \in Items \cup {None}
    /\ disabled \subseteq Items /\ saved \subseteq Items
    /\ paths \subseteq Items /\ skins \in [Items -> 0 .. 1]
    /\ reloadPending \in BOOLEAN /\ loaded \subseteq Content

\* The browser shows items that exist, whatever is deleted, unsubscribed or
\* cleared while it is open: an entry is a pointer to an item of m_mapItems.
BrowsedItemsLive == browse \subseteq tracked

\* A tracked item without files is unmounted: what is removed from the search
\* path is not known.
PathUnknown ==
    \E g \in tracked \ installed : SetItemEnabled(g, FALSE) \/ Steam_OnUnsubscribeItem(g)

\* What the engine has loaded of an item is what is on the search path, or a
\* reload is pending.  Every way of mounting and unmounting content keeps it so,
\* but for cf_workshop_refresh_skins, and for items whose files were removed.
UpToDate(f) == reloadPending \/ (f \in paths <=> f \in loaded)
StaysUpToDate ==
    \A f \in Content \ Vanishing :
        UpToDate(f) => UpToDate(f)' \/ RefreshWeaponSkins \/ PathUnknown
ContentStaysUpToDate == [][StaysUpToDate]_vars

\* An item the player has disabled stays disabled until the player enables it, over
\* restarts too.  It comes on the search path, or stays there, only if the console
\* mounts it or its files are missing when it is unmounted; no refresh, answer,
\* installation or restart mounts it.
ChoiceKept == \A f \in Items : f \in disabled \ disabled' => SetItemEnabled(f, TRUE)
DisabledMounted(f) == f \in disabled /\ f \in paths
StaysDisabled ==
    \A f \in Items :
        DisabledMounted(f)' =>
            \/ DisabledMounted(f) \/ f \notin installed
            \/ MountWeaponSkin(f) \/ MountAllWeaponSkins \/ RefreshWeaponSkins
DisabledStaysUnmounted == [][ChoiceKept /\ StaysDisabled]_vars

\* A subscribed item that is enabled and installed is mounted, or will be by a
\* notification on its way.  It is left out only by a refresh so soon after it
\* was unsubscribed that the manager skips it, by the console, or by an
\* unmounting of another item with an unknown path.
LeftOut(f) == f \in listed \ disabled /\ f \in installed \ posted /\ f \notin paths
NoneLeftOut ==
    \A f \in Items :
        LeftOut(f)' =>
            LeftOut(f) \/ f \in recently \/ UnmountWeaponSkin(f) \/ RefreshWeaponSkins \/ PathUnknown
ListedItemsMounted == [][NoneLeftOut]_vars

=============================================================================
